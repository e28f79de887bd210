------------------------- MODULE HostRegistryProofs -------------------------
(***************************************************************************)
(* The safety properties of HostRegistry for any number of hosts, requests,*)
(* events and outages.                                                     *)
(***************************************************************************)
EXTENDS HostRegistry, TLAPS

(* Add() owns its host until the certificates are stored, removals are the  *)
(* only ones to delete certificates, and every request names its host.      *)
RequestsFit ==
  \A r \in Requests :
    /\ request[r].pc # "idle" => request[r].host \in Hosts
    /\ request[r].pc = "deleting" => request[r].op = "remove"
    /\ request[r].pc = "putting" =>
         /\ request[r].op = "add"
         /\ records[request[r].host] = "absent"
         /\ \A q \in Requests : request[q].host = request[r].host => q = r

(* The inductive invariant. *)
IInv == TypeOK /\ RequestsFit /\ HostsAreWatched /\ SecretsHaveHosts

-----------------------------------------------------------------------------
(* Types are preserved, one step per action of the registry. *)
LEMMA TypeOKStep ==
  TypeOK /\ RequestsFit /\ [Next]_vars => TypeOK'
<1> SUFFICES ASSUME TypeOK, RequestsFit, [Next]_vars
             PROVE  TypeOK'
  OBVIOUS
<1>1. ASSUME NEW r \in Requests, NEW h \in Hosts, AddWithTls(r, h) PROVE TypeOK'
  BY <1>1, BoundsAssumption DEF AddWithTls, To, TypeOK, RequestsFit, Idle
<1>2. ASSUME NEW r \in Requests, NEW h \in Hosts, Add(r, h) PROVE TypeOK'
  BY <1>2, BoundsAssumption DEF Add, To, TypeOK, RequestsFit, Idle
<1>3. ASSUME NEW r \in Requests, NEW h \in Hosts, Remove(r, h) PROVE TypeOK'
  BY <1>3, BoundsAssumption DEF Remove, To, TypeOK, RequestsFit, Idle
<1>4. ASSUME NEW r \in Requests, NEW h \in Hosts, Test(r, h) PROVE TypeOK'
  BY <1>4, BoundsAssumption DEF Test, To, TypeOK, RequestsFit, Idle
<1>5. ASSUME NEW r \in Requests, NEW h \in Hosts, List(r, h) PROVE TypeOK'
  BY <1>5, BoundsAssumption DEF List, To, TypeOK, RequestsFit, Idle
<1>6. ASSUME NEW r \in Requests, NEW h \in Hosts, Inspect(r, h) PROVE TypeOK'
  BY <1>6, BoundsAssumption DEF Inspect, To, TypeOK, RequestsFit, Idle
<1>7. ASSUME NEW r \in Requests, NEW h \in Hosts, Mutate(r, h) PROVE TypeOK'
  BY <1>7, BoundsAssumption DEF Mutate, To, TypeOK, RequestsFit, Idle
<1>8. ASSUME NEW r \in Requests, NEW stored \in BOOLEAN, SecretPut(r, stored)
      PROVE TypeOK'
  BY <1>8, BoundsAssumption DEF SecretPut, To, Finish, TypeOK, RequestsFit, Idle
<1>9. ASSUME NEW r \in Requests, NEW deleted \in BOOLEAN, SecretDeleted(r, deleted)
      PROVE TypeOK'
  BY <1>9, BoundsAssumption DEF SecretDeleted, Finish, TypeOK, RequestsFit, Idle
<1>10. ASSUME NEW r \in Requests, NEW answer \in {"ok", "rejected", "failed"},
              EngineAnswers(r, answer)
       PROVE TypeOK'
  BY <1>10, BoundsAssumption DEF EngineAnswers, Asking, TypeOK, RequestsFit, Idle
<1>11. ASSUME NEW r \in Requests, Answered(r) PROVE TypeOK'
  <2>1. Marked(r) \in {"unknown", "online", "offline"}
    BY <1>11 DEF Answered, Asking, Marked, TypeOK, RequestsFit
  <2>2. watcher' \in [Hosts -> {"none", "opening", "streaming", "sleeping", "stopped"}]
    <3>1. PICK w \in {"opening", "stopped"} :
            watcher' \in {watcher, [watcher EXCEPT ![request[r].host] = w]}
      BY <1>11 DEF Answered, Loop
    <3> QED
      BY <3>1 DEF TypeOK
  <2>3. eventAbort' \in [Hosts -> BOOLEAN]
    <3>1. eventAbort' \in {eventAbort, [eventAbort EXCEPT ![request[r].host] = FALSE]}
      BY <1>11 DEF Answered, Loop, TypeOK
    <3> QED
      BY <3>1 DEF TypeOK
  <2>4. status' \in [Hosts -> {"unknown", "online", "offline"}]
    BY <1>11, <2>1 DEF Answered, TypeOK
  <2> QED
    BY <1>11, <2>2, <2>3, <2>4 DEF Answered, Finish, Idle, TypeOK
<1>12. ASSUME NEW h \in Hosts, StreamOpens(h) PROVE TypeOK'
  BY <1>12, BoundsAssumption DEF StreamOpens, TypeOK, RequestsFit, Idle
<1>13. ASSUME NEW h \in Hosts, StreamEvent(h) PROVE TypeOK'
  BY <1>13, BoundsAssumption DEF StreamEvent, TypeOK, RequestsFit, Idle
<1>14. ASSUME NEW h \in Hosts, StreamFails(h) PROVE TypeOK'
  BY <1>14, BoundsAssumption DEF StreamFails, Pause, Loop, watching, TypeOK,
     RequestsFit, Idle
<1>15. ASSUME NEW h \in Hosts, StreamCloses(h) PROVE TypeOK'
  BY <1>15, BoundsAssumption DEF StreamCloses, Pause, Loop, watching, TypeOK,
     RequestsFit, Idle
<1>16. ASSUME NEW h \in Hosts, Wake(h) PROVE TypeOK'
  BY <1>16, BoundsAssumption DEF Wake, Loop, watching, TypeOK, RequestsFit, Idle
<1>17. ASSUME Close PROVE TypeOK'
  BY <1>17, BoundsAssumption DEF Close, TypeOK, RequestsFit, Idle
<1>18. ASSUME EnginesFail PROVE TypeOK'
  <2>1. outages' \in 0 .. MaxOutages
    BY <1>18, BoundsAssumption DEF EnginesFail, TypeOK
  <2> QED
    BY <1>18, <2>1 DEF EnginesFail, TypeOK
<1>19. ASSUME EnginesRecover PROVE TypeOK'
  BY <1>19, BoundsAssumption DEF EnginesRecover, TypeOK, RequestsFit, Idle
<1>21. ASSUME NEW r \in Requests, StreamHangs(r) PROVE TypeOK'
  BY <1>21, BoundsAssumption DEF StreamHangs, Finish, TypeOK,
     Idle, registered
<1>20. CASE UNCHANGED vars
  BY <1>20 DEF vars, TypeOK, RequestsFit, Idle
<1> QED
  BY <1>1, <1>2, <1>3, <1>4, <1>5, <1>6, <1>7, <1>8, <1>9, <1>10,
     <1>11, <1>12, <1>13, <1>14, <1>15, <1>16, <1>17, <1>18, <1>19, <1>20, <1>21
  DEF Next

-----------------------------------------------------------------------------
(* A request keeps its host, and add() keeps its claim on a new one. *)
LEMMA RequestsFitStep ==
  TypeOK /\ RequestsFit /\ [Next]_vars => RequestsFit'
<1> SUFFICES ASSUME TypeOK, RequestsFit, [Next]_vars
             PROVE  RequestsFit'
  OBVIOUS
<1>1. ASSUME NEW r \in Requests, NEW h \in Hosts, AddWithTls(r, h) PROVE RequestsFit'
  BY <1>1, NoHostAssumption DEF AddWithTls, To, TypeOK, RequestsFit, Idle, registered
<1>2. ASSUME NEW r \in Requests, NEW h \in Hosts, Add(r, h) PROVE RequestsFit'
  BY <1>2, NoHostAssumption DEF Add, To, TypeOK, RequestsFit, Idle, registered
<1>3. ASSUME NEW r \in Requests, NEW h \in Hosts, Remove(r, h) PROVE RequestsFit'
  BY <1>3, NoHostAssumption DEF Remove, To, TypeOK, RequestsFit, Idle, registered
<1>4. ASSUME NEW r \in Requests, NEW h \in Hosts, Test(r, h) PROVE RequestsFit'
  BY <1>4, NoHostAssumption DEF Test, To, TypeOK, RequestsFit, Idle, registered
<1>5. ASSUME NEW r \in Requests, NEW h \in Hosts, List(r, h) PROVE RequestsFit'
  BY <1>5, NoHostAssumption DEF List, To, TypeOK, RequestsFit, Idle, registered
<1>6. ASSUME NEW r \in Requests, NEW h \in Hosts, Inspect(r, h) PROVE RequestsFit'
  BY <1>6, NoHostAssumption DEF Inspect, To, TypeOK, RequestsFit, Idle, registered
<1>7. ASSUME NEW r \in Requests, NEW h \in Hosts, Mutate(r, h) PROVE RequestsFit'
  BY <1>7, NoHostAssumption DEF Mutate, To, TypeOK, RequestsFit, Idle, registered
<1>8. ASSUME NEW r \in Requests, NEW stored \in BOOLEAN, SecretPut(r, stored)
      PROVE RequestsFit'
  BY <1>8, NoHostAssumption DEF SecretPut, To, Finish, TypeOK, RequestsFit, Idle,
     registered
<1>9. ASSUME NEW r \in Requests, NEW deleted \in BOOLEAN, SecretDeleted(r, deleted)
      PROVE RequestsFit'
  BY <1>9, NoHostAssumption DEF SecretDeleted, Finish, TypeOK, RequestsFit, Idle,
     registered
<1>10. ASSUME NEW r \in Requests, NEW answer \in {"ok", "rejected", "failed"},
              EngineAnswers(r, answer)
       PROVE RequestsFit'
  BY <1>10, NoHostAssumption DEF EngineAnswers, Asking, TypeOK, RequestsFit, Idle,
     registered
<1>11. ASSUME NEW r \in Requests, Answered(r) PROVE RequestsFit'
  BY <1>11, NoHostAssumption DEF Answered, Asking, Finish, Loop, Marked, watching,
     TypeOK, RequestsFit, Idle, registered
<1>12. ASSUME NEW h \in Hosts, StreamOpens(h) PROVE RequestsFit'
  BY <1>12, NoHostAssumption DEF StreamOpens, TypeOK, RequestsFit, Idle, registered
<1>13. ASSUME NEW h \in Hosts, StreamEvent(h) PROVE RequestsFit'
  BY <1>13, NoHostAssumption DEF StreamEvent, TypeOK, RequestsFit, Idle, registered
<1>14. ASSUME NEW h \in Hosts, StreamFails(h) PROVE RequestsFit'
  BY <1>14, NoHostAssumption DEF StreamFails, Pause, Loop, watching, TypeOK,
     RequestsFit, Idle, registered
<1>15. ASSUME NEW h \in Hosts, StreamCloses(h) PROVE RequestsFit'
  BY <1>15, NoHostAssumption DEF StreamCloses, Pause, Loop, watching, TypeOK,
     RequestsFit, Idle, registered
<1>16. ASSUME NEW h \in Hosts, Wake(h) PROVE RequestsFit'
  BY <1>16, NoHostAssumption DEF Wake, Loop, watching, TypeOK, RequestsFit, Idle,
     registered
<1>17. ASSUME Close PROVE RequestsFit'
  BY <1>17, NoHostAssumption DEF Close, TypeOK, RequestsFit, Idle, registered
<1>18. ASSUME EnginesFail PROVE RequestsFit'
  BY <1>18, NoHostAssumption DEF EnginesFail, TypeOK, RequestsFit, Idle, registered
<1>19. ASSUME EnginesRecover PROVE RequestsFit'
  BY <1>19, NoHostAssumption DEF EnginesRecover, TypeOK, RequestsFit, Idle, registered
<1>21. ASSUME NEW r \in Requests, StreamHangs(r) PROVE RequestsFit'
  BY <1>21, NoHostAssumption DEF StreamHangs, Finish, TypeOK, RequestsFit,
     Idle, registered
<1>20. CASE UNCHANGED vars
  BY <1>20 DEF vars, TypeOK, RequestsFit, Idle, registered
<1> QED
  BY <1>1, <1>2, <1>3, <1>4, <1>5, <1>6, <1>7, <1>8, <1>9, <1>10,
     <1>11, <1>12, <1>13, <1>14, <1>15, <1>16, <1>17, <1>18, <1>19, <1>20, <1>21
  DEF Next

-----------------------------------------------------------------------------
(* A watcher is lost to no step, and no stream survives its host. *)
LEMMA HostsAreWatchedStep ==
  TypeOK /\ RequestsFit /\ HostsAreWatched /\ [Next]_vars => HostsAreWatched'
<1> SUFFICES ASSUME TypeOK, RequestsFit, HostsAreWatched, [Next]_vars
             PROVE  HostsAreWatched'
  OBVIOUS
<1>1. ASSUME NEW r \in Requests, NEW h \in Hosts, AddWithTls(r, h)
      PROVE HostsAreWatched'
  BY <1>1, NoHostAssumption DEF AddWithTls, To, TypeOK, RequestsFit, HostsAreWatched,
     Idle, registered
<1>2. ASSUME NEW r \in Requests, NEW h \in Hosts, Add(r, h) PROVE HostsAreWatched'
  BY <1>2, NoHostAssumption DEF Add, To, TypeOK, RequestsFit, HostsAreWatched, Idle,
     registered
<1>3. ASSUME NEW r \in Requests, NEW h \in Hosts, Remove(r, h) PROVE HostsAreWatched'
  BY <1>3, NoHostAssumption DEF Remove, To, TypeOK, RequestsFit, HostsAreWatched, Idle,
     registered
<1>4. ASSUME NEW r \in Requests, NEW h \in Hosts, Test(r, h) PROVE HostsAreWatched'
  BY <1>4, NoHostAssumption DEF Test, To, TypeOK, RequestsFit, HostsAreWatched, Idle,
     registered
<1>5. ASSUME NEW r \in Requests, NEW h \in Hosts, List(r, h) PROVE HostsAreWatched'
  BY <1>5, NoHostAssumption DEF List, To, TypeOK, RequestsFit, HostsAreWatched, Idle,
     registered
<1>6. ASSUME NEW r \in Requests, NEW h \in Hosts, Inspect(r, h) PROVE HostsAreWatched'
  BY <1>6, NoHostAssumption DEF Inspect, To, TypeOK, RequestsFit, HostsAreWatched,
     Idle, registered
<1>7. ASSUME NEW r \in Requests, NEW h \in Hosts, Mutate(r, h) PROVE HostsAreWatched'
  BY <1>7, NoHostAssumption DEF Mutate, To, TypeOK, RequestsFit, HostsAreWatched, Idle,
     registered
<1>8. ASSUME NEW r \in Requests, NEW stored \in BOOLEAN, SecretPut(r, stored)
      PROVE HostsAreWatched'
  BY <1>8, NoHostAssumption DEF SecretPut, To, Finish, TypeOK, RequestsFit,
     HostsAreWatched, Idle, registered
<1>9. ASSUME NEW r \in Requests, NEW deleted \in BOOLEAN, SecretDeleted(r, deleted)
      PROVE HostsAreWatched'
  BY <1>9, NoHostAssumption DEF SecretDeleted, Finish, TypeOK, RequestsFit,
     HostsAreWatched, Idle, registered
<1>10. ASSUME NEW r \in Requests, NEW answer \in {"ok", "rejected", "failed"},
              EngineAnswers(r, answer)
       PROVE HostsAreWatched'
  BY <1>10, NoHostAssumption DEF EngineAnswers, Asking, TypeOK, RequestsFit,
     HostsAreWatched, Idle, registered
<1>11. ASSUME NEW r \in Requests, Answered(r) PROVE HostsAreWatched'
  <2> SUFFICES ASSUME NEW h \in Hosts
               PROVE  /\ registered(h)' /\ ~stopping' =>
                           \/ watcher'[h] \in {"opening", "streaming", "sleeping"}
                           \/ \E q \in Requests :
                                request'[q].op = "add" /\ request'[q].host = h
                      /\ watcher'[h] \in {"opening", "streaming"} /\ ~registered(h)'
                           => eventAbort'[h]
    BY DEF HostsAreWatched, registered
  <2>1. CASE request[r].op = "add" /\ request[r].host = h
    BY <1>11, <2>1 DEF Answered, Loop, watching, registered, TypeOK, HostsAreWatched
  <2>2. CASE ~(request[r].op = "add" /\ request[r].host = h)
    <3>1. watcher'[h] = watcher[h] /\ eventAbort'[h] = eventAbort[h]
      BY <1>11, <2>2 DEF Answered, Loop, TypeOK
    <3>2. \A q \in Requests : request[q].op = "add" /\ request[q].host = h
                               => request'[q].op = "add" /\ request'[q].host = h
      BY <1>11, <2>2 DEF Answered, Finish, TypeOK
    <3>3. registered(h)' = registered(h) /\ stopping' = stopping
      BY <1>11 DEF Answered, registered
    <3> QED
      BY <3>1, <3>2, <3>3 DEF HostsAreWatched
  <2> QED
    BY <2>1, <2>2
<1>12. ASSUME NEW h \in Hosts, StreamOpens(h) PROVE HostsAreWatched'
  BY <1>12, NoHostAssumption DEF StreamOpens, TypeOK, RequestsFit, HostsAreWatched,
     Idle, registered
<1>13. ASSUME NEW h \in Hosts, StreamEvent(h) PROVE HostsAreWatched'
  BY <1>13, NoHostAssumption DEF StreamEvent, TypeOK, RequestsFit, HostsAreWatched,
     Idle, registered
<1>14. ASSUME NEW h \in Hosts, StreamFails(h) PROVE HostsAreWatched'
  BY <1>14, NoHostAssumption DEF StreamFails, Pause, Loop, watching, TypeOK,
     RequestsFit, HostsAreWatched, Idle, registered
<1>15. ASSUME NEW h \in Hosts, StreamCloses(h) PROVE HostsAreWatched'
  BY <1>15, NoHostAssumption DEF StreamCloses, Pause, Loop, watching, TypeOK,
     RequestsFit, HostsAreWatched, Idle, registered
<1>16. ASSUME NEW h \in Hosts, Wake(h) PROVE HostsAreWatched'
  BY <1>16, NoHostAssumption DEF Wake, Loop, watching, TypeOK, RequestsFit,
     HostsAreWatched, Idle, registered
<1>17. ASSUME Close PROVE HostsAreWatched'
  BY <1>17, NoHostAssumption DEF Close, TypeOK, RequestsFit, HostsAreWatched, Idle,
     registered
<1>18. ASSUME EnginesFail PROVE HostsAreWatched'
  BY <1>18, NoHostAssumption DEF EnginesFail, TypeOK, RequestsFit, HostsAreWatched,
     Idle, registered
<1>19. ASSUME EnginesRecover PROVE HostsAreWatched'
  BY <1>19, NoHostAssumption DEF EnginesRecover, TypeOK, RequestsFit, HostsAreWatched,
     Idle, registered
<1>21. ASSUME NEW r \in Requests, StreamHangs(r) PROVE HostsAreWatched'
  BY <1>21, NoHostAssumption DEF StreamHangs, Finish, TypeOK, RequestsFit, HostsAreWatched,
     Idle, registered
<1>20. CASE UNCHANGED vars
  BY <1>20 DEF vars, TypeOK, RequestsFit, HostsAreWatched, Idle, registered
<1> QED
  BY <1>1, <1>2, <1>3, <1>4, <1>5, <1>6, <1>7, <1>8, <1>9, <1>10,
     <1>11, <1>12, <1>13, <1>14, <1>15, <1>16, <1>17, <1>18, <1>19, <1>20, <1>21
  DEF Next

-----------------------------------------------------------------------------
(* No step leaves certificates behind that nobody is about to delete. *)
LEMMA SecretsHaveHostsStep ==
  TypeOK /\ RequestsFit /\ SecretsHaveHosts /\ [Next]_vars => SecretsHaveHosts'
<1> SUFFICES ASSUME TypeOK, RequestsFit, SecretsHaveHosts, [Next]_vars
             PROVE  SecretsHaveHosts'
  OBVIOUS
<1>1. ASSUME NEW r \in Requests, NEW h \in Hosts, AddWithTls(r, h)
      PROVE SecretsHaveHosts'
  BY <1>1, NoHostAssumption DEF AddWithTls, To, TypeOK, RequestsFit, SecretsHaveHosts,
     Idle, registered
<1>2. ASSUME NEW r \in Requests, NEW h \in Hosts, Add(r, h) PROVE SecretsHaveHosts'
  BY <1>2, NoHostAssumption DEF Add, To, TypeOK, RequestsFit, SecretsHaveHosts, Idle,
     registered
<1>3. ASSUME NEW r \in Requests, NEW h \in Hosts, Remove(r, h) PROVE SecretsHaveHosts'
  BY <1>3, NoHostAssumption DEF Remove, To, TypeOK, RequestsFit, SecretsHaveHosts,
     Idle, registered
<1>4. ASSUME NEW r \in Requests, NEW h \in Hosts, Test(r, h) PROVE SecretsHaveHosts'
  BY <1>4, NoHostAssumption DEF Test, To, TypeOK, RequestsFit, SecretsHaveHosts, Idle,
     registered
<1>5. ASSUME NEW r \in Requests, NEW h \in Hosts, List(r, h) PROVE SecretsHaveHosts'
  BY <1>5, NoHostAssumption DEF List, To, TypeOK, RequestsFit, SecretsHaveHosts, Idle,
     registered
<1>6. ASSUME NEW r \in Requests, NEW h \in Hosts, Inspect(r, h) PROVE SecretsHaveHosts'
  BY <1>6, NoHostAssumption DEF Inspect, To, TypeOK, RequestsFit, SecretsHaveHosts,
     Idle, registered
<1>7. ASSUME NEW r \in Requests, NEW h \in Hosts, Mutate(r, h) PROVE SecretsHaveHosts'
  BY <1>7, NoHostAssumption DEF Mutate, To, TypeOK, RequestsFit, SecretsHaveHosts,
     Idle, registered
<1>8. ASSUME NEW r \in Requests, NEW stored \in BOOLEAN, SecretPut(r, stored)
      PROVE SecretsHaveHosts'
  BY <1>8, NoHostAssumption DEF SecretPut, To, Finish, TypeOK, RequestsFit,
     SecretsHaveHosts, Idle, registered
<1>9. ASSUME NEW r \in Requests, NEW deleted \in BOOLEAN, SecretDeleted(r, deleted)
      PROVE SecretsHaveHosts'
  BY <1>9, NoHostAssumption DEF SecretDeleted, Finish, TypeOK, RequestsFit,
     SecretsHaveHosts, Idle, registered
<1>10. ASSUME NEW r \in Requests, NEW answer \in {"ok", "rejected", "failed"},
              EngineAnswers(r, answer)
       PROVE SecretsHaveHosts'
  BY <1>10, NoHostAssumption DEF EngineAnswers, Asking, TypeOK, RequestsFit,
     SecretsHaveHosts, Idle, registered
<1>11. ASSUME NEW r \in Requests, Answered(r) PROVE SecretsHaveHosts'
  BY <1>11, NoHostAssumption DEF Answered, Asking, Finish, Loop, Marked, watching,
     TypeOK, RequestsFit, SecretsHaveHosts, Idle, registered
<1>12. ASSUME NEW h \in Hosts, StreamOpens(h) PROVE SecretsHaveHosts'
  BY <1>12, NoHostAssumption DEF StreamOpens, TypeOK, RequestsFit, SecretsHaveHosts,
     Idle, registered
<1>13. ASSUME NEW h \in Hosts, StreamEvent(h) PROVE SecretsHaveHosts'
  BY <1>13, NoHostAssumption DEF StreamEvent, TypeOK, RequestsFit, SecretsHaveHosts,
     Idle, registered
<1>14. ASSUME NEW h \in Hosts, StreamFails(h) PROVE SecretsHaveHosts'
  BY <1>14, NoHostAssumption DEF StreamFails, Pause, Loop, watching, TypeOK,
     RequestsFit, SecretsHaveHosts, Idle, registered
<1>15. ASSUME NEW h \in Hosts, StreamCloses(h) PROVE SecretsHaveHosts'
  BY <1>15, NoHostAssumption DEF StreamCloses, Pause, Loop, watching, TypeOK,
     RequestsFit, SecretsHaveHosts, Idle, registered
<1>16. ASSUME NEW h \in Hosts, Wake(h) PROVE SecretsHaveHosts'
  BY <1>16, NoHostAssumption DEF Wake, Loop, watching, TypeOK, RequestsFit,
     SecretsHaveHosts, Idle, registered
<1>17. ASSUME Close PROVE SecretsHaveHosts'
  BY <1>17, NoHostAssumption DEF Close, TypeOK, RequestsFit, SecretsHaveHosts, Idle,
     registered
<1>18. ASSUME EnginesFail PROVE SecretsHaveHosts'
  BY <1>18, NoHostAssumption DEF EnginesFail, TypeOK, RequestsFit, SecretsHaveHosts,
     Idle, registered
<1>19. ASSUME EnginesRecover PROVE SecretsHaveHosts'
  BY <1>19, NoHostAssumption DEF EnginesRecover, TypeOK, RequestsFit, SecretsHaveHosts,
     Idle, registered
<1>21. ASSUME NEW r \in Requests, StreamHangs(r) PROVE SecretsHaveHosts'
  BY <1>21, NoHostAssumption DEF StreamHangs, Finish, TypeOK, RequestsFit, SecretsHaveHosts,
     Idle, registered
<1>20. CASE UNCHANGED vars
  BY <1>20 DEF vars, TypeOK, RequestsFit, SecretsHaveHosts, Idle, registered
<1> QED
  BY <1>1, <1>2, <1>3, <1>4, <1>5, <1>6, <1>7, <1>8, <1>9, <1>10,
     <1>11, <1>12, <1>13, <1>14, <1>15, <1>16, <1>17, <1>18, <1>19, <1>20, <1>21
  DEF Next

-----------------------------------------------------------------------------
(* The invariant holds initially and is preserved. *)
LEMMA IInvInit == Init => IInv
<1> SUFFICES ASSUME Init PROVE IInv
  OBVIOUS
<1>1. TypeOK
  <2>1. request \in [Requests -> [pc : {"idle", "putting", "probing", "requesting",
                                        "deleting"},
                                  op : {"none", "add", "remove", "test", "list", "inspect",
                                        "mutate"},
                                  host : Hosts \cup {NoHost},
                                  answer : {"none", "ok", "rejected", "failed"}]]
    BY DEF Init, Idle
  <2>2. 0 \in 0 .. MaxEvents /\ 0 \in 0 .. MaxOutages
    BY BoundsAssumption
  <2> QED
    BY <2>1, <2>2 DEF Init, TypeOK
<1>2. RequestsFit
  BY DEF Init, RequestsFit, Idle
<1>3. HostsAreWatched
  BY DEF Init, HostsAreWatched, registered
<1>4. SecretsHaveHosts
  BY DEF Init, SecretsHaveHosts
<1> QED
  BY <1>1, <1>2, <1>3, <1>4 DEF IInv

LEMMA IInvStep == IInv /\ [Next]_vars => IInv'
BY TypeOKStep, RequestsFitStep, HostsAreWatchedStep, SecretsHaveHostsStep DEF IInv

LEMMA IInvInvariant == Spec => []IInv
BY IInvInit, IInvStep, PTL DEF Spec

(* The registry's variables always have their types. *)
THEOREM TypeCorrect == Spec => []TypeOK
BY IInvInvariant, PTL DEF IInv

(* Certificates are kept for registered hosts only, except while a removal  *)
(* deletes them or after the secret store refused to (add, remove).         *)
THEOREM CertificatesGoWithHosts == Spec => []SecretsHaveHosts
BY IInvInvariant, PTL DEF IInv

(* Every host add() has returned is watched until it is removed or the      *)
(* gateway stops, and the stream of a removed host is aborted.              *)
THEOREM WatchersFollowHosts == Spec => []HostsAreWatched
BY IInvInvariant, PTL DEF IInv

(* Only a registered host's events are published (watchEvents, remove).     *)
THEOREM RemovedHostsAreQuiet == Spec => RemovedHostIsQuiet
<1>1. ASSUME TypeOK, HostsAreWatched, [Next]_vars
      PROVE  [\A h \in Hosts : events'[h] # events[h] => registered(h)]_vars
  <2>1. ASSUME NEW g \in Hosts, StreamEvent(g), NEW h \in Hosts, events'[h] # events[h]
        PROVE  registered(h)
    BY <1>1, <2>1 DEF StreamEvent, HostsAreWatched, TypeOK
  <2>2. (\E g \in Hosts : StreamEvent(g)) \/ events' = events
    BY <1>1 DEF Next, vars, AddWithTls, Add, Remove, Test, List, Inspect, Mutate,
       SecretPut, SecretDeleted, EngineAnswers, StreamHangs, Answered, StreamOpens, StreamFails,
       StreamCloses, Wake, Close, EnginesFail, EnginesRecover
  <2> QED
    BY <2>1, <2>2
<1> QED
  BY <1>1, IInvInvariant, PTL DEF IInv, Spec, RemovedHostIsQuiet
=============================================================================
