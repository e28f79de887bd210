------------------------ MODULE DesktopSessionProofs ------------------------
(***************************************************************************)
(* The safety properties of DesktopSession for any number of jobs,         *)
(* gateways, logins and launches: a login's code is exchanged once, what   *)
(* was cleared stays cleared, and a session nobody ended survives.         *)
(***************************************************************************)
EXTENDS DesktopSession, TLAPS

(* Every code that was exchanged is that of a login of the same era.         *)
Told ==
  \A m \in 1 .. Len(exchanged) :
    /\ exchanged[m][1] \in 1 .. Len(logins)
    /\ logins[exchanged[m][1]].era = exchanged[m][2]

Once ==
  \A m, n \in 1 .. Len(exchanged) : exchanged[m][1] = exchanged[n][1] => m = n

(* The login in progress began after the last clear, and its code was not    *)
(* yet exchanged.                                                            *)
Pending ==
  pendingLogin # 0 =>
    /\ logins[pendingLogin].era = era
    /\ \A m \in 1 .. Len(exchanged) : exchanged[m][1] # pendingLogin

IInv == TypeOK /\ Told /\ Once /\ Pending

-----------------------------------------------------------------------------
LEMMA TypeOKInit == ASSUME Init PROVE TypeOK
<1>1. Fresh("restore", "reading") \in Calls /\ Fresh("none", "idle") \in Calls
  BY DEF Fresh, Calls
<1>2. stored \in Sessions \cup {None}
  BY BoundsAssumption DEF Init, Sessions
<1>3. job \in [AllJobs -> Calls] /\ \A j \in AllJobs : job[j].at \notin MidExchange
  BY <1>1 DEF Init, Fresh, MidExchange
<1>4. /\ gateway \in Gateways /\ expired \in BOOLEAN /\ era = 0 /\ accessToken = None
      /\ logins = << >> /\ exchanged = << >> /\ pendingLogin = 0
  BY DEF Init
<1> QED
  BY <1>2, <1>3, <1>4, BoundsAssumption DEF TypeOK

(* A job moves on to a place where it holds no token it needs.               *)
LEMMA JobMoves ==
  ASSUME TypeOK, NEW j \in AllJobs, NEW c \in Calls, job' = [job EXCEPT ![j] = c],
         c.at \in MidExchange => c.token \in Sessions
  PROVE  /\ job' \in [AllJobs -> Calls]
         /\ \A k \in AllJobs : job'[k].at \in MidExchange => job'[k].token \in Sessions
BY DEF TypeOK

LEMMA Places ==
  ASSUME TypeOK, NEW j \in AllJobs,
         NEW at \in {"done", "rejected", "refreshed", "reading"}
  PROVE  At(j, at) \in Calls /\ At(j, at).at \notin MidExchange
BY DEF TypeOK, At, Over, Fresh, Calls, MidExchange

LEMMA GrantedTyped == ASSUME NEW t \in Sessions PROVE Granted(t) \in Sessions
BY DEF Sessions, Granted

(* The jobs stay typed. *)
JobsTyped ==
  /\ job' \in [AllJobs -> Calls]
  /\ \A k \in AllJobs : job'[k].at \in MidExchange => job'[k].token \in Sessions

LEMMA GotoTyped ==
  ASSUME TypeOK, NEW j \in AllJobs,
         NEW at \in {"done", "rejected", "refreshed", "reading"}, Goto(j, at)
  PROVE  JobsTyped
BY JobMoves, Places DEF Goto, JobsTyped

-----------------------------------------------------------------------------
(* The steps that leave logins, exchanges and clears alone. *)
Apart == UNCHANGED <<pendingLogin, logins, era, exchanged>>

LEMMA ApartKeeps ==
  ASSUME IInv, Apart PROVE (Told /\ Once /\ Pending)'
BY DEF IInv, Apart, Told, Once, Pending

LEMMA ApartTyped ==
  ASSUME TypeOK, Apart, JobsTyped, gateway' \in Gateways, expired' \in BOOLEAN,
         accessToken' \in Sessions \cup {None}, stored' \in Sessions \cup {None, Torn}
  PROVE  TypeOK'
BY DEF TypeOK, Apart, JobsTyped

LEMMA RequestSteps ==
  ASSUME TypeOK, NEW j \in AllJobs,
         Send(j) \/ Answered(j) \/ Unauthorized(j) \/ Resend(j)
  PROVE  TypeOK' /\ Apart
<1>1. CASE Send(j)
  <2> DEFINE c == [Fresh("request", "sent") EXCEPT !.ok = Accepted]
  <2>1. c \in Calls /\ c.at \notin MidExchange
    BY DEF Fresh, Calls, Accepted, MidExchange
  <2>2. job' = [job EXCEPT ![j] = c]
    BY <1>1 DEF Send, Begins
  <2>3. JobsTyped
    BY <2>1, <2>2, JobMoves DEF JobsTyped
  <2> QED
    BY <1>1, <2>3 DEF Send, main, world, TypeOK, JobsTyped, Apart
<1>2. CASE Answered(j) \/ Unauthorized(j)
  <2>1. JobsTyped
    BY <1>2, GotoTyped DEF Answered, Unauthorized, AfterUnauthorized
  <2> QED
    BY <1>2, <2>1 DEF Answered, Unauthorized, main, world, history, TypeOK, JobsTyped, Apart
<1>3. CASE Resend(j)
  <2> DEFINE c == [job[j] EXCEPT !.at = "resent", !.ok = Accepted]
  <2>1. job' = [job EXCEPT ![j] = c]
    BY <1>3 DEF Resend, TypeOK
  <2>2. c \in Calls /\ c.at \notin MidExchange
    BY DEF TypeOK, Calls, Accepted, MidExchange
  <2>3. JobsTyped
    BY <2>1, <2>2, JobMoves DEF JobsTyped
  <2> QED
    BY <1>3, <2>3 DEF Resend, main, world, history, TypeOK, JobsTyped, Apart
<1> QED
  BY <1>1, <1>2, <1>3

LEMMA ForgottenTyped ==
  ASSUME TypeOK, NEW j \in AllJobs, Forgotten(j) PROVE TypeOK' /\ Apart
<1>1. JobsTyped
  BY GotoTyped DEF Forgotten, RefreshResult
<1> QED
  BY <1>1 DEF Forgotten, history, TypeOK, JobsTyped, Apart

LEMMA ExchangeSteps ==
  ASSUME TypeOK, NEW j \in AllJobs,
         \/ ReadStored(j) \/ Exchanged(j) \/ ExchangeFailed(j)
         \/ SaveBegins(j) \/ Saved(j) \/ SaveFailed(j)
  PROVE  TypeOK' /\ Apart
<1>1. CASE ReadStored(j)
  <2>1. CASE stored \in {None, Torn}
    <3>1. JobsTyped
      BY <1>1, <2>1, GotoTyped DEF ReadStored, RefreshResult
    <3> QED
      BY <1>1, <3>1 DEF ReadStored, main, world, TypeOK, JobsTyped, Apart
  <2>2. CASE stored \notin {None, Torn}
    <3> DEFINE c == [job[j] EXCEPT !.at = "exchanging", !.token = stored,
                                   !.ok = stored.gw = gateway]
    <3>1. job' = [job EXCEPT ![j] = c]
      BY <1>1, <2>2 DEF ReadStored, TypeOK
    <3>2. c \in Calls /\ c.token \in Sessions
      BY <2>2 DEF TypeOK, Calls, MidExchange
    <3>3. JobsTyped
      BY <3>1, <3>2, JobMoves DEF JobsTyped
    <3> QED
      BY <1>1, <3>3 DEF ReadStored, main, world, TypeOK, JobsTyped, Apart
  <2> QED
    BY <2>1, <2>2
<1>2. CASE Exchanged(j)
  <2> DEFINE g == Granted(job[j].token)
             c == [job[j] EXCEPT !.at = "saving", !.token = g]
  <2>1. g \in Sessions
    BY <1>2, GrantedTyped DEF Exchanged, TypeOK, MidExchange
  <2>2. job' = [job EXCEPT ![j] = c] /\ accessToken' = g
    BY <1>2 DEF Exchanged, ToStore, TypeOK
  <2> HIDE DEF g
  <2>3. c \in Calls /\ c.token \in Sessions
    BY <2>1 DEF TypeOK, Calls, MidExchange
  <2>4. JobsTyped
    BY <2>2, <2>3, JobMoves DEF JobsTyped
  <2> QED
    BY <1>2, <2>1, <2>2, <2>4 DEF Exchanged, history, TypeOK, JobsTyped, Apart
<1>3. CASE ExchangeFailed(j) \/ SaveFailed(j)
  BY <1>3, ForgottenTyped DEF ExchangeFailed, SaveFailed
<1>4. CASE SaveBegins(j)
  <2> DEFINE c == [job[j] EXCEPT !.at = "writing"]
  <2>1. job' = [job EXCEPT ![j] = c]
    BY <1>4 DEF SaveBegins, TypeOK
  <2>2. c \in Calls /\ c.token \in Sessions
    BY <1>4 DEF SaveBegins, TypeOK, Calls, MidExchange
  <2>3. JobsTyped
    BY <2>1, <2>2, JobMoves DEF JobsTyped
  <2> QED
    BY <1>4, <2>3 DEF SaveBegins, world, history, TypeOK, JobsTyped, Apart
<1>5. CASE Saved(j)
  <2>1. JobsTyped
    BY <1>5, GotoTyped DEF Saved, RefreshResult
  <2>2. job[j].token \in Sessions
    BY <1>5 DEF Saved, TypeOK, MidExchange
  <2> QED
    BY <1>5, <2>1, <2>2 DEF Saved, world, history, TypeOK, JobsTyped, Apart
<1> QED
  BY <1>1, <1>2, <1>3, <1>4, <1>5

LEMMA ClearedStep ==
  ASSUME TypeOK, NEW j \in AllJobs, Cleared(j) PROVE TypeOK' /\ Apart
<1>1. Over \in Calls /\ Over.at \notin MidExchange
  BY DEF Over, Fresh, Calls, MidExchange
<1>2. ASSUME NEW k \in AllJobs
      PROVE  job'[k] \in Calls /\ (job'[k].at \in MidExchange => job'[k].token \in Sessions)
  <2>1. job'[k] \in {Over, job[k], [job[k] EXCEPT !.kind = "reloaded"]}
    BY DEF Cleared
  <2> QED
    BY <1>1, <2>1 DEF TypeOK, Calls
<1>3. JobsTyped
  BY <1>2 DEF Cleared, JobsTyped
<1> QED
  BY <1>3 DEF Cleared, Unlink, world, history, TypeOK, JobsTyped, Apart

LEMMA ConfigureStep ==
  ASSUME TypeOK, NEW j \in AllJobs, NEW g \in Gateways, Configure(j, g)
  PROVE  TypeOK' /\ Apart
<1>1. Fresh("configure", "persisting") \in Calls
      /\ Fresh("configure", "persisting").at \notin MidExchange
  BY DEF Fresh, Calls, MidExchange
<1>2. JobsTyped
  BY <1>1, JobMoves DEF Configure, JobsTyped
<1> QED
  BY <1>2 DEF Configure, world, TypeOK, JobsTyped, Apart

-----------------------------------------------------------------------------
(* The steps that clear the session, log in or exchange a code. *)
LEMMA ClearStep ==
  ASSUME IInv, NEW j \in AllJobs, Logout(j) \/ Rejected(j) \/ Persisted(j) PROVE IInv'
<1>1. TypeOK
  BY DEF IInv
<1>2. PICK kind \in {"none", "restore", "callback", "request", "reloaded", "logout",
                     "configure"} : Clear(j, kind)
  BY <1>1 DEF Logout, Rejected, Persisted, TypeOK, Calls
<1> DEFINE c == [Fresh(kind, "clearing") EXCEPT !.ok = Held]
<1>3. c \in Calls /\ c.at \notin MidExchange
  BY DEF Fresh, Calls, Held, MidExchange
<1>4. JobsTyped
  BY <1>1, <1>2, <1>3, JobMoves DEF Clear, JobsTyped
<1>5. /\ accessToken' = None /\ pendingLogin' = 0 /\ era' = era + 1
      /\ UNCHANGED <<gateway, expired, stored, logins, exchanged>>
  BY <1>2 DEF Clear, Forget, world
<1>6. TypeOK'
  BY <1>1, <1>4, <1>5 DEF TypeOK, JobsTyped
<1>7. (Told /\ Once /\ Pending)'
  BY <1>5 DEF IInv, Told, Once, Pending
<1> QED
  BY <1>6, <1>7 DEF IInv

LEMMA RelaunchStep ==
  ASSUME IInv, Relaunch PROVE IInv'
<1>1. /\ Fresh("restore", "reading") \in Calls /\ Over \in Calls
      /\ Fresh("restore", "reading").at \notin MidExchange /\ Over.at \notin MidExchange
  BY DEF Over, Fresh, Calls, MidExchange
<1>2. ASSUME NEW k \in AllJobs
      PROVE  job'[k] \in Calls /\ (job'[k].at \in MidExchange => job'[k].token \in Sessions)
  <2>1. job'[k] \in {Over, job[k], Fresh("restore", "reading")}
    BY DEF Relaunch
  <2> QED
    BY <1>1, <2>1 DEF IInv, TypeOK
<1>3. JobsTyped
  BY <1>2 DEF Relaunch, JobsTyped
<1>4. /\ pendingLogin' = 0 /\ UNCHANGED <<gateway, logins, era, exchanged>>
      /\ accessToken' = None /\ expired' = FALSE /\ stored' \in {stored, None}
  BY DEF Relaunch, world
<1>5. TypeOK'
  <2>1. TypeOK /\ 0 \in 0 .. Len(logins) /\ Len(logins) <= MaxLogins
    BY DEF IInv, TypeOK
  <2>2. /\ pendingLogin' \in 0 .. Len(logins)' /\ stored' \in Sessions \cup {None, Torn}
        /\ accessToken' \in Sessions \cup {None} /\ expired' \in BOOLEAN
    <3>1. stored \in Sessions \cup {None, Torn}
      BY <2>1 DEF TypeOK
    <3> QED
      BY <1>4, <2>1, <3>1
  <2> QED
    BY <1>3, <1>4, <2>1, <2>2 DEF TypeOK, JobsTyped
<1>6. (Told /\ Once /\ Pending)'
  BY <1>4 DEF IInv, Told, Once, Pending
<1> QED
  BY <1>5, <1>6 DEF IInv

LEMMA StartLoginStep ==
  ASSUME IInv, StartLogin PROVE IInv'
<1> DEFINE n == Len(logins)
           login == [gw |-> gateway, era |-> era]
<1>1. /\ TypeOK /\ n \in Nat /\ n < MaxLogins
  BY DEF IInv, TypeOK, StartLogin
<1>2. login \in [gw : Gateways, era : Nat]
  BY <1>1 DEF TypeOK
<1>3. /\ logins' = Append(logins, login)
      /\ UNCHANGED <<gateway, accessToken, expired, stored, job, era, exchanged>>
  BY DEF StartLogin, history
<1>4. /\ Len(logins') = n + 1 /\ logins' \in Seq([gw : Gateways, era : Nat])
      /\ logins'[n + 1] = login /\ \A i \in 1 .. n : logins'[i] = logins[i]
  BY <1>1, <1>2, <1>3 DEF TypeOK
<1>5. pendingLogin' = n + 1
  BY <1>4 DEF StartLogin
<1>6. TypeOK'
  BY <1>1, <1>3, <1>4, <1>5, BoundsAssumption DEF TypeOK
<1>7. Told'
  BY <1>1, <1>3, <1>4 DEF IInv, Told
<1>8. Once'
  BY <1>3 DEF IInv, Once
<1>9. Pending'
  BY <1>1, <1>3, <1>4, <1>5 DEF IInv, Told, Pending
<1> QED
  BY <1>6, <1>7, <1>8, <1>9 DEF IInv

LEMMA CallbackStep ==
  ASSUME IInv, NEW j \in AllJobs, NEW l \in 1 .. MaxLogins, NEW hasCode \in BOOLEAN,
         Callback(j, l, hasCode)
  PROVE  IInv'
<1>1. TypeOK /\ l \in 1 .. Len(logins)
  BY DEF IInv, Callback
<1>2. /\ pendingLogin' = 0
      /\ UNCHANGED <<gateway, accessToken, expired, stored, logins, era>>
  BY DEF Callback, TakePending, world
<1>3. CASE ~(pendingLogin = l /\ hasCode)
  <2>1. exchanged' = exchanged /\ job' = [job EXCEPT ![j] = Over]
    BY <1>3 DEF Callback, Begins
  <2>2. Over \in Calls /\ Over.at \notin MidExchange
    BY DEF Over, Fresh, Calls, MidExchange
  <2>3. JobsTyped
    BY <1>1, <2>1, <2>2, JobMoves DEF JobsTyped
  <2>4. TypeOK'
    BY <1>1, <1>2, <2>1, <2>3 DEF TypeOK, JobsTyped
  <2> QED
    BY <1>2, <2>1, <2>4 DEF IInv, Told, Once, Pending
<1>4. CASE pendingLogin = l /\ hasCode
  <2> DEFINE t == [gw |-> logins[l].gw, login |-> l, era |-> logins[l].era, serial |-> 0]
             c == [kind |-> "callback", at |-> "exchanging", token |-> t,
                   ok |-> logins[l].gw = gateway]
             n == Len(exchanged)
  <2>1. t \in Sessions
    <3>1. l \in 0 .. MaxLogins /\ 0 \in Nat
      BY BoundsAssumption
    <3>2. logins[l].gw \in Gateways /\ logins[l].era \in Nat
      <4> DEFINE S == [gw : Gateways, era : Nat]
      <4>1. logins \in Seq(S)
        BY <1>1 DEF TypeOK
      <4> HIDE DEF S
      <4>2. logins[l] \in S
        BY <1>1, <4>1
      <4> QED
        BY <4>2 DEF S
    <3> QED
      BY <3>1, <3>2 DEF Sessions
  <2>2. exchanged' = Append(exchanged, <<l, era>>) /\ job' = [job EXCEPT ![j] = c]
    BY <1>4 DEF Callback, Begins
  <2> HIDE DEF t
  <2>3. c \in Calls /\ c.token \in Sessions
    BY <2>1 DEF Calls, MidExchange
  <2>4. JobsTyped
    BY <1>1, <2>2, <2>3, JobMoves DEF JobsTyped
  <2>5. <<l, era>> \in (1 .. MaxLogins) \X Nat /\ n \in Nat
    BY <1>1 DEF TypeOK
  <2>6. /\ exchanged' \in Seq((1 .. MaxLogins) \X Nat) /\ Len(exchanged') = n + 1
        /\ exchanged'[n + 1] = <<l, era>> /\ \A i \in 1 .. n : exchanged'[i] = exchanged[i]
    BY <1>1, <2>2, <2>5 DEF TypeOK
  <2>7. TypeOK'
    BY <1>1, <1>2, <2>4, <2>6 DEF TypeOK, JobsTyped
  <2>8. logins[l].era = era /\ \A m \in 1 .. n : exchanged[m][1] # l
    BY <1>1, <1>4 DEF IInv, Pending
  <2> HIDE DEF n
  <2>9. Told'
    <3>1. ASSUME NEW m \in 1 .. n + 1
          PROVE  /\ exchanged'[m][1] \in 1 .. Len(logins)
                 /\ logins[exchanged'[m][1]].era = exchanged'[m][2]
      <4>1. CASE m = n + 1
        BY <1>1, <2>6, <2>8, <4>1
      <4>2. CASE m \in 1 .. n
        BY <2>6, <4>2 DEF IInv, Told, n
      <4> QED
        BY <2>5, <4>1, <4>2
    <3> QED
      BY <1>2, <2>6, <3>1 DEF Told
  <2>10. Once'
    <3>1. \A m \in 1 .. n : exchanged'[m][1] # l
      BY <2>6, <2>8
    <3>2. \A m, k \in 1 .. n : exchanged'[m][1] = exchanged'[k][1] => m = k
      BY <2>6 DEF IInv, Once, n
    <3>3. exchanged'[n + 1][1] = l
      BY <2>6
    <3>4. \A m \in 1 .. n + 1 : m \in 1 .. n \/ m = n + 1
      BY <2>5
    <3> QED
      BY <2>6, <3>1, <3>2, <3>3, <3>4 DEF Once
  <2> QED
    BY <1>2, <2>7, <2>9, <2>10 DEF IInv, Pending
<1> QED
  BY <1>3, <1>4

-----------------------------------------------------------------------------
LEMMA IInvStep == ASSUME IInv, Next PROVE IInv'
<1>1. TypeOK
  BY DEF IInv
<1>2. CASE StartLogin \/ Relaunch
  BY <1>2, StartLoginStep, RelaunchStep
<1>3. CASE Expire
  <2>1. TypeOK' /\ Apart
    BY <1>1, <1>3 DEF Expire, TypeOK, world, history, Apart
  <2> QED
    BY <2>1, ApartKeeps DEF IInv
<1>4. ASSUME NEW j \in Jobs,
             \/ Send(j) \/ Logout(j)
             \/ \E g \in Gateways : Configure(j, g)
             \/ \E l \in 1 .. MaxLogins, hasCode \in BOOLEAN : Callback(j, l, hasCode)
      PROVE  IInv'
  <2>1. j \in AllJobs
    BY DEF AllJobs
  <2> QED
    BY <1>1, <1>4, <2>1, RequestSteps, ClearStep, ConfigureStep, CallbackStep, ApartKeeps
       DEF IInv
<1>5. ASSUME NEW j \in AllJobs, Step(j) PROVE IInv'
  BY <1>1, <1>5, RequestSteps, ExchangeSteps, ClearedStep, ClearStep, ApartKeeps
     DEF IInv, Step
<1> QED
  BY <1>2, <1>3, <1>4, <1>5 DEF Next

LEMMA IInvStutter == ASSUME IInv, UNCHANGED vars PROVE IInv'
BY DEF IInv, TypeOK, Told, Once, Pending, vars, main, world, history

LEMMA IInvInit == ASSUME Init PROVE IInv
<1>1. exchanged = << >> /\ pendingLogin = 0
  BY DEF Init
<1> QED
  BY <1>1, TypeOKInit DEF IInv, Told, Once, Pending

LEMMA IInvInvariant == Spec => []IInv
<1>1. IInv /\ [Next]_vars => IInv'
  BY IInvStep, IInvStutter
<1> QED
  BY <1>1, IInvInit, PTL DEF Spec

-----------------------------------------------------------------------------
(* What a clear leaves behind.                                               *)

Clearing(j) == job[j].at = "clearing"

(* While no clear met an exchange: all there is of a session belongs to the  *)
(* present era, but what a clear under way is about to unlink.               *)
OneEra ==
  ~straddled =>
    /\ accessToken # None => accessToken.era = era
    /\ \A j \in AllJobs : job[j].at \in MidExchange => job[j].token.era = era
    /\ stored \notin {None, Torn} /\ stored.era # era => \E j \in AllJobs : Clearing(j) /\ job[j].ok
    /\ \A j, k \in AllJobs : Clearing(j) /\ Clearing(k) => j = k

(* A job moves on, and neither begins nor ends a clear.                      *)
LEMMA EraKept ==
  ASSUME TypeOK, OneEra, NEW j \in AllJobs, NEW c, job' = [job EXCEPT ![j] = c],
         ~Clearing(j), c.at # "clearing", era' = era, straddled => straddled',
         ~straddled' /\ c.at \in MidExchange => c.token.era = era,
         accessToken' \notin {None, accessToken} => straddled' \/ accessToken'.era = era,
         stored' \notin {None, Torn, stored} => straddled' \/ stored'.era = era
  PROVE  OneEra'
<1>1. job'[j] = c /\ \A k \in AllJobs : k # j => job'[k] = job[k]
  BY DEF TypeOK
<1> QED
  BY <1>1 DEF OneEra, Clearing

(* The job of a request or of a configure, without a token it needs.         *)
LEMMA PlainMoves ==
  ASSUME TypeOK, NEW j \in AllJobs,
         \/ Send(j) \/ Answered(j) \/ Unauthorized(j) \/ Resend(j)
         \/ \E g \in Gateways : Configure(j, g)
  PROVE  /\ ~Clearing(j)
         /\ \E c : /\ job' = [job EXCEPT ![j] = c]
                  /\ c.at \notin MidExchange \cup {"clearing"}
<1> USE DEF Clearing, MidExchange
<1>1. CASE Send(j)
  <2> DEFINE c == [Fresh("request", "sent") EXCEPT !.ok = Accepted]
  <2>1. job' = [job EXCEPT ![j] = c] /\ c.at = "sent" /\ job[j].at = "idle"
    BY <1>1 DEF Send, Begins, Fresh
  <2> HIDE DEF c
  <2> QED
    BY <2>1
<1>2. ASSUME NEW at \in {"done", "reading", "rejected"}, Goto(j, at),
             job[j].at \in {"sent", "resent"}
      PROVE  /\ ~Clearing(j)
             /\ \E c : /\ job' = [job EXCEPT ![j] = c]
                      /\ c.at \notin MidExchange \cup {"clearing"}
  <2> DEFINE c == At(j, at)
  <2>1. job' = [job EXCEPT ![j] = c] /\ c.at = at
    BY <1>2 DEF Goto, At, Over, Fresh
  <2> HIDE DEF c
  <2> QED
    BY <1>2, <2>1
<1>3. CASE Answered(j) \/ Unauthorized(j)
  BY <1>2, <1>3 DEF Answered, Unauthorized, AfterUnauthorized
<1>4. CASE Resend(j)
  <2> DEFINE c == [job[j] EXCEPT !.at = "resent", !.ok = Accepted]
  <2>1. job' = [job EXCEPT ![j] = c] /\ c.at = "resent" /\ job[j].at = "refreshed"
    BY <1>4 DEF Resend, TypeOK, Calls
  <2> HIDE DEF c
  <2> QED
    BY <2>1
<1>5. CASE \E g \in Gateways : Configure(j, g)
  BY <1>5 DEF Configure, Fresh
<1> QED
  BY <1>1, <1>2, <1>3, <1>4, <1>5

LEMMA EraRequestSteps ==
  ASSUME TypeOK, OneEra, NEW j \in AllJobs,
         \/ Send(j) \/ Answered(j) \/ Unauthorized(j) \/ Resend(j)
         \/ \E g \in Gateways : Configure(j, g)
  PROVE  OneEra'
<1>1. PICK c : job' = [job EXCEPT ![j] = c] /\ c.at \notin MidExchange \cup {"clearing"}
  BY PlainMoves
<1>2. UNCHANGED <<accessToken, stored, era, straddled>>
  BY DEF Send, Answered, Unauthorized, Resend, Configure, main, history
<1> QED
  BY <1>1, <1>2, PlainMoves, EraKept

LEMMA EraExchangeSteps ==
  ASSUME TypeOK, OneEra, NEW j \in AllJobs,
         \/ ReadStored(j) \/ Exchanged(j) \/ ExchangeFailed(j)
         \/ SaveBegins(j) \/ Saved(j) \/ SaveFailed(j)
  PROVE  OneEra'
<1>1. CASE ReadStored(j)
  <2>1. CASE stored \in {None, Torn}
    <3> DEFINE c == At(j, RefreshResult(j, FALSE))
    <3>1. job' = [job EXCEPT ![j] = c] /\ job[j].at = "reading"
      BY <1>1, <2>1 DEF ReadStored, Goto
    <3>2. c.at \notin MidExchange \cup {"clearing"}
      BY DEF At, RefreshResult, Over, Fresh, MidExchange
    <3>3. UNCHANGED <<accessToken, stored, era, straddled>>
      BY <1>1, <2>1 DEF ReadStored, main
    <3> HIDE DEF c
    <3> QED
      BY <3>1, <3>2, <3>3, EraKept DEF Clearing
  <2>2. CASE stored \notin {None, Torn}
    <3> DEFINE c == [job[j] EXCEPT !.at = "exchanging", !.token = stored,
                                   !.ok = stored.gw = gateway]
    <3>1. job' = [job EXCEPT ![j] = c] /\ job[j].at = "reading"
      BY <1>1, <2>2 DEF ReadStored, TypeOK
    <3>2. c.at = "exchanging" /\ c.token = stored
      BY DEF TypeOK, Calls
    <3>3. /\ UNCHANGED <<accessToken, stored, era>>
          /\ straddled' = (straddled \/ \E k \in AllJobs : Clearing(k))
      BY <1>1, <2>2 DEF ReadStored, main, Clearing
    <3>4. ~straddled' => stored.era = era
      BY <2>2, <3>3 DEF OneEra
    <3> HIDE DEF c
    <3> QED
      BY <3>1, <3>2, <3>3, <3>4, EraKept DEF Clearing
  <2> QED
    BY <2>1, <2>2
<1>2. CASE Exchanged(j)
  <2> DEFINE t == job[j].token
             c == [job[j] EXCEPT !.at = "saving", !.token = Granted(t)]
  <2>1. job' = [job EXCEPT ![j] = c] /\ job[j].at = "exchanging" /\ accessToken' = Granted(t)
    BY <1>2 DEF Exchanged, ToStore, TypeOK
  <2>2. t \in Sessions
    BY <2>1 DEF TypeOK, MidExchange
  <2>3. Granted(t).era = t.era
    BY <2>2 DEF Granted, Sessions
  <2>4. c.at = "saving" /\ c.token = Granted(t)
    BY DEF TypeOK, Calls
  <2>5. UNCHANGED <<stored, era, straddled>>
    BY <1>2 DEF Exchanged, history
  <2>6. ~straddled => t.era = era
    BY <2>1 DEF OneEra, MidExchange
  <2> HIDE DEF t, c
  <2> QED
    BY <2>1, <2>3, <2>4, <2>5, <2>6, EraKept DEF Clearing, MidExchange
<1>3. CASE ExchangeFailed(j) \/ SaveFailed(j)
  <2> DEFINE c == At(j, RefreshResult(j, FALSE))
  <2>1. job' = [job EXCEPT ![j] = c] /\ job[j].at \in {"exchanging", "saving"}
    BY <1>3 DEF ExchangeFailed, SaveFailed, Forgotten, Goto
  <2>2. c.at \notin MidExchange \cup {"clearing"}
    BY DEF At, RefreshResult, Over, Fresh, MidExchange
  <2>3. accessToken' = None /\ UNCHANGED <<stored, era, straddled>>
    BY <1>3 DEF ExchangeFailed, SaveFailed, Forgotten, history
  <2> HIDE DEF c
  <2> QED
    BY <2>1, <2>2, <2>3, EraKept DEF Clearing
<1>4. CASE SaveBegins(j)
  <2> DEFINE c == [job[j] EXCEPT !.at = "writing"]
  <2>1. job' = [job EXCEPT ![j] = c] /\ job[j].at = "saving" /\ stored' = Torn
    BY <1>4 DEF SaveBegins, TypeOK
  <2>2. c.at = "writing" /\ c.token = job[j].token
    BY DEF TypeOK, Calls
  <2>3. UNCHANGED <<accessToken, era, straddled>>
    BY <1>4 DEF SaveBegins, history
  <2>4. ~straddled => job[j].token.era = era
    BY <2>1 DEF OneEra, MidExchange
  <2> HIDE DEF c
  <2> QED
    BY <2>1, <2>2, <2>3, <2>4, EraKept DEF Clearing
<1>5. CASE Saved(j)
  <2> DEFINE c == At(j, RefreshResult(j, TRUE))
  <2>1. /\ job' = [job EXCEPT ![j] = c] /\ job[j].at = "writing"
        /\ stored' \in {None, job[j].token}
    BY <1>5 DEF Saved, Goto
  <2>2. c.at \notin MidExchange \cup {"clearing"}
    BY DEF At, RefreshResult, Over, Fresh, MidExchange
  <2>3. UNCHANGED <<accessToken, era, straddled>>
    BY <1>5 DEF Saved, history
  <2>4. ~straddled => job[j].token.era = era
    BY <2>1 DEF OneEra, MidExchange
  <2> HIDE DEF c
  <2> QED
    BY <2>1, <2>2, <2>3, <2>4, EraKept DEF Clearing
<1> QED
  BY <1>1, <1>2, <1>3, <1>4, <1>5

LEMMA EraCallback ==
  ASSUME IInv, OneEra, NEW j \in AllJobs, NEW l \in 1 .. MaxLogins, NEW hasCode \in BOOLEAN,
         Callback(j, l, hasCode)
  PROVE  OneEra'
<1>1. TypeOK /\ job[j].at = "idle"
  BY DEF IInv, Callback, Begins
<1>2. UNCHANGED <<accessToken, stored, era, straddled>>
  BY DEF Callback
<1>3. PICK c : /\ job' = [job EXCEPT ![j] = c] /\ c.at # "clearing"
               /\ c.at \in MidExchange => c.token.era = era
  <2>1. CASE pendingLogin = l /\ hasCode
    <3> DEFINE c == [kind |-> "callback", at |-> "exchanging",
                     token |-> [gw |-> logins[l].gw, login |-> l, era |-> logins[l].era,
                                serial |-> 0],
                     ok |-> logins[l].gw = gateway]
    <3>1. job' = [job EXCEPT ![j] = c]
      BY <2>1 DEF Callback, Begins
    <3>2. logins[l].era = era
      BY <2>1 DEF IInv, Pending
    <3>3. c.at # "clearing" /\ c.token.era = era
      BY <3>2
    <3> HIDE DEF c
    <3> QED
      BY <3>1, <3>3
  <2>2. CASE ~(pendingLogin = l /\ hasCode)
    BY <2>2 DEF Callback, Begins, Over, Fresh, MidExchange
  <2> QED
    BY <2>1, <2>2
<1> QED
  BY <1>1, <1>2, <1>3, EraKept DEF Clearing

(* A clear that meets nothing leaves an era in which there is only what it   *)
(* is about to unlink.                                                       *)
LEMMA EraClear ==
  ASSUME TypeOK, OneEra, NEW j \in AllJobs, NEW kind, Clear(j, kind)
  PROVE  OneEra'
<1> DEFINE c == [Fresh(kind, "clearing") EXCEPT !.ok = Held]
<1>1. /\ job' = [job EXCEPT ![j] = c] /\ accessToken' = None /\ stored' = stored
      /\ straddled' = (straddled \/ \E k \in AllJobs \ {j} :
                         job[k].at \in MidExchange \cup {"clearing"})
  BY DEF Clear, Forget
<1>2. c.at = "clearing" /\ c.ok = Held
  BY DEF Fresh
<1> HIDE DEF c
<1>3. job'[j] = c /\ \A k \in AllJobs : k # j => job'[k] = job[k]
  BY <1>1 DEF TypeOK
<1>4. stored \notin {None, Torn} => Held
  BY DEF Held
<1> QED
  BY <1>1, <1>2, <1>3, <1>4 DEF OneEra, Clearing, MidExchange

LEMMA EraCleared ==
  ASSUME TypeOK, OneEra, NEW j \in AllJobs, Cleared(j)
  PROVE  OneEra'
<1>1. /\ UNCHANGED <<accessToken, era, straddled>> /\ Clearing(j)
      /\ stored' = IF job[j].ok THEN None ELSE stored
  BY DEF Cleared, Unlink, history, Clearing
<1>2. ASSUME NEW k \in AllJobs
      PROVE  /\ k = j => ~Clearing(k)'
             /\ job'[k].at \in MidExchange \cup {"clearing"} =>
                  job'[k].at = job[k].at /\ job'[k].token = job[k].token
  <2>1. job'[k] \in {Over, job[k], [job[k] EXCEPT !.kind = "reloaded"]}
    BY DEF Cleared
  <2>3. k = j => job'[k] = Over
    BY DEF Cleared
  <2>2. [job[k] EXCEPT !.kind = "reloaded"].at = job[k].at
        /\ [job[k] EXCEPT !.kind = "reloaded"].token = job[k].token
    BY DEF TypeOK, Calls
  <2>4. Over.at = "done"
    BY DEF Over, Fresh
  <2> QED
    BY <2>1, <2>2, <2>3, <2>4 DEF MidExchange, Clearing
<1> QED
  BY <1>1, <1>2 DEF OneEra, Clearing

LEMMA EraRelaunch == ASSUME TypeOK, OneEra, Relaunch PROVE OneEra'
<1>1. ASSUME NEW k \in AllJobs
      PROVE  job'[k].at \notin MidExchange \cup {"clearing"}
  <2>1. \/ job'[k] \in {Over, Fresh("restore", "reading")}
        \/ job'[k] = job[k] /\ ~Active(k)
    <3>1. job'[k] = IF k = Boot THEN Fresh("restore", "reading")
                    ELSE IF Active(k) THEN Over ELSE job[k]
      BY DEF Relaunch
    <3> QED
      BY <3>1
  <2> QED
    BY <2>1 DEF Active, Over, Fresh, MidExchange
<1>2. /\ accessToken' = None /\ stored' \in {stored, None} /\ era' = era
      /\ straddled' = (straddled \/ \E k \in AllJobs : Clearing(k))
  BY DEF Relaunch, Clearing
<1> QED
  BY <1>1, <1>2 DEF OneEra, Clearing

LEMMA EraStep == ASSUME IInv, OneEra, Next PROVE OneEra'
<1>1. TypeOK
  BY DEF IInv
<1>2. CASE StartLogin \/ Expire
  BY <1>2 DEF StartLogin, Expire, history, OneEra, Clearing
<1>3. CASE Relaunch
  BY <1>1, <1>3, EraRelaunch
<1>4. ASSUME NEW j \in Jobs,
             \/ Send(j) \/ Logout(j)
             \/ \E g \in Gateways : Configure(j, g)
             \/ \E l \in 1 .. MaxLogins, hasCode \in BOOLEAN : Callback(j, l, hasCode)
      PROVE  OneEra'
  <2>1. j \in AllJobs
    BY DEF AllJobs
  <2> QED
    BY <1>1, <1>4, <2>1, EraRequestSteps, EraClear, EraCallback DEF Logout
<1>5. ASSUME NEW j \in AllJobs, Step(j) PROVE OneEra'
  BY <1>1, <1>5, EraRequestSteps, EraExchangeSteps, EraClear, EraCleared
     DEF Step, Rejected, Persisted
<1> QED
  BY <1>2, <1>3, <1>4, <1>5 DEF Next

LEMMA EraInvariant == Spec => []OneEra
<1>1. Init => OneEra
  <2> SUFFICES ASSUME Init PROVE OneEra
    OBVIOUS
  <2>1. \A j \in AllJobs : job[j].at \notin MidExchange \cup {"clearing"}
    BY DEF Init, Fresh, MidExchange
  <2>2. accessToken = None /\ (stored \notin {None, Torn} => stored.era = era)
    BY DEF Init
  <2> QED
    BY <2>1, <2>2 DEF OneEra, Clearing
<1>2. IInv /\ OneEra /\ [Next]_vars => OneEra'
  <2>1. ASSUME OneEra, UNCHANGED vars PROVE OneEra'
    BY <2>1 DEF OneEra, Clearing, vars, main, history
  <2> QED
    BY <2>1, EraStep
<1> QED
  BY <1>1, <1>2, IInvInvariant, PTL DEF Spec

-----------------------------------------------------------------------------
(* A session nobody ends.                                                    *)

HistoryOK ==
  /\ steady \in BOOLEAN /\ straddled \in BOOLEAN
  /\ honoured \in [0 .. MaxLogins -> Nat]

Ordinary(c) == c.kind \notin {"logout", "configure", "reloaded"} /\ c.at # "persisting"

(* One job at a time, and neither a logout nor a change of the connection.   *)
OneAtATime ==
  /\ reliable
  /\ \A j, k \in AllJobs : Active(j) /\ Active(k) => j = k
  /\ \A j \in AllJobs : Ordinary(job[j])

(* Every session, login and token is of the one gateway.                     *)
OneGateway ==
  /\ \A l \in 1 .. Len(logins) : logins[l].gw = gateway
  /\ accessToken # None => accessToken.gw = gateway
  /\ stored \notin {None, Torn} => stored.gw = gateway

(* The stored refresh token works, or a job is about to replace it by the    *)
(* one that does.                                                            *)
StoredWorks ==
  /\ stored = Torn => \E j \in AllJobs : job[j].at = "writing"
  /\ stored \notin {None, Torn} /\ (\A j \in AllJobs : job[j].at \notin {"saving", "writing"})
       => stored.serial = honoured[stored.login]

(* Where a job stands: an exchange under way will be granted, a granted one  *)
(* has left a fresh access token, and a request is refused for good only if  *)
(* there was nothing to refresh from.                                        *)
Proceeds(c) ==
  /\ c.at = "exchanging" => c.ok /\ Honoured(c.token) /\ c.token.gw = gateway
  /\ c.at \in {"saving", "writing"} =>
       c.token.serial = honoured[c.token.login] /\ c.token.gw = gateway
  /\ c.at \in {"saving", "writing", "refreshed"} =>
       accessToken # None /\ ~expired /\ accessToken.gw = gateway
  /\ c.at = "resent" => c.ok
  /\ c.at = "rejected" => stored = None
  /\ c.at = "clearing" => ~c.ok

JobsProceed == \A j \in AllJobs : Proceeds(job[j])

Undisturbed == OneAtATime /\ OneGateway /\ StoredWorks /\ JobsProceed

SteadyInv ==
  /\ HistoryOK
  /\ steady => Undisturbed

LEMMA SteadyHistory == ASSUME IInv, HistoryOK, Next PROVE HistoryOK' /\ (steady' => steady)
<1>1. honoured' \in [0 .. MaxLogins -> Nat]
  <2>1. ASSUME NEW j \in AllJobs, job[j].at = "exchanging", Grant(job[j].token)
        PROVE  honoured' \in [0 .. MaxLogins -> Nat]
    <3>1. Granted(job[j].token) \in Sessions
      BY <2>1, GrantedTyped DEF IInv, TypeOK, MidExchange
    <3>2. Granted(job[j].token).serial \in Nat
      BY <3>1 DEF Sessions
    <3> QED
      BY <2>1, <3>2 DEF Grant, HistoryOK
  <2>2. \/ UNCHANGED honoured
        \/ \E j \in AllJobs : job[j].at = "exchanging" /\ Grant(job[j].token)
    BY DEF Next, Step, StartLogin, Expire, Relaunch, Send, Logout, Configure, Callback,
           Answered, Unauthorized, Resend, ReadStored, Exchanged, ExchangeFailed, SaveBegins,
           Saved, SaveFailed, Rejected, Persisted, Cleared, Clear, world
  <2> QED
    BY <2>1, <2>2 DEF HistoryOK
<1>2. steady' \in {steady, FALSE} \/ steady' = (steady /\ Alone)
  BY DEF Next, Step, StartLogin, Expire, Relaunch, Send, Logout, Configure, Callback, Begins,
         Answered, Unauthorized, Resend, ReadStored, Exchanged, ExchangeFailed, Forgotten,
         SaveBegins, Saved, SaveFailed, Rejected, Persisted, Cleared, Clear, history
<1>3. straddled' \in BOOLEAN
  BY DEF Next, Step, StartLogin, Expire, Relaunch, Send, Logout, Configure, Callback, Clear,
         Answered, Unauthorized, Resend, ReadStored, Exchanged, ExchangeFailed, Forgotten,
         SaveBegins, Saved, SaveFailed, Rejected, Persisted, Cleared, history, HistoryOK
<1>4. steady' \in BOOLEAN /\ (steady' => steady)
  <2>1. steady \in BOOLEAN
    BY DEF HistoryOK
  <2>2. CASE steady' \in {steady, FALSE}
    <3>1. CASE steady' = steady
      BY <2>1, <3>1
    <3>2. CASE steady' = FALSE
      BY <3>2
    <3> QED
      BY <2>2, <3>1, <3>2
  <2>3. CASE steady' = (steady /\ Alone)
    <3>1. CASE steady /\ Alone
      BY <2>3, <3>1
    <3>2. CASE ~(steady /\ Alone)
      BY <2>3, <3>2
    <3> QED
      BY <3>1, <3>2
  <2> QED
    BY <1>2, <2>2, <2>3
<1> QED
  BY <1>1, <1>3, <1>4 DEF HistoryOK

(* The one job that is active moves on; the others are idle or done.         *)
LEMMA SoleMove ==
  ASSUME TypeOK, OneAtATime, NEW j \in AllJobs, Active(j) \/ Alone,
         NEW c, job' = [job EXCEPT ![j] = c], Ordinary(c), reliable' = reliable,
         Proceeds(c)'
  PROVE  OneAtATime' /\ JobsProceed'
<1>1. job'[j] = c /\ \A k \in AllJobs : k # j => job'[k] = job[k] /\ ~Active(k)
  BY DEF TypeOK, OneAtATime, Alone
<1>2. \A k \in AllJobs : k # j => ~Active(k)'
  BY <1>1 DEF Active
<1>3. OneAtATime'
  BY <1>1, <1>2 DEF OneAtATime
<1>4. ASSUME NEW k \in AllJobs PROVE Proceeds(job[k])'
  <2>1. CASE k = j
    BY <1>1, <2>1
  <2>2. CASE k # j
    BY <1>2, <2>2 DEF Active, Proceeds
  <2> QED
    BY <2>1, <2>2
<1> QED
  BY <1>3, <1>4 DEF JobsProceed

LEMMA SteadySend ==
  ASSUME IInv, HistoryOK, Undisturbed, steady', NEW j \in AllJobs, Send(j)
  PROVE  Undisturbed'
<1>1. PICK c : c = [Fresh("request", "sent") EXCEPT !.ok = Accepted] /\ job' = [job EXCEPT ![j] = c]
  BY DEF Send, Begins
<1>2. c.kind = "request" /\ c.at = "sent" /\ Alone
  BY <1>1 DEF Fresh, Send, Begins
<1>3. /\ UNCHANGED <<gateway, accessToken, expired, pendingLogin, stored, logins, honoured,
                     reliable>>
  BY DEF Send, main, world
<1>4. Proceeds(c)' /\ Ordinary(c)
  BY <1>2 DEF Proceeds, Ordinary
<1>5. \A k \in AllJobs : job[k].at \notin {"saving", "writing"}
  BY <1>2 DEF Alone, Active
<1>6. \A k \in AllJobs : job'[k].at \notin {"saving", "writing"}
  BY <1>1, <1>2, <1>5 DEF IInv, TypeOK
<1> QED
  BY <1>1, <1>2, <1>3, <1>4, <1>5, SoleMove DEF Undisturbed, IInv, OneGateway, StoredWorks

LEMMA SteadyCallback ==
  ASSUME IInv, HistoryOK, Undisturbed, steady', NEW j \in AllJobs, NEW l \in 1 .. MaxLogins,
         NEW hasCode \in BOOLEAN, Callback(j, l, hasCode)
  PROVE  Undisturbed'
<1>1. /\ UNCHANGED <<gateway, accessToken, expired, stored, logins, honoured, reliable>>
      /\ l \in 1 .. Len(logins)
  BY DEF Callback, world
<1>2. Alone
  BY DEF Callback, Begins
<1>3. PICK c : /\ job' = [job EXCEPT ![j] = c] /\ c.at \in {"exchanging", "done"}
               /\ Ordinary(c)
               /\ c.at = "exchanging" =>
                    c.ok /\ c.token.serial = 0 /\ c.token.gw = gateway
  <2>1. CASE pendingLogin = l /\ hasCode
    <3> DEFINE c == [kind |-> "callback", at |-> "exchanging",
                     token |-> [gw |-> logins[l].gw, login |-> l, era |-> logins[l].era,
                                serial |-> 0],
                     ok |-> logins[l].gw = gateway]
    <3>1. job' = [job EXCEPT ![j] = c]
      BY <2>1 DEF Callback, Begins
    <3>2. logins[l].gw = gateway
      BY <1>1 DEF Undisturbed, OneGateway
    <3>3. c.ok /\ c.at = "exchanging" /\ c.token.serial = 0 /\ c.token.gw = gateway /\ Ordinary(c)
      BY <3>2 DEF Ordinary
    <3> HIDE DEF c
    <3> QED
      BY <3>1, <3>3
  <2>2. CASE ~(pendingLogin = l /\ hasCode)
    <3>1. job' = [job EXCEPT ![j] = Over]
      BY <2>2 DEF Callback, Begins
    <3>2. Over.at = "done" /\ Ordinary(Over)
      BY DEF Over, Fresh, Ordinary
    <3> QED
      BY <3>1, <3>2
  <2> QED
    BY <2>1, <2>2
<1>4. Proceeds(c)'
  BY <1>1, <1>3 DEF Proceeds, Honoured
<1>5. \A k \in AllJobs : job[k].at \notin {"saving", "writing"}
  BY <1>2 DEF Alone, Active
<1>6. \A k \in AllJobs : job'[k].at \notin {"saving", "writing"}
  BY <1>3, <1>5 DEF IInv, TypeOK
<1> QED
  BY <1>1, <1>2, <1>3, <1>4, <1>5, SoleMove DEF Undisturbed, IInv, OneGateway, StoredWorks

(* The place a job that is neither saving nor writing moves to, when nothing *)
(* but the job changes.                                                      *)
LEMMA SteadyMove ==
  ASSUME IInv, Undisturbed, NEW j \in AllJobs, Active(j),
         job[j].at \notin {"saving", "writing"},
         NEW c, job' = [job EXCEPT ![j] = c], c.at \notin {"saving", "writing"},
         Ordinary(c), Proceeds(c)',
         UNCHANGED <<gateway, accessToken, expired, stored, logins, honoured, reliable>>
  PROVE  Undisturbed'
<1>1. \A k \in AllJobs : job[k].at \notin {"saving", "writing"}
  BY DEF Undisturbed, OneAtATime, Active
<1>2. \A k \in AllJobs : job'[k].at \notin {"saving", "writing"}
  BY <1>1 DEF IInv, TypeOK
<1> QED
  BY <1>1, <1>2, SoleMove DEF Undisturbed, IInv, OneGateway, StoredWorks

LEMMA PlacesOrdinary ==
  ASSUME IInv, Undisturbed, NEW j \in AllJobs,
         NEW at \in {"done", "rejected", "refreshed", "reading"}
  PROVE  At(j, at).at = at /\ Ordinary(At(j, at))
BY DEF Undisturbed, OneAtATime, Ordinary, At, Over, Fresh

LEMMA SteadyRequestSteps ==
  ASSUME IInv, HistoryOK, Undisturbed, steady', NEW j \in AllJobs,
         Answered(j) \/ Unauthorized(j) \/ Resend(j)
  PROVE  Undisturbed'
<1>1. Active(j) /\ job[j].at \in {"sent", "resent", "refreshed"}
  BY DEF Answered, Unauthorized, Resend, Active
<1>2. UNCHANGED <<gateway, accessToken, expired, stored, logins, honoured, reliable>>
  BY DEF Answered, Unauthorized, Resend, main, world
<1>3. reliable /\ Proceeds(job[j])
  BY DEF Undisturbed, OneAtATime, JobsProceed
<1>4. PICK c : /\ job' = [job EXCEPT ![j] = c] /\ Ordinary(c)
               /\ c.at = "resent" => c.ok
               /\ c.at \in {"done", "reading", "resent"}
  <2>1. ASSUME NEW at \in {"done", "reading"}, Goto(j, at)
        PROVE  \E c : /\ job' = [job EXCEPT ![j] = c] /\ Ordinary(c)
                      /\ c.at = "resent" => c.ok
                      /\ c.at \in {"done", "reading", "resent"}
    <3> DEFINE c == At(j, at)
    <3>1. job' = [job EXCEPT ![j] = c]
      BY <2>1 DEF Goto
    <3>2. c.at = at /\ Ordinary(c)
      BY PlacesOrdinary
    <3> HIDE DEF c
    <3> QED
      BY <2>1, <3>1, <3>2
  <2>2. CASE Answered(j)
    BY <2>1, <2>2 DEF Answered
  <2>3. CASE Unauthorized(j)
    <3>1. job[j].at = "sent"
      BY <1>3, <2>3 DEF Unauthorized, Proceeds
    <3> QED
      BY <2>1, <2>3, <3>1 DEF Unauthorized, AfterUnauthorized
  <2>4. CASE Resend(j)
    <3> DEFINE c == [job[j] EXCEPT !.at = "resent", !.ok = Accepted]
    <3>1. job' = [job EXCEPT ![j] = c] /\ job[j].at = "refreshed"
      BY <2>4 DEF Resend, IInv, TypeOK
    <3>2. c.at = "resent" /\ c.ok = Accepted /\ c.kind = job[j].kind
      BY DEF IInv, TypeOK, Calls
    <3>3. Accepted
      BY <1>3, <3>1 DEF Proceeds, Accepted
    <3>4. Ordinary(c)
      BY <3>2 DEF Undisturbed, OneAtATime, Ordinary
    <3> HIDE DEF c
    <3> QED
      BY <3>1, <3>2, <3>3, <3>4
  <2> QED
    BY <2>2, <2>3, <2>4
<1>5. Proceeds(c)'
  BY <1>4 DEF Proceeds
<1> QED
  BY <1>1, <1>2, <1>4, <1>5, SteadyMove

LEMMA SteadyRead ==
  ASSUME IInv, HistoryOK, Undisturbed, steady', NEW j \in AllJobs, ReadStored(j)
  PROVE  Undisturbed'
<1>1. /\ Active(j) /\ job[j].at = "reading"
      /\ UNCHANGED <<gateway, accessToken, expired, stored, logins, honoured, reliable>>
  BY DEF ReadStored, Active, main, world
<1>2. \A k \in AllJobs : job[k].at \notin {"saving", "writing"}
  BY <1>1 DEF Undisturbed, OneAtATime, Active
<1>3. stored # Torn
  BY <1>2 DEF Undisturbed, StoredWorks
<1>4. PICK c : /\ job' = [job EXCEPT ![j] = c] /\ Ordinary(c)
               /\ c.at \notin {"saving", "writing"} /\ Proceeds(c)'
  <2>1. CASE stored = None
    <3> DEFINE c == At(j, RefreshResult(j, FALSE))
    <3>1. job' = [job EXCEPT ![j] = c]
      BY <2>1 DEF ReadStored, Goto
    <3>2. c.at \in {"done", "rejected"} /\ Ordinary(c)
      BY PlacesOrdinary DEF RefreshResult
    <3> HIDE DEF c
    <3>3. PICK d : d = c
      OBVIOUS
    <3>4. Proceeds(d)'
      BY <1>1, <2>1, <3>2, <3>3 DEF Proceeds
    <3> QED
      BY <3>1, <3>2, <3>3, <3>4
  <2>2. CASE stored # None
    <3> DEFINE c == [job[j] EXCEPT !.at = "exchanging", !.token = stored,
                                   !.ok = stored.gw = gateway]
    <3>1. job' = [job EXCEPT ![j] = c]
      BY <1>3, <2>2 DEF ReadStored, IInv, TypeOK
    <3>2. /\ c.at = "exchanging" /\ c.token = stored /\ c.ok = (stored.gw = gateway)
          /\ c.kind = job[j].kind
      BY DEF IInv, TypeOK, Calls
    <3>3. Ordinary(c)
      BY <3>2 DEF Undisturbed, OneAtATime, Ordinary
    <3>4. stored.gw = gateway /\ stored.serial = honoured[stored.login]
      BY <1>2, <1>3, <2>2 DEF Undisturbed, OneGateway, StoredWorks
    <3> HIDE DEF c
    <3>5. PICK d : d = c
      OBVIOUS
    <3>6. Proceeds(d)'
      BY <1>1, <3>2, <3>4, <3>5 DEF Proceeds, Honoured
    <3> QED
      BY <3>1, <3>2, <3>3, <3>5, <3>6
  <2> QED
    BY <2>1, <2>2
<1> QED
  BY <1>1, <1>4, SteadyMove

LEMMA SteadyExchanged ==
  ASSUME IInv, HistoryOK, Undisturbed, steady', NEW j \in AllJobs, Exchanged(j)
  PROVE  Undisturbed'
<1> DEFINE t == job[j].token
           g == Granted(t)
           c == [job[j] EXCEPT !.at = "saving", !.token = g]
<1>1. /\ Active(j) /\ job[j].at = "exchanging"
      /\ UNCHANGED <<gateway, stored, logins, reliable>>
      /\ accessToken' = g /\ expired' = FALSE
      /\ honoured' = [honoured EXCEPT ![t.login] = g.serial]
      /\ job' = [job EXCEPT ![j] = c]
  BY DEF Exchanged, ToStore, Grant, Active, IInv, TypeOK
<1>2. t \in Sessions /\ g \in Sessions
  BY <1>1, GrantedTyped DEF IInv, TypeOK, MidExchange
<1>3. t.gw = gateway
  BY <1>1 DEF Undisturbed, JobsProceed, Proceeds
<1>4. g.gw = gateway /\ g.login = t.login
  BY <1>2, <1>3 DEF Granted, Sessions
<1>5. honoured'[g.login] = g.serial
  BY <1>1, <1>2, <1>4 DEF Sessions, HistoryOK
<1>6. c.at = "saving" /\ c.token = g /\ c.kind = job[j].kind
  BY DEF IInv, TypeOK, Calls
<1>7. Ordinary(c)
  BY <1>6 DEF Undisturbed, OneAtATime, Ordinary
<1>8. g # None
  BY <1>2, NoneAssumption
<1> HIDE DEF t, g, c
<1>9. PICK d : d = c
  OBVIOUS
<1>10. Proceeds(d)'
  BY <1>1, <1>4, <1>5, <1>6, <1>8, <1>9 DEF Proceeds
<1>11. stored # Torn
  BY <1>1 DEF Undisturbed, OneAtATime, StoredWorks, Active
<1>12. job'[j].at = "saving"
  BY <1>1, <1>6 DEF IInv, TypeOK
<1>13. OneAtATime' /\ JobsProceed'
  BY <1>1, <1>7, <1>9, <1>10, SoleMove DEF Undisturbed, IInv
<1>14. OneGateway'
  BY <1>1, <1>4 DEF Undisturbed, OneGateway
<1>15. StoredWorks'
  BY <1>1, <1>11, <1>12 DEF StoredWorks
<1> QED
  BY <1>13, <1>14, <1>15 DEF Undisturbed

LEMMA SteadyNeverFails ==
  ASSUME Undisturbed, NEW j \in AllJobs, ExchangeFailed(j) \/ SaveFailed(j) \/ Persisted(j)
  PROVE  FALSE
BY DEF Undisturbed, OneAtATime, Ordinary, JobsProceed, Proceeds, ExchangeFailed, SaveFailed,
       Persisted

LEMMA SteadySaveBegins ==
  ASSUME IInv, HistoryOK, Undisturbed, steady', NEW j \in AllJobs, SaveBegins(j)
  PROVE  Undisturbed'
<1> DEFINE c == [job[j] EXCEPT !.at = "writing"]
<1>1. /\ Active(j) /\ job[j].at = "saving" /\ stored' = Torn /\ job' = [job EXCEPT ![j] = c]
      /\ UNCHANGED <<gateway, accessToken, expired, logins, honoured, reliable>>
  BY DEF SaveBegins, world, Active, IInv, TypeOK
<1>2. c.at = "writing" /\ c.token = job[j].token /\ c.kind = job[j].kind
  BY DEF IInv, TypeOK, Calls
<1> HIDE DEF c
<1>3. PICK d : d = c
  OBVIOUS
<1>4. Proceeds(d)'
  BY <1>1, <1>2, <1>3 DEF Undisturbed, JobsProceed, Proceeds
<1>5. Ordinary(d)
  BY <1>2, <1>3 DEF Undisturbed, OneAtATime, Ordinary
<1>6. job'[j].at = "writing"
  BY <1>1, <1>2 DEF IInv, TypeOK
<1>7. OneAtATime' /\ JobsProceed'
  BY <1>1, <1>3, <1>4, <1>5, SoleMove DEF Undisturbed, IInv
<1>8. OneGateway'
  BY <1>1 DEF Undisturbed, OneGateway
<1>9. StoredWorks'
  BY <1>1, <1>6 DEF StoredWorks
<1> QED
  BY <1>7, <1>8, <1>9 DEF Undisturbed

LEMMA SteadySaved ==
  ASSUME IInv, HistoryOK, Undisturbed, steady', NEW j \in AllJobs, Saved(j)
  PROVE  Undisturbed' /\ (Held => stored' # None)
<1> DEFINE c == At(j, RefreshResult(j, TRUE))
           t == job[j].token
<1>1. /\ Active(j) /\ job[j].at = "writing" /\ job' = [job EXCEPT ![j] = c]
      /\ stored' = IF Held THEN t ELSE None
      /\ UNCHANGED <<gateway, accessToken, expired, logins, honoured, reliable>>
  BY DEF Saved, Goto, world, Active
<1>2. c.at \in {"done", "refreshed"} /\ Ordinary(c)
  BY PlacesOrdinary DEF RefreshResult
<1>3. t \in Sessions /\ t # None /\ t # Torn
  BY <1>1, NoneAssumption DEF IInv, TypeOK, MidExchange
<1>4. /\ t.serial = honoured[t.login] /\ t.gw = gateway
      /\ accessToken # None /\ ~expired /\ accessToken.gw = gateway
  BY <1>1 DEF Undisturbed, JobsProceed, Proceeds
<1> HIDE DEF c, t
<1>5. PICK d : d = c
  OBVIOUS
<1>6. Proceeds(d)'
  BY <1>1, <1>2, <1>4, <1>5 DEF Proceeds
<1>7. OneAtATime' /\ JobsProceed'
  BY <1>1, <1>2, <1>5, <1>6, SoleMove DEF Undisturbed, IInv
<1>8. OneGateway'
  BY <1>1, <1>4 DEF Undisturbed, OneGateway
<1>9. StoredWorks'
  BY <1>1, <1>3, <1>4, NoneAssumption DEF StoredWorks
<1> QED
  BY <1>1, <1>3, <1>7, <1>8, <1>9 DEF Undisturbed

LEMMA SteadyRejected ==
  ASSUME IInv, HistoryOK, Undisturbed, NEW j \in AllJobs, Rejected(j)
  PROVE  Undisturbed' /\ stored' = stored
<1> DEFINE kind == job[j].kind
           c == [Fresh(kind, "clearing") EXCEPT !.ok = Held]
<1>1. /\ Active(j) /\ job[j].at = "rejected" /\ accessToken' = None
      /\ job' = [job EXCEPT ![j] = c]
      /\ UNCHANGED <<gateway, expired, stored, logins, honoured, reliable>>
  BY DEF Rejected, Clear, Forget, world, Active
<1>2. stored = None /\ ~Held
  BY <1>1 DEF Undisturbed, JobsProceed, Proceeds, Held
<1>3. c.kind = kind /\ c.at = "clearing" /\ c.ok = Held
  BY DEF Fresh
<1>4. Ordinary(c)
  BY <1>3 DEF Undisturbed, OneAtATime, Ordinary
<1> HIDE DEF c, kind
<1>5. PICK d : d = c
  OBVIOUS
<1>6. Proceeds(d)'
  BY <1>2, <1>3, <1>5 DEF Proceeds
<1>7. OneAtATime' /\ JobsProceed'
  BY <1>1, <1>4, <1>5, <1>6, SoleMove DEF Undisturbed, IInv
<1> QED
  BY <1>1, <1>2, <1>7, NoneAssumption DEF Undisturbed, OneGateway, StoredWorks

LEMMA SteadyCleared ==
  ASSUME IInv, HistoryOK, Undisturbed, NEW j \in AllJobs, Cleared(j)
  PROVE  Undisturbed' /\ stored' = stored
<1>1. Active(j) /\ job[j].at = "clearing" /\ ~job[j].ok /\ job[j].kind # "configure"
  BY DEF Cleared, Active, Undisturbed, OneAtATime, Ordinary, JobsProceed, Proceeds
<1>2. /\ job' = [job EXCEPT ![j] = Over]
      /\ UNCHANGED <<gateway, accessToken, expired, stored, logins, honoured, reliable>>
  BY <1>1 DEF Cleared, Unlink, world, IInv, TypeOK
<1>3. Over.at = "done" /\ Ordinary(Over)
  BY DEF Over, Fresh, Ordinary
<1>4. PICK d : d = Over
  OBVIOUS
<1>5. Proceeds(d)'
  BY <1>3, <1>4 DEF Proceeds
<1> QED
  BY <1>1, <1>2, <1>3, <1>4, <1>5, SteadyMove

LEMMA SteadyStartLogin == ASSUME IInv, Undisturbed, StartLogin PROVE Undisturbed'
<1> DEFINE login == [gw |-> gateway, era |-> era]
<1>1. /\ logins' = Append(logins, login)
      /\ UNCHANGED <<gateway, accessToken, expired, stored, job, honoured, reliable>>
  BY DEF StartLogin
<1>2. /\ Len(logins') = Len(logins) + 1 /\ Len(logins) \in Nat
      /\ logins'[Len(logins) + 1] = login /\ \A i \in 1 .. Len(logins) : logins'[i] = logins[i]
  BY <1>1 DEF IInv, TypeOK
<1>3. OneGateway'
  BY <1>1, <1>2 DEF Undisturbed, OneGateway
<1> QED
  BY <1>1, <1>3 DEF Undisturbed, OneAtATime, StoredWorks, JobsProceed, Proceeds, Honoured, Active

LEMMA SteadyExpire == ASSUME IInv, Undisturbed, Expire PROVE Undisturbed'
BY DEF Expire, world, Undisturbed, OneAtATime, OneGateway, StoredWorks, JobsProceed, Proceeds,
       Honoured, Active

LEMMA SteadyRelaunch ==
  ASSUME IInv, Undisturbed, Relaunch, steady' PROVE Undisturbed' /\ stored' = stored
<1>1. Alone
  BY DEF Relaunch
<1>2. \A k \in AllJobs : job[k].at \in {"idle", "done"}
  BY <1>1 DEF Alone, Active
<1>3. stored # Torn
  BY <1>2 DEF Undisturbed, StoredWorks
<1>4. /\ accessToken' = None /\ stored' = stored
      /\ UNCHANGED <<gateway, logins, honoured, reliable>>
  BY <1>3 DEF Relaunch, world
<1>5. ASSUME NEW k \in AllJobs
      PROVE  \/ k = Boot /\ job'[k] = Fresh("restore", "reading")
             \/ k # Boot /\ job'[k] = job[k]
  BY <1>1 DEF Relaunch, Alone
<1>6. Fresh("restore", "reading").at = "reading" /\ Ordinary(Fresh("restore", "reading"))
  BY DEF Fresh, Ordinary
<1>7. OneAtATime'
  <2>1. \A k \in AllJobs : Ordinary(job'[k])
    BY <1>5, <1>6 DEF Undisturbed, OneAtATime
  <2>2. \A k \in AllJobs : k # Boot => ~Active(k)'
    BY <1>2, <1>5 DEF Active
  <2> QED
    BY <1>4, <2>1, <2>2 DEF Undisturbed, OneAtATime
<1>8. \A k \in AllJobs : job'[k].at \in {"idle", "done", "reading"}
  BY <1>2, <1>5, <1>6
<1>9. OneGateway'
  BY <1>4 DEF Undisturbed, OneGateway
<1>10. StoredWorks'
  BY <1>2, <1>3, <1>4 DEF Undisturbed, StoredWorks
<1>11. JobsProceed'
  BY <1>8 DEF JobsProceed, Proceeds
<1> QED
  BY <1>4, <1>7, <1>9, <1>10, <1>11 DEF Undisturbed

(* What a step does to an undisturbed session that it leaves undisturbed.    *)
LEMMA SteadyStep ==
  ASSUME IInv, HistoryOK, Undisturbed, Next, steady'
  PROVE  Undisturbed' /\ (Held => stored' # None)
<1> USE DEF Held
<1>1. CASE StartLogin
  BY <1>1, SteadyStartLogin DEF StartLogin
<1>2. CASE Expire
  BY <1>2, SteadyExpire DEF Expire
<1>3. CASE Relaunch
  BY <1>3, SteadyRelaunch
<1>4. ASSUME NEW j \in Jobs,
             \/ Send(j) \/ Logout(j)
             \/ \E g \in Gateways : Configure(j, g)
             \/ \E l \in 1 .. MaxLogins, hasCode \in BOOLEAN : Callback(j, l, hasCode)
      PROVE  Undisturbed' /\ stored' = stored
  <2>1. j \in AllJobs
    BY DEF AllJobs
  <2>2. ~Logout(j) /\ ~\E g \in Gateways : Configure(j, g)
    BY DEF Logout, Configure
  <2>3. CASE Send(j)
    BY <2>1, <2>3, SteadySend DEF Send, main
  <2>4. ASSUME NEW l \in 1 .. MaxLogins, NEW hasCode \in BOOLEAN, Callback(j, l, hasCode)
        PROVE  Undisturbed' /\ stored' = stored
    BY <2>1, <2>4, SteadyCallback DEF Callback
  <2> QED
    BY <1>4, <2>2, <2>3, <2>4
<1>5. ASSUME NEW j \in AllJobs, Step(j) PROVE Undisturbed' /\ (Held => stored' # None)
  <2>1. CASE Answered(j) \/ Unauthorized(j) \/ Resend(j)
    BY <2>1, SteadyRequestSteps DEF Answered, Unauthorized, Resend, main
  <2>2. CASE ReadStored(j)
    BY <2>2, SteadyRead DEF ReadStored, main
  <2>3. CASE Exchanged(j)
    BY <2>3, SteadyExchanged DEF Exchanged
  <2>4. CASE SaveBegins(j)
    BY <2>4, SteadySaveBegins, NoneAssumption DEF SaveBegins
  <2>5. CASE Saved(j)
    BY <2>5, SteadySaved
  <2>6. CASE Rejected(j) \/ Cleared(j)
    BY <2>6, SteadyRejected, SteadyCleared
  <2>7. CASE ExchangeFailed(j) \/ SaveFailed(j) \/ Persisted(j)
    BY <2>7, SteadyNeverFails
  <2> QED
    BY <1>5, <2>1, <2>2, <2>3, <2>4, <2>5, <2>6, <2>7 DEF Step
<1> QED
  BY <1>1, <1>2, <1>3, <1>4, <1>5 DEF Next

LEMMA SteadyInvariant == Spec => []SteadyInv
<1>1. ASSUME Init PROVE SteadyInv
  <2>1. HistoryOK
    <3>1. reliable \in BOOLEAN /\ steady = reliable /\ straddled = FALSE
      BY <1>1, Zenon DEF Init
    <3>2. honoured \in [0 .. MaxLogins -> Nat]
      BY <1>1 DEF Init
    <3> QED
      BY <3>1, <3>2, Zenon DEF HistoryOK
  <2>2. \A j \in AllJobs : /\ job[j].at = IF j = Boot THEN "reading" ELSE "idle"
                          /\ Ordinary(job[j])
    BY <1>1 DEF Init, Fresh, Ordinary
  <2>3. steady => OneAtATime
    BY <1>1, <2>2 DEF Init, OneAtATime, Active
  <2>4. OneGateway
    BY <1>1 DEF Init, OneGateway
  <2>5. StoredWorks
    <3>1. stored # None =>
            /\ stored = [gw |-> gateway, login |-> 0, era |-> 0, serial |-> 1]
            /\ stored \in Sessions /\ honoured[0] = 1
      BY <1>1, BoundsAssumption DEF Init, Sessions
    <3> QED
      BY <3>1, NoneAssumption DEF StoredWorks
  <2>6. JobsProceed
    BY <2>2 DEF JobsProceed, Proceeds
  <2> QED
    BY <2>1, <2>3, <2>4, <2>5, <2>6 DEF SteadyInv, Undisturbed
<1>2. ASSUME IInv, SteadyInv, [Next]_vars PROVE SteadyInv'
  <2>1. CASE Next
    BY <1>2, <2>1, SteadyHistory, SteadyStep DEF SteadyInv
  <2>2. CASE UNCHANGED vars
    BY <1>2, <2>2 DEF SteadyInv, HistoryOK, Undisturbed, OneAtATime, OneGateway, StoredWorks,
         JobsProceed, Proceeds, Honoured, Active, vars, main, world, history
  <2> QED
    BY <1>2, <2>1, <2>2
<1> QED
  BY <1>1, <1>2, IInvInvariant, PTL DEF Spec

-----------------------------------------------------------------------------
(* The session, the logins and the jobs keep their types.                    *)
THEOREM TypeCorrect == Spec => []TypeOK
BY IInvInvariant, PTL DEF IInv

(* The code of a login is exchanged at most once, however often the browser  *)
(* delivers its callback, and never after a clear that followed the login.   *)
THEOREM CodesExchangedOnce == Spec => []CodesAreExchangedOnce
<1>1. ASSUME IInv PROVE CodesAreExchangedOnce
  BY <1>1 DEF IInv, Told, Once, CodesAreExchangedOnce
<1> QED
  BY <1>1, IInvInvariant, PTL

(* A clear that no exchange straddles leaves nothing of the session behind:  *)
(* not in memory, not in storage, not in a login that is still under way.    *)
THEOREM ClearedSessionsStayCleared == Spec => []ClearedStaysCleared
<1>1. ASSUME OneEra PROVE ClearedStaysCleared
  BY <1>1 DEF OneEra, ClearedStaysCleared, Clearing
<1> QED
  BY <1>1, EraInvariant, PTL

(* While jobs do not overlap and everybody answers, no step takes away the   *)
(* stored session of a user who does not end it.                             *)
THEOREM SessionsSurvive == Spec => SessionSurvives
<1>1. ASSUME IInv, SteadyInv, [Next]_vars, steady', Held PROVE stored' # None
  <2>1. CASE Next
    BY <1>1, <2>1, SteadyHistory, SteadyStep DEF SteadyInv
  <2>2. CASE UNCHANGED vars
    BY <1>1, <2>2 DEF vars, main, Held
  <2> QED
    BY <1>1, <2>1, <2>2
<1>2. IInv /\ SteadyInv /\ [Next]_vars => [steady' /\ Held => stored' # None]_vars
  BY <1>1
<1> QED
  BY <1>2, IInvInvariant, SteadyInvariant, PTL DEF Spec, SessionSurvives
=============================================================================
