---------------------------- MODULE DesktopSession ----------------------------
(***************************************************************************)
(* The desktop's sign-in session: the access token in memory, the login    *)
(* in progress and the refresh token in secure storage, all three in the   *)
(* main process (apps/desktop/src/main/main.ts), the renderer's request()  *)
(* that refreshes or drops them on a 401 (renderer/api/client.ts), and the *)
(* gateway's token exchange with the identity provider                     *)
(* (apps/gateway/src/services/auth.ts), which may rotate refresh tokens.   *)
(*                                                                         *)
(* A job is one call into the main process, or one renderer request with   *)
(* the calls it makes; an action is the code between two awaits, so jobs   *)
(* interleave wherever the code awaits.                                    *)
(***************************************************************************)
EXTENDS Integers, Sequences

CONSTANTS
  Jobs,       \* requests, callbacks, logouts and configures, each once
  Boot,       \* the job of restoreAuth(), which precedes the window
  Gateways,   \* gateways the desktop may be configured for
  MaxLogins,  \* bound: logins started
  MaxLaunches,\* bound: times the application starts
  None,       \* no session
  Torn        \* what writeFile() leaves of the file while it writes

ASSUME JobsAssumption   == Boot \notin Jobs /\ Gateways # {}
ASSUME BoundsAssumption == MaxLogins \in Nat /\ MaxLaunches \in Nat \ {0}

(* A session, by its access token or its refresh token: the gateway and the  *)
(* login it is of, the clears that preceded that login, and the number of    *)
(* the refresh token among those of the login.                               *)
Sessions == [gw : Gateways, login : 0 .. MaxLogins, era : Nat, serial : Nat]

ASSUME NoneAssumption   == None # Torn /\ None \notin Sessions /\ Torn \notin Sessions

VARIABLES
  gateway,       \* the active gateway
  accessToken,   \* [gw, login, era, serial], or None
  expired,       \* the access token has expired
  pendingLogin,  \* the number of the login in progress, 0: none
  stored,        \* the "oidc-refresh" value: like accessToken, None, or Torn
  job,           \* job[j]: [kind, at, token, ok]
  logins,        \* the logins started: [gw, era] each
  honoured,      \* honoured[l]: serial of the refresh token of login l that works
  rotates,       \* the identity provider issues a new refresh token each time
  reliable,      \* gateway, identity provider and storage answer as they should
  launches,      \* starts of the application so far
  era,           \* history: sessions cleared so far
  exchanged,     \* history: <<login, era>> of every code sent for exchange
  straddled,     \* history: a clear met an exchange, or its process's end
  steady         \* history: reliable; no two jobs, no job and the process's end
                 \* met; the user neither logged out nor changed the connection

main     == <<gateway, accessToken, expired, pendingLogin, stored>>
world    == <<logins, honoured, rotates, reliable>>
history  == <<launches, era, exchanged, straddled, steady>>
vars     == <<main, job, world, history>>

AllJobs == Jobs \cup {Boot}
MidExchange == {"exchanging", "saving", "writing"}

Active(j) == job[j].at \notin {"idle", "done"}
Restored  == job[Boot].at = "done"
Held      == stored # None

Fresh(kind, at) == [kind |-> kind, at |-> at, token |-> None, ok |-> FALSE]

Init ==
  \E g \in Gateways :
    /\ gateway = g
    /\ accessToken = None /\ expired = FALSE /\ pendingLogin = 0
    /\ stored \in {None, [gw |-> g, login |-> 0, era |-> 0, serial |-> 1]}
    /\ job = [j \in AllJobs |->
               IF j = Boot THEN Fresh("restore", "reading") ELSE Fresh("none", "idle")]
    /\ logins = << >>
    /\ honoured = [l \in 0 .. MaxLogins |-> 1]
    /\ rotates \in BOOLEAN /\ reliable \in BOOLEAN
    /\ launches = 1 /\ era = 0 /\ exchanged = << >>
    /\ straddled = FALSE /\ steady = reliable

Over == Fresh("none", "done")

At(j, at)   == IF at = "done" THEN Over ELSE Fresh(job[j].kind, at)
Goto(j, at) == job' = [job EXCEPT ![j] = At(j, at)]

Alone == \A k \in AllJobs : ~Active(k)

(* A job begins. *)
Begins(j, first) ==
  /\ job[j].at = "idle"
  /\ job' = [job EXCEPT ![j] = first]
  /\ steady' = (steady /\ Alone)

-----------------------------------------------------------------------------
(* Logging in. *)

StartLogin ==
  /\ Restored /\ Len(logins) < MaxLogins
  /\ logins' = Append(logins, [gw |-> gateway, era |-> era])
  /\ pendingLogin' = Len(logins')
  /\ UNCHANGED <<gateway, accessToken, expired, stored, job, honoured, rotates, reliable,
                 history>>

(* Fault: pendingLogin is dropped once the exchange is answered. *)
TakePending_Later == UNCHANGED pendingLogin

(* What handleAuthCallback() does before it awaits the exchange, whatever   *)
(* the state of the callback.                                                *)
TakePending == pendingLogin' = 0

(* The browser may hand over the callback of any login, late or twice, and   *)
(* without a code when the user declined.                                    *)
Callback(j, l, hasCode) ==
  /\ l \in 1 .. Len(logins)
  /\ TakePending
  /\ IF pendingLogin = l /\ hasCode
     THEN /\ Begins(j, [kind |-> "callback", at |-> "exchanging",
                        token |-> [gw |-> logins[l].gw, login |-> l,
                                   era |-> logins[l].era, serial |-> 0],
                        ok |-> logins[l].gw = gateway])
          /\ exchanged' = Append(exchanged, <<l, era>>)
     ELSE Begins(j, Over) /\ UNCHANGED exchanged
  /\ UNCHANGED <<gateway, accessToken, expired, stored, world, launches, era, straddled>>

-----------------------------------------------------------------------------
(* A renderer request: the gateway accepts a token of its own that has not   *)
(* expired.                                                                  *)
Accepted == accessToken # None /\ ~expired /\ accessToken.gw = gateway

Send(j) ==
  /\ Restored
  /\ Begins(j, [Fresh("request", "sent") EXCEPT !.ok = Accepted])
  /\ UNCHANGED <<main, world, launches, era, exchanged, straddled>>

AfterUnauthorized(j) == IF job[j].at = "sent" THEN "reading" ELSE "rejected"

(* Any answer but a 401 ends the request, as does a failed fetch(). *)
Answered(j) ==
  /\ job[j].at \in {"sent", "resent"}
  /\ job[j].ok \/ ~reliable
  /\ Goto(j, "done")
  /\ UNCHANGED <<main, world, history>>

Unauthorized(j) ==
  /\ job[j].at \in {"sent", "resent"}
  /\ ~job[j].ok \/ ~reliable
  /\ Goto(j, AfterUnauthorized(j))
  /\ UNCHANGED <<main, world, history>>

(* auth.refresh() resolved: the request is sent again, or treated as a 401;  *)
(* a restore, or a request whose window was reloaded, ends here.             *)
RefreshResult(j, refreshed) ==
  IF job[j].kind # "request" THEN "done"
  ELSE IF refreshed THEN "refreshed" ELSE "rejected"

Resend(j) ==
  /\ job[j].at = "refreshed"
  /\ job' = [job EXCEPT ![j].at = "resent", ![j].ok = Accepted]
  /\ UNCHANGED <<main, world, history>>

-----------------------------------------------------------------------------
(* refreshStoredAuth(), and the exchange both it and the callback await. *)

ReadStored(j) ==
  /\ job[j].at = "reading"
  /\ IF stored \in {None, Torn}
     THEN Goto(j, RefreshResult(j, FALSE)) /\ UNCHANGED straddled
     ELSE /\ job' = [job EXCEPT ![j].at = "exchanging", ![j].token = stored,
                                ![j].ok = stored.gw = gateway]
          /\ straddled' = (straddled \/ \E k \in AllJobs : job[k].at = "clearing")
  /\ UNCHANGED <<main, world, launches, era, exchanged, steady>>

Honoured(t) == t.serial = 0 \/ t.serial = honoured[t.login]

(* The refresh token the exchange of t returns: the code's first one, the   *)
(* next one if tokens rotate, or the one sent.                               *)
Granted(t) ==
  [t EXCEPT !.serial = IF t.serial = 0 THEN 1 ELSE IF rotates THEN t.serial + 1 ELSE @]

Grant(t) == honoured' = [honoured EXCEPT ![t.login] = Granted(t).serial]

(* Fault: the token that was sent is stored again, not the one returned. *)
ToStore_Sent(t) == IF t.serial = 0 THEN Granted(t) ELSE t

ToStore(t) == Granted(t)

Exchanged(j) ==
  LET t == job[j].token IN
  /\ job[j].at = "exchanging"
  /\ job[j].ok /\ Honoured(t)
  /\ Grant(t)
  /\ accessToken' = Granted(t) /\ expired' = FALSE
  /\ job' = [job EXCEPT ![j].at = "saving", ![j].token = ToStore(t)]
  /\ UNCHANGED <<gateway, pendingLogin, stored, logins, rotates, reliable, history>>

(* The catch block of both callers. *)
Forgotten(j) ==
  /\ accessToken' = None
  /\ Goto(j, RefreshResult(j, FALSE))
  /\ UNCHANGED <<gateway, expired, pendingLogin, stored, logins, rotates, reliable, history>>

(* Rejected, timed out or unreachable; the identity provider may have        *)
(* granted what nobody hears of.                                             *)
ExchangeFailed(j) ==
  LET t == job[j].token IN
  /\ job[j].at = "exchanging"
  /\ ~(reliable /\ job[j].ok /\ Honoured(t))
  /\ UNCHANGED honoured \/ (job[j].ok /\ Honoured(t) /\ Grant(t))
  /\ Forgotten(j)

SaveBegins(j) ==
  /\ job[j].at = "saving"
  /\ stored' = Torn
  /\ job' = [job EXCEPT ![j].at = "writing"]
  /\ UNCHANGED <<gateway, accessToken, expired, pendingLogin, world, history>>

(* A file unlinked meanwhile stays unlinked. *)
Saved(j) ==
  /\ job[j].at = "writing"
  /\ stored' = IF Held THEN job[j].token ELSE None
  /\ Goto(j, RefreshResult(j, TRUE))
  /\ UNCHANGED <<gateway, accessToken, expired, pendingLogin, world, history>>

SaveFailed(j) ==
  /\ ~reliable /\ job[j].at = "saving"
  /\ Forgotten(j) /\ UNCHANGED honoured

-----------------------------------------------------------------------------
(* clearStoredAuth(), by a logout, by a request that is still refused after  *)
(* its refresh, and by every change of the connection.                       *)

(* Fault: the login in progress is kept. *)
Forget_KeepPending == accessToken' = None /\ UNCHANGED pendingLogin

Forget == accessToken' = None /\ pendingLogin' = 0

Clear(j, kind) ==
  /\ Forget
  /\ era' = era + 1
  /\ job' = [job EXCEPT ![j] = [Fresh(kind, "clearing") EXCEPT !.ok = Held]]
  /\ straddled' = (straddled \/ \E k \in AllJobs \ {j} :
                     job[k].at \in MidExchange \cup {"clearing"})
  /\ UNCHANGED <<gateway, expired, stored, world, launches, exchanged>>

Logout(j) ==
  /\ Restored /\ job[j].at = "idle"
  /\ Clear(j, "logout")
  /\ steady' = FALSE

Rejected(j) ==
  /\ job[j].at = "rejected"
  /\ Clear(j, job[j].kind)
  /\ UNCHANGED steady

(* connection:configure and connection:clear: the manager changes the        *)
(* gateway, the target is persisted, and only then is the session cleared.   *)
Configure(j, g) ==
  /\ Restored
  /\ job[j].at = "idle"
  /\ job' = [job EXCEPT ![j] = Fresh("configure", "persisting")]
  /\ gateway' = g /\ steady' = FALSE
  /\ UNCHANGED <<accessToken, expired, pendingLogin, stored, world, launches, era, exchanged,
                 straddled>>

Persisted(j) ==
  /\ job[j].at = "persisting"
  /\ Clear(j, "configure")
  /\ UNCHANGED steady

(* The file is unlinked if it was there when the clear began. *)
Unlink(j) == stored' = IF job[j].ok THEN None ELSE stored

(* The clear is over; a configure then reloads the window and its requests. *)
Cleared(j) ==
  /\ job[j].at = "clearing"
  /\ Unlink(j)
  /\ job' = [k \in AllJobs |->
      IF k = j THEN Over
      ELSE IF job[j].kind = "configure" /\ job[k].kind = "request" /\ Active(k)
      THEN IF job[k].at \in {"sent", "resent", "refreshed", "rejected"} THEN Over
           ELSE [job[k] EXCEPT !.kind = "reloaded"]
      ELSE job[k]]
  /\ UNCHANGED <<gateway, accessToken, expired, pendingLogin, world, history>>

-----------------------------------------------------------------------------
(* An access token lives longer than it takes to store its refresh token and *)
(* repeat a request.                                                         *)
Expire ==
  /\ accessToken # None /\ ~expired
  /\ \A j \in AllJobs : job[j].at \notin {"saving", "writing", "refreshed"}
  /\ expired' = TRUE
  /\ UNCHANGED <<gateway, accessToken, pendingLogin, stored, job, world, history>>

(* The application ends, or crashes, and starts again. *)
Relaunch ==
  /\ launches < MaxLaunches /\ launches' = launches + 1
  /\ accessToken' = None /\ pendingLogin' = 0 /\ expired' = FALSE
  /\ stored' = IF stored = Torn THEN None ELSE stored
  /\ job' = [j \in AllJobs |->
              IF j = Boot THEN Fresh("restore", "reading")
              ELSE IF Active(j) THEN Over ELSE job[j]]
  /\ steady' = (steady /\ Alone)
  /\ straddled' = (straddled \/ \E j \in AllJobs : job[j].at = "clearing")
  /\ UNCHANGED <<gateway, world, era, exchanged>>

Step(j) ==
  \/ Answered(j) \/ Unauthorized(j) \/ Resend(j)
  \/ ReadStored(j) \/ Exchanged(j) \/ ExchangeFailed(j)
  \/ SaveBegins(j) \/ Saved(j) \/ SaveFailed(j)
  \/ Rejected(j) \/ Persisted(j) \/ Cleared(j)

Next ==
  \/ StartLogin \/ Expire \/ Relaunch
  \/ \E j \in Jobs :
       \/ Send(j) \/ Logout(j)
       \/ \E g \in Gateways : Configure(j, g)
       \/ \E l \in 1 .. MaxLogins, hasCode \in BOOLEAN : Callback(j, l, hasCode)
  \/ \E j \in AllJobs : Step(j)

Spec == Init /\ [][Next]_vars

-----------------------------------------------------------------------------
Calls ==
  [kind  : {"none", "restore", "callback", "request", "reloaded", "logout", "configure"},
   at    : {"idle", "done", "sent", "resent", "refreshed", "rejected", "reading",
            "persisting", "clearing"} \cup MidExchange,
   token : Sessions \cup {None}, ok : BOOLEAN]

TypeOK ==
  /\ gateway \in Gateways /\ expired \in BOOLEAN /\ era \in Nat
  /\ accessToken \in Sessions \cup {None}
  /\ logins \in Seq([gw : Gateways, era : Nat])
  /\ pendingLogin \in 0 .. Len(logins) /\ Len(logins) <= MaxLogins
  /\ stored \in Sessions \cup {None, Torn}
  /\ exchanged \in Seq((1 .. MaxLogins) \X Nat)
  /\ job \in [AllJobs -> Calls]
  /\ \A j \in AllJobs : job[j].at \in MidExchange => job[j].token \in Sessions

(* The code of a login is exchanged at most once, however often the browser  *)
(* delivers its callback, and never after a clear that followed the login:   *)
(* handleAuthCallback() takes pendingLogin before it awaits anything.        *)
CodesAreExchangedOnce ==
  \A m, n \in 1 .. Len(exchanged) :
    /\ exchanged[m][1] = exchanged[n][1] => m = n
    /\ logins[exchanged[m][1]].era = exchanged[m][2]

(* A clear (logout, refused request, change of connection) that no exchange  *)
(* straddles leaves nothing of the session behind: not in memory, not in     *)
(* storage, not in a login that is still under way (clearStoredAuth()).      *)
ClearedStaysCleared ==
  ~straddled =>
    /\ accessToken # None => accessToken.era = era
    /\ stored \notin {None, Torn} /\ (\A j \in AllJobs : job[j].at # "clearing")
         => stored.era = era

(* A session the user does not end is not lost while everybody answers, with *)
(* and without rotation of refresh tokens, across expiries and restarts,     *)
(* unless jobs overlap: a 401 refreshes before it signs out, and what is     *)
(* stored is what the identity provider honours next.                        *)
SessionSurvives == [][steady' /\ Held => stored' # None]_vars
==============================================================================
