------------------------------ MODULE Terminal ------------------------------
(***************************************************************************)
(* One-shot commands in a container: the terminal drawer of the desktop    *)
(* (renderer/components/TerminalDrawer.tsx, terminal-session.ts), the      *)
(* gateway's exec, ws-ticket and terminal routes (apps/gateway/src/app.ts) *)
(* and the terminal sessions of its HostRegistry.                          *)
(*                                                                         *)
(* A run posts the command, asks for a WebSocket ticket and opens a socket *)
(* over which the gateway sends the output and one exit or error frame.    *)
(* Both ends may close the socket, it may break with frames in flight, and *)
(* each end learns of that in an event of its own.  Resize and keepalive   *)
(* frames, which the drawer never sends, are left out.                     *)
(***************************************************************************)
EXTENDS Naturals, Sequences

CONSTANTS
  MaxRuns,   \* bound: commands started in one life of the drawer
  MaxChunks  \* bound: pieces of output of one command

ASSUME BoundsAssumption == MaxRuns \in Nat \ {0} /\ MaxChunks \in Nat

Runs   == 1..MaxRuns
Frames == {"stdout", "exit", "error"}

VARIABLES
  mounted,  \* the drawer is mounted
  running,  \* its running flag, which disables the Run button
  count,    \* runs started so far
  at,       \* at[k]: how far runCommand() of run k has come
  current,  \* socketRef: the run whose socket was opened last, or 0
  shown,    \* shown[k]: pieces of output of run k displayed
  told,     \* told[k]: the exit or error frame run k has handled
  session,  \* session[k]: status of its TerminalSession at the gateway
  ticket,   \* ticket[k]: its WebSocket ticket
  link,     \* link[k]: the socket as the two ends have left it
  wire,     \* wire[k]: frames on their way to the drawer
  exec,     \* exec[k]: the terminal handler and its Engine stream
  written   \* written[k]: pieces of output the command has produced

drawer  == <<mounted, running, count, at, current, shown, told>>
gateway == <<session, ticket, exec, written>>
network == <<link, wire>>
vars    == <<drawer, gateway, network>>

Init ==
  /\ mounted = TRUE /\ running = FALSE /\ count = 0 /\ current = 0
  /\ at      = [k \in Runs |-> "none"]
  /\ shown   = [k \in Runs |-> 0]
  /\ told    = [k \in Runs |-> "none"]
  /\ session = [k \in Runs |-> "none"]
  /\ ticket  = [k \in Runs |-> "none"]
  /\ link    = [k \in Runs |-> "none"]
  /\ wire    = [k \in Runs |-> <<>>]
  /\ exec    = [k \in Runs |-> "none"]
  /\ written = [k \in Runs |-> 0]

-----------------------------------------------------------------------------
(* The drawer. *)

(* canRunTerminalCommand(): a host that is online, a container and a       *)
(* command are taken as given.                                             *)
RunCommand ==
  /\ mounted /\ ~running /\ count < MaxRuns
  /\ count' = count + 1
  /\ running' = TRUE
  /\ at' = [at EXCEPT ![count + 1] = "posting"]
  /\ UNCHANGED <<mounted, current, shown, told, gateway, network>>

(* createTerminalSession() was answered. *)
SessionReceived(k) ==
  /\ at[k] = "posting" /\ session[k] # "none"
  /\ at' = [at EXCEPT ![k] = "ticketing"]
  /\ UNCHANGED <<mounted, running, count, current, shown, told, gateway, network>>

(* Fault: a failed request leaves the drawer waiting. *)
RequestFailed_Stuck(k) ==
  /\ at[k] \in {"posting", "ticketing", "addressing"}
  /\ at' = [at EXCEPT ![k] = "ended"]
  /\ UNCHANGED <<mounted, running, count, current, shown, told, gateway, network>>

(* A request of the run is refused, times out or finds no gateway: the     *)
(* catch block.  The gateway may have done what it was asked.              *)
RequestFailed(k) ==
  /\ at[k] \in {"posting", "ticketing", "addressing"}
  /\ at' = [at EXCEPT ![k] = "ended"]
  /\ running' = FALSE
  /\ UNCHANGED <<mounted, count, current, shown, told, gateway, network>>

(* The address of the gateway is known: the socket is made and its         *)
(* handlers are set, mounted or not.                                       *)
OpenSocket(k) ==
  /\ at[k] = "addressing"
  /\ at' = [at EXCEPT ![k] = "open"]
  /\ current' = k
  /\ link' = [link EXCEPT ![k] = "dialing"]
  /\ UNCHANGED <<mounted, running, count, shown, told, gateway, wire>>

(* Fault: any frame ends the run. *)
isTerminalFrame_Any(frame) == TRUE

isTerminalFrame(frame) == frame \in {"exit", "error"}

(* onmessage: a closing socket delivers no more frames. *)
OnMessage(k) ==
  LET frame == Head(wire[k])
      ends  == isTerminalFrame(frame)
  IN /\ at[k] = "open" /\ wire[k] # <<>> /\ link[k] \in {"up", "server_closed"}
     /\ shown'   = [shown EXCEPT ![k] = IF frame = "stdout" THEN @ + 1 ELSE @]
     /\ told'    = [told EXCEPT ![k] = IF ends THEN frame ELSE @]
     /\ running' = (running /\ ~ends)
     /\ link'    = [link EXCEPT ![k] = IF ends /\ @ = "up" THEN "client_closed" ELSE @]
     /\ wire'    = [wire EXCEPT ![k] = IF ends THEN <<>> ELSE Tail(@)]
     /\ UNCHANGED <<mounted, count, at, current, gateway>>

(* onclose, after onerror when the socket broke: the flag is cleared,      *)
(* whichever run it stands for by now.                                     *)
OnClose(k) ==
  /\ at[k] = "open"
  /\ \/ link[k] \in {"client_closed", "broken"}
     \/ link[k] = "server_closed" /\ wire[k] = <<>>
  /\ at' = [at EXCEPT ![k] = "ended"]
  /\ running' = FALSE
  /\ wire' = [wire EXCEPT ![k] = <<>>]
  /\ UNCHANGED <<mounted, count, current, shown, told, gateway, link>>

(* The effect's cleanup closes the last socket. *)
Unmount ==
  /\ mounted
  /\ mounted' = FALSE
  /\ link' = [k \in Runs |->
                IF k = current /\ link[k] \in {"dialing", "up"} THEN "client_closed" ELSE link[k]]
  /\ UNCHANGED <<running, count, at, current, shown, told, gateway, wire>>

-----------------------------------------------------------------------------
(* The gateway. *)

(* POST exec: the Engine made the exec; the answer may come too late. *)
CreateSession(k) ==
  /\ at[k] # "none" /\ session[k] = "none"
  /\ session' = [session EXCEPT ![k] = "created"]
  /\ UNCHANGED <<drawer, ticket, exec, written, network>>

(* POST ws-ticket, and its answer. *)
IssueTicket(k) ==
  /\ at[k] = "ticketing"
  /\ ticket' = [ticket EXCEPT ![k] = "fresh"]
  /\ at' = [at EXCEPT ![k] = "addressing"]
  /\ UNCHANGED <<mounted, running, count, current, shown, told, session, exec, written, network>>

(* Sixty seconds pass. *)
TicketExpires(k) ==
  /\ ticket[k] = "fresh"
  /\ ticket' = [ticket EXCEPT ![k] = "expired"]
  /\ UNCHANGED <<drawer, session, exec, written, network>>

(* The socket is refused: the ticket has expired, the host is not granted, *)
(* or the gateway does not know the session.  The ticket is used up.       *)
Refuse(k) ==
  /\ link[k] = "dialing"
  /\ ticket' = [ticket EXCEPT ![k] = "used"]
  /\ link' = [link EXCEPT ![k] = "server_closed"]
  /\ UNCHANGED <<drawer, session, exec, written, wire>>

(* The ticket admits the socket; the session is running before the Engine  *)
(* is asked to start the exec.  The other end may have closed by then.     *)
Accept(k) ==
  /\ link[k] \in {"dialing", "client_closed"} /\ ticket[k] = "fresh"
  /\ ticket'  = [ticket EXCEPT ![k] = "used"]
  /\ session' = [session EXCEPT ![k] = "running"]
  /\ exec'    = [exec EXCEPT ![k] = "starting"]
  /\ link'    = [link EXCEPT ![k] = IF @ = "dialing" THEN "up" ELSE @]
  /\ UNCHANGED <<drawer, written, wire>>

(* Fault: the session becomes running when the Engine has answered. *)
ExecStarted_MarksRunning(k) ==
  /\ exec[k] = "starting"
  /\ exec' = [exec EXCEPT ![k] = "streaming"]
  /\ session' = [session EXCEPT ![k] = "running"]
  /\ UNCHANGED <<drawer, ticket, written, network>>

ExecStarted(k) ==
  /\ exec[k] = "starting"
  /\ exec' = [exec EXCEPT ![k] = "streaming"]
  /\ UNCHANGED <<drawer, session, ticket, written, network>>

(* send(): a frame leaves only through an open socket. *)
Sent(k, frame) == IF link[k] = "up" THEN Append(wire[k], frame) ELSE wire[k]

Chunk(k) ==
  /\ exec[k] = "streaming" /\ written[k] < MaxChunks
  /\ written' = [written EXCEPT ![k] = @ + 1]
  /\ wire' = [wire EXCEPT ![k] = Sent(k, "stdout")]
  /\ UNCHANGED <<drawer, session, ticket, exec, link>>

HandlerEnds(k, frame) ==
  /\ exec'    = [exec EXCEPT ![k] = "done"]
  /\ session' = [session EXCEPT ![k] = "closed"]
  /\ wire'    = [wire EXCEPT ![k] = Sent(k, frame)]
  /\ link'    = [link EXCEPT ![k] = IF @ = "up" THEN "server_closed" ELSE @]
  /\ UNCHANGED <<drawer, ticket, written>>

(* The stream ends with the command. *)
CommandEnds(k) == exec[k] = "streaming" /\ HandlerEnds(k, "exit")

(* The exec cannot be started or its stream breaks. *)
ExecFails(k) == exec[k] \in {"starting", "streaming"} /\ HandlerEnds(k, "error")

(* The gateway's close event; the handler goes on reading the stream.      *)
SocketClosed(k) ==
  /\ link[k] \in {"client_closed", "broken"} /\ exec[k] # "none" /\ session[k] = "running"
  /\ session' = [session EXCEPT ![k] = "closed"]
  /\ UNCHANGED <<drawer, ticket, exec, written, network>>

-----------------------------------------------------------------------------
(* The network: a connection that breaks loses a tail of the frames.       *)
Break(k) ==
  /\ link[k] \in {"dialing", "up", "server_closed"} /\ at[k] = "open"
  /\ link' = [link EXCEPT ![k] = "broken"]
  /\ wire' = [wire EXCEPT ![k] = <<>>]
  /\ UNCHANGED <<drawer, gateway>>

RunStep(k) ==
  \/ SessionReceived(k) \/ RequestFailed(k) \/ OpenSocket(k) \/ OnMessage(k) \/ OnClose(k)
GatewayStep(k) ==
  \/ CreateSession(k) \/ IssueTicket(k) \/ Refuse(k) \/ Accept(k)
  \/ ExecStarted(k) \/ CommandEnds(k) \/ ExecFails(k) \/ SocketClosed(k)

Next ==
  \/ RunCommand \/ Unmount
  \/ \E k \in Runs :
       RunStep(k) \/ GatewayStep(k) \/ TicketExpires(k) \/ Chunk(k) \/ Break(k)

(* Requests time out after fifteen seconds, sockets open or fail, frames   *)
(* arrive, and a command starts and ends, in the end.  The last is an      *)
(* assumption about Engine and command: the exec is a stream and carries   *)
(* no timeout (connectors index.ts:1038).                                  *)
Fairness ==
  \A k \in Runs : /\ WF_vars(RunStep(k))
                  /\ WF_vars(Refuse(k) \/ Accept(k))
                  /\ WF_vars(ExecStarted(k))
                  /\ WF_vars(exec[k] = "streaming" /\ (CommandEnds(k) \/ ExecFails(k)))

Spec == Init /\ [][Next]_vars /\ Fairness

-----------------------------------------------------------------------------
TypeOK ==
  /\ mounted \in BOOLEAN /\ running \in BOOLEAN
  /\ count \in 0..MaxRuns /\ current \in 0..MaxRuns
  /\ at      \in [Runs -> {"none", "posting", "ticketing", "addressing", "open", "ended"}]
  /\ shown   \in [Runs -> 0..MaxChunks] /\ written \in [Runs -> 0..MaxChunks]
  /\ told    \in [Runs -> {"none"} \cup Frames]
  /\ session \in [Runs -> {"none", "created", "running", "closed"}]
  /\ ticket  \in [Runs -> {"none", "fresh", "expired", "used"}]
  /\ link    \in [Runs -> {"none", "dialing", "up", "client_closed", "server_closed", "broken"}]
  /\ exec    \in [Runs -> {"none", "starting", "streaming", "done"}]
  /\ wire    \in [Runs -> Seq(Frames)]

(* A run over a socket that was admitted and did not break has, when it    *)
(* ends in a mounted drawer, been told how the command ended, and after an *)
(* exit frame all the output is on display (TerminalDrawer.tsx:86).        *)
RunsEndTold ==
  \A k \in Runs :
    mounted /\ at[k] = "ended" /\ exec[k] # "none" /\ link[k] # "broken" =>
      /\ told[k] \in {"exit", "error"}
      /\ told[k] = "exit" => shown[k] = written[k]

(* A session that was closed, by the socket or by the end of its command,  *)
(* never counts as running again (host-registry.ts:697, 712).              *)
ClosedStaysClosed ==
  [][\A k \in Runs : session[k] = "closed" => session'[k] = "closed"]_vars

(* The Run button comes back: whatever fails or breaks, the drawer does    *)
(* not stay running, if commands end.                                      *)
DrawerRecovers == running ~> ~running
=============================================================================
