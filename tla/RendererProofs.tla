--------------------------- MODULE RendererProofs ---------------------------
(***************************************************************************)
(* The safety properties of three parts of the renderer: of Terminal for   *)
(* any number of commands and any amount of output, of Screens for any set *)
(* of hosts, any role and any number of requests at once, and of           *)
(* EventStream for any hosts and kinds, any limits of the hub and of the   *)
(* notification centre, and any number of events, breaks and restarts.     *)
(***************************************************************************)
EXTENDS Terminal, Screens, EventStream, FiniteSetTheorems, WellFoundedInduction, TLAPS

-----------------------------------------------------------------------------
(* A set of numbers has a least one, which is what stands in here for      *)
(* induction: of a statement about numbers, the first counterexample.      *)
LEMMA LeastNumber ==
  ASSUME NEW S, S \subseteq Nat, S # {}
  PROVE  \E x \in S : \A y \in S : x <= y
<1> DEFINE Below == {p \in Nat \X Nat : p[1] < p[2]}
<1>1. IsWellFoundedOn(Below, Nat)
  BY NatLessThanWellFounded DEF OpToRel
<1>2. \A y, x : <<y, x>> \in Below <=> y \in Nat /\ x \in Nat /\ y < x
  OBVIOUS
<1> HIDE DEF Below
<1>3. PICK x \in S : \A y \in S : <<y, x>> \notin Below
  BY <1>1, WFMin, Zenon
<1>4. ASSUME NEW y \in S PROVE x <= y
  <2>1. x \in Nat /\ y \in Nat
    OBVIOUS
  <2>2. <<y, x>> \notin Below
    BY <1>3, Zenon
  <2>3. ~ (y < x)
    BY <2>1, <2>2, <1>2, Zenon
  <2> QED
    BY <2>1, <2>3
<1> QED
  BY <1>3, <1>4

-----------------------------------------------------------------------------
(* The terminal drawer. *)

(* A socket belongs to a run that has come as far as opening it, a ticket    *)
(* admits once, and only a drawer that is gone closes a socket early.        *)
InOrder ==
  /\ \A k \in Runs : k > count => at[k] = "none"
  /\ \A k \in Runs :
       /\ link[k] # "none" => at[k] \in {"open", "ended"}
       /\ link[k] \in {"dialing", "up"} => at[k] = "open"
       /\ link[k] \in {"none", "dialing"} => exec[k] = "none"
       /\ mounted => link[k] # "client_closed"
       /\ session[k] \in {"running", "closed"} \/ exec[k] # "none"
            => ticket[k] = "used" /\ at[k] \in {"open", "ended"}

(* Every piece of output is displayed or on the wire, and the frame that     *)
(* ends a run is the last one on the wire or has been handled.               *)
Streaming(k) ==
  /\ link[k] = "up" /\ exec[k] \in {"starting", "streaming"} /\ told[k] = "none"
  /\ \A i \in 1..Len(wire[k]) : wire[k][i] = "stdout"
  /\ shown[k] + Len(wire[k]) = written[k]

Ending(k) ==
  /\ link[k] = "server_closed" /\ exec[k] = "done" /\ told[k] = "none" /\ at[k] = "open"
  /\ Len(wire[k]) > 0 /\ wire[k][Len(wire[k])] \in {"exit", "error"}
  /\ \A i \in 1..Len(wire[k]) : i # Len(wire[k]) => wire[k][i] = "stdout"
  /\ shown[k] + Len(wire[k]) - 1 = written[k]

Told(k) ==
  /\ link[k] = "server_closed" /\ exec[k] = "done" /\ told[k] \in {"exit", "error"}
  /\ wire[k] = <<>> /\ shown[k] = written[k]

NothingIsLost ==
  \A k \in Runs :
    /\ exec[k] = "none" =>
         wire[k] = <<>> /\ shown[k] = 0 /\ written[k] = 0 /\ told[k] = "none"
    /\ exec[k] # "none" /\ link[k] \in {"up", "server_closed"} =>
         Streaming(k) \/ Ending(k) \/ Told(k)

(* The inductive invariant. *)
IInv == TypeOK /\ InOrder /\ NothingIsLost

-----------------------------------------------------------------------------
LEMMA RunsAreNumbers == Runs \subseteq Nat /\ \A k \in Runs : k <= MaxRuns
BY BoundsAssumption DEF Runs

(* What a piece of output or the last frame leaves on the wire.              *)
LEMMA Appended ==
  ASSUME NEW s \in Seq(Frames), NEW f \in Frames
  PROVE  /\ Append(s, f) \in Seq(Frames) /\ Len(Append(s, f)) = Len(s) + 1
         /\ Append(s, f)[Len(s) + 1] = f
         /\ \A i \in 1..Len(s) : Append(s, f)[i] = s[i]
OBVIOUS

LEMMA Taken ==
  ASSUME NEW s \in Seq(Frames), s # <<>>
  PROVE  /\ Head(s) = s[1] /\ Head(s) \in Frames /\ Len(s) \in Nat /\ Len(s) > 0
         /\ Tail(s) \in Seq(Frames) /\ Len(Tail(s)) = Len(s) - 1
         /\ \A i \in 1..(Len(s) - 1) : Tail(s)[i] = s[i + 1]
OBVIOUS

LEMMA TailKeeps ==
  ASSUME NEW s \in Seq(Frames), Len(s) \in Nat,
         \A i \in 1..Len(s) : i # Len(s) => s[i] = "stdout",
         NEW t, Len(t) = Len(s) - 1, \A i \in 1..(Len(s) - 1) : t[i] = s[i + 1]
  PROVE  \A i \in 1..Len(t) : i # Len(t) => t[i] = "stdout"
OBVIOUS

-----------------------------------------------------------------------------
(* Types are preserved.  A piece of output that is displayed was produced.   *)
LEMMA TypeOKStep == IInv /\ [Next]_vars => TypeOK'
<1> SUFFICES ASSUME TypeOK, InOrder, NothingIsLost, [Next]_vars PROVE TypeOK'
  BY DEF IInv
<1>1. ASSUME RunCommand PROVE TypeOK'
  <2>1. count' \in 0..MaxRuns
    BY <1>1, BoundsAssumption DEF RunCommand, TypeOK
  <2> QED
    BY <1>1, <2>1 DEF RunCommand, TypeOK, gateway, network
<1>2. ASSUME Unmount PROVE TypeOK'
  BY <1>2, BoundsAssumption DEF Unmount, TypeOK, drawer, gateway, network
<1>3. ASSUME NEW k \in Runs, SessionReceived(k) PROVE TypeOK'
  BY <1>3, BoundsAssumption DEF SessionReceived, TypeOK, drawer, gateway, network
<1>4. ASSUME NEW k \in Runs, RequestFailed(k) PROVE TypeOK'
  BY <1>4, BoundsAssumption DEF RequestFailed, TypeOK, drawer, gateway, network
<1>5. ASSUME NEW k \in Runs, OpenSocket(k) PROVE TypeOK'
  <2>1. current' \in 0..MaxRuns
    BY <1>5, RunsAreNumbers, BoundsAssumption DEF OpenSocket, Runs
  <2> QED
    BY <1>5, <2>1 DEF OpenSocket, TypeOK, gateway
<1>6. ASSUME NEW k \in Runs, OnMessage(k) PROVE TypeOK'
  <2> DEFINE frame == Head(wire[k])
  <2>1. wire[k] \in Seq(Frames) /\ wire[k] # <<>>
    BY <1>6 DEF OnMessage, TypeOK
  <2>2. frame \in Frames /\ frame = wire[k][1] /\ Tail(wire[k]) \in Seq(Frames) /\ Len(wire[k]) \in Nat
        /\ Len(wire[k]) > 0
    BY <2>1, Taken
  <2>3. frame = "stdout" => shown[k] + 1 \in 0..MaxChunks
    <3>1. Streaming(k) \/ Ending(k)
      BY <1>6, <2>1 DEF OnMessage, NothingIsLost, Told
    <3>2. shown[k] \in Nat /\ written[k] \in Nat /\ written[k] <= MaxChunks
      BY BoundsAssumption DEF TypeOK
    <3>3. frame = "stdout" => shown[k] + 1 <= written[k]
      <4>1. CASE Streaming(k)
        BY <4>1, <3>2, <2>2 DEF Streaming
      <4>2. CASE Ending(k)
        <5>1. frame = "stdout" => Len(wire[k]) # 1
          BY <4>2, <2>2 DEF Ending
        <5> QED
          BY <4>2, <5>1, <3>2, <2>2 DEF Ending
      <4> QED
        BY <3>1, <4>1, <4>2
    <3> QED
      BY <3>2, <3>3, BoundsAssumption
  <2>4. shown' \in [Runs -> 0..MaxChunks]
    BY <1>6, <2>3 DEF OnMessage, TypeOK
  <2>5. wire' \in [Runs -> Seq(Frames)]
    <3>1. <<>> \in Seq(Frames)
      OBVIOUS
    <3> QED
      BY <1>6, <2>2, <3>1 DEF OnMessage, TypeOK
  <2>6. told' \in [Runs -> {"none"} \cup Frames]
    BY <1>6, <2>2 DEF OnMessage, TypeOK
  <2> QED
    BY <1>6, <2>4, <2>5, <2>6 DEF OnMessage, TypeOK, gateway
<1>7. ASSUME NEW k \in Runs, OnClose(k) PROVE TypeOK'
  <2>1. <<>> \in Seq(Frames)
    OBVIOUS
  <2> QED
    BY <1>7, <2>1 DEF OnClose, TypeOK, gateway
<1>8. ASSUME NEW k \in Runs, CreateSession(k) PROVE TypeOK'
  BY <1>8, BoundsAssumption DEF CreateSession, TypeOK, drawer, gateway, network
<1>9. ASSUME NEW k \in Runs, IssueTicket(k) PROVE TypeOK'
  BY <1>9, BoundsAssumption DEF IssueTicket, TypeOK, drawer, gateway, network
<1>10. ASSUME NEW k \in Runs, Refuse(k) PROVE TypeOK'
  BY <1>10, BoundsAssumption DEF Refuse, TypeOK, drawer, gateway, network
<1>11. ASSUME NEW k \in Runs, Accept(k) PROVE TypeOK'
  BY <1>11, BoundsAssumption DEF Accept, TypeOK, drawer, gateway, network
<1>12. ASSUME NEW k \in Runs, ExecStarted(k) PROVE TypeOK'
  BY <1>12, BoundsAssumption DEF ExecStarted, TypeOK, drawer, gateway, network
<1>13. ASSUME NEW k \in Runs, CommandEnds(k) PROVE TypeOK'
  <2>1. Sent(k, "exit") \in Seq(Frames)
    BY Appended DEF Sent, TypeOK, Frames
  <2> QED
    BY <1>13, <2>1 DEF CommandEnds, HandlerEnds, TypeOK, drawer
<1>14. ASSUME NEW k \in Runs, ExecFails(k) PROVE TypeOK'
  <2>1. Sent(k, "error") \in Seq(Frames)
    BY Appended DEF Sent, TypeOK, Frames
  <2> QED
    BY <1>14, <2>1 DEF ExecFails, HandlerEnds, TypeOK, drawer
<1>15. ASSUME NEW k \in Runs, SocketClosed(k) PROVE TypeOK'
  BY <1>15, BoundsAssumption DEF SocketClosed, TypeOK, drawer, gateway, network
<1>16. ASSUME NEW k \in Runs, TicketExpires(k) PROVE TypeOK'
  BY <1>16, BoundsAssumption DEF TicketExpires, TypeOK, drawer, gateway, network
<1>17. ASSUME NEW k \in Runs, Chunk(k) PROVE TypeOK'
  <2>1. Sent(k, "stdout") \in Seq(Frames)
    BY Appended DEF Sent, TypeOK, Frames
  <2>2. written' \in [Runs -> 0..MaxChunks]
    BY <1>17, BoundsAssumption DEF Chunk, TypeOK
  <2> QED
    BY <1>17, <2>1, <2>2 DEF Chunk, TypeOK, drawer
<1>18. ASSUME NEW k \in Runs, Break(k) PROVE TypeOK'
  BY <1>18, BoundsAssumption DEF Break, TypeOK, drawer, gateway, network
<1>19. ASSUME UNCHANGED vars PROVE TypeOK'
  BY <1>19 DEF TypeOK, drawer, gateway, network, vars
<1> QED
  BY <1>1, <1>2, <1>3, <1>4, <1>5, <1>6, <1>7, <1>8, <1>9, <1>10, <1>11, <1>12, <1>13, <1>14, <1>15, <1>16, <1>17, <1>18, <1>19 DEF Next, RunStep, GatewayStep

LEMMA InOrderStep == IInv /\ [Next]_vars => InOrder'
<1> SUFFICES ASSUME TypeOK, InOrder, NothingIsLost, [Next]_vars PROVE InOrder'
  BY DEF IInv
<1>1. ASSUME RunCommand PROVE InOrder'
  BY <1>1, RunsAreNumbers DEF RunCommand, InOrder, TypeOK, drawer, gateway, network
<1>2. ASSUME Unmount PROVE InOrder'
  BY <1>2, RunsAreNumbers DEF Unmount, InOrder, TypeOK, drawer, gateway, network
<1>3. ASSUME NEW k \in Runs, SessionReceived(k) PROVE InOrder'
  BY <1>3, RunsAreNumbers DEF SessionReceived, InOrder, TypeOK, drawer, gateway, network
<1>4. ASSUME NEW k \in Runs, RequestFailed(k) PROVE InOrder'
  BY <1>4, RunsAreNumbers DEF RequestFailed, InOrder, TypeOK, drawer, gateway, network
<1>5. ASSUME NEW k \in Runs, OpenSocket(k) PROVE InOrder'
  BY <1>5, RunsAreNumbers DEF OpenSocket, InOrder, TypeOK, drawer, gateway, network
<1>6. ASSUME NEW k \in Runs, OnMessage(k) PROVE InOrder'
  <2>1. link' = link
    <3>1. link[k] = "up" => Head(wire[k]) = "stdout"
      <4> SUFFICES ASSUME link[k] = "up" PROVE Head(wire[k]) = "stdout"
        OBVIOUS
      <4>1. wire[k] \in Seq(Frames) /\ wire[k] # <<>>
        BY <1>6 DEF OnMessage, TypeOK
      <4>2. Streaming(k)
        BY <4>1 DEF NothingIsLost, Ending, Told
      <4>3. Head(wire[k]) = wire[k][1] /\ Len(wire[k]) \in Nat /\ Len(wire[k]) > 0
        BY <4>1, Taken
      <4> QED
        BY <4>2, <4>3 DEF Streaming
    <3> QED
      BY <1>6, <3>1 DEF OnMessage, isTerminalFrame, TypeOK
  <2> QED
    BY <1>6, <2>1 DEF OnMessage, InOrder, gateway
<1>7. ASSUME NEW k \in Runs, OnClose(k) PROVE InOrder'
  BY <1>7, RunsAreNumbers DEF OnClose, InOrder, TypeOK, drawer, gateway, network
<1>8. ASSUME NEW k \in Runs, CreateSession(k) PROVE InOrder'
  BY <1>8, RunsAreNumbers DEF CreateSession, InOrder, TypeOK, drawer, gateway, network
<1>9. ASSUME NEW k \in Runs, IssueTicket(k) PROVE InOrder'
  BY <1>9, RunsAreNumbers DEF IssueTicket, InOrder, TypeOK, drawer, gateway, network
<1>10. ASSUME NEW k \in Runs, Refuse(k) PROVE InOrder'
  BY <1>10, RunsAreNumbers DEF Refuse, InOrder, TypeOK, drawer, gateway, network
<1>11. ASSUME NEW k \in Runs, Accept(k) PROVE InOrder'
  BY <1>11, RunsAreNumbers DEF Accept, InOrder, TypeOK, drawer, gateway, network
<1>12. ASSUME NEW k \in Runs, ExecStarted(k) PROVE InOrder'
  BY <1>12, RunsAreNumbers DEF ExecStarted, InOrder, TypeOK, drawer, gateway, network
<1>13. ASSUME NEW k \in Runs, CommandEnds(k) PROVE InOrder'
  BY <1>13, RunsAreNumbers DEF CommandEnds, InOrder, TypeOK, drawer, gateway, network, HandlerEnds, Sent
<1>14. ASSUME NEW k \in Runs, ExecFails(k) PROVE InOrder'
  BY <1>14, RunsAreNumbers DEF ExecFails, InOrder, TypeOK, drawer, gateway, network, HandlerEnds, Sent
<1>15. ASSUME NEW k \in Runs, SocketClosed(k) PROVE InOrder'
  BY <1>15, RunsAreNumbers DEF SocketClosed, InOrder, TypeOK, drawer, gateway, network
<1>16. ASSUME NEW k \in Runs, TicketExpires(k) PROVE InOrder'
  BY <1>16, RunsAreNumbers DEF TicketExpires, InOrder, TypeOK, drawer, gateway, network
<1>17. ASSUME NEW k \in Runs, Chunk(k) PROVE InOrder'
  BY <1>17, RunsAreNumbers DEF Chunk, InOrder, TypeOK, drawer, gateway, network, Sent
<1>18. ASSUME NEW k \in Runs, Break(k) PROVE InOrder'
  BY <1>18, RunsAreNumbers DEF Break, InOrder, TypeOK, drawer, gateway, network
<1>19. ASSUME UNCHANGED vars PROVE InOrder'
  BY <1>19 DEF InOrder, TypeOK, drawer, gateway, network, vars
<1> QED
  BY <1>1, <1>2, <1>3, <1>4, <1>5, <1>6, <1>7, <1>8, <1>9, <1>10, <1>11, <1>12, <1>13, <1>14, <1>15, <1>16, <1>17, <1>18, <1>19 DEF Next, RunStep, GatewayStep

LEMMA NothingIsLostStep == IInv /\ [Next]_vars => NothingIsLost'
<1> SUFFICES ASSUME TypeOK, InOrder, NothingIsLost, [Next]_vars PROVE NothingIsLost'
  BY DEF IInv
<1>1. ASSUME RunCommand PROVE NothingIsLost'
  <2>1. \A k \in Runs : at[k] = "open" => at'[k] = "open"
    BY <1>1, RunsAreNumbers DEF RunCommand, InOrder, TypeOK
  <2> QED
    BY <1>1, <2>1 DEF RunCommand, NothingIsLost, Streaming, Ending, Told, gateway, network
<1>2. ASSUME Unmount PROVE NothingIsLost'
  BY <1>2 DEF Unmount, NothingIsLost, Streaming, Ending, Told, InOrder, TypeOK, drawer, gateway, network
<1>3. ASSUME NEW k \in Runs, SessionReceived(k) PROVE NothingIsLost'
  BY <1>3 DEF SessionReceived, NothingIsLost, Streaming, Ending, Told, InOrder, TypeOK, drawer, gateway, network
<1>4. ASSUME NEW k \in Runs, RequestFailed(k) PROVE NothingIsLost'
  BY <1>4 DEF RequestFailed, NothingIsLost, Streaming, Ending, Told, InOrder, TypeOK, drawer, gateway, network
<1>5. ASSUME NEW k \in Runs, OpenSocket(k) PROVE NothingIsLost'
  BY <1>5 DEF OpenSocket, NothingIsLost, Streaming, Ending, Told, InOrder, TypeOK, drawer, gateway, network
<1>6. ASSUME NEW k \in Runs, OnMessage(k) PROVE NothingIsLost'
  <2> DEFINE w == wire[k]
  <2>1. w \in Seq(Frames) /\ w # <<>> /\ shown[k] \in Nat /\ written[k] \in Nat /\ k \in Runs
    BY <1>6, BoundsAssumption DEF OnMessage, TypeOK
  <2>2. /\ Head(w) = w[1] /\ Head(w) \in Frames /\ Len(w) \in Nat /\ Len(w) > 0
        /\ Tail(w) \in Seq(Frames) /\ Len(Tail(w)) = Len(w) - 1
        /\ \A i \in 1..(Len(w) - 1) : Tail(w)[i] = w[i + 1]
    BY <2>1, Taken
  <2>3. Streaming(k) \/ Ending(k)
    BY <1>6 DEF OnMessage, NothingIsLost, Told
  <2>4. exec[k] # "none" /\ link[k] # "none"
    BY <1>6 DEF OnMessage, NothingIsLost
  <2>5. \A j \in Runs \ {k} :
          /\ shown'[j] = shown[j] /\ told'[j] = told[j] /\ link'[j] = link[j]
          /\ wire'[j] = wire[j]
    BY <1>6 DEF OnMessage, TypeOK
  <2>6. UNCHANGED <<at, exec, written>>
    BY <1>6 DEF OnMessage, gateway
  <2>7. ASSUME Streaming(k) PROVE Streaming(k)'
    <3>1. Head(w) = "stdout"
      BY <2>7, <2>2 DEF Streaming
    <3>2. /\ wire'[k] = Tail(w) /\ shown'[k] = shown[k] + 1 /\ told'[k] = told[k]
          /\ link'[k] = link[k]
      BY <1>6, <3>1 DEF OnMessage, isTerminalFrame, TypeOK
    <3> QED
      BY <3>2, <2>1, <2>2, <2>6, <2>7 DEF Streaming
  <2>8. ASSUME Ending(k), Head(w) = "stdout" PROVE Ending(k)'
    <3>1. /\ wire'[k] = Tail(w) /\ shown'[k] = shown[k] + 1 /\ told'[k] = told[k]
          /\ link'[k] = link[k]
      BY <1>6, <2>8 DEF OnMessage, isTerminalFrame, TypeOK
    <3>2. Len(w) > 1
      BY <2>2, <2>8 DEF Ending
    <3> QED
      <4>1. \A i \in 1..Len(w) : i # Len(w) => w[i] = "stdout"
        BY <2>8 DEF Ending
      <4>2. Len(wire'[k]) = Len(w) - 1 /\ \A i \in 1..(Len(w) - 1) : wire'[k][i] = w[i + 1]
        BY <3>1, <2>2
      <4>3. \A i \in 1..Len(wire'[k]) : i # Len(wire'[k]) => wire'[k][i] = "stdout"
        BY <4>1, <4>2, <2>1, <2>2, TailKeeps
      <4>4. wire'[k][Len(wire'[k])] \in {"exit", "error"} /\ Len(wire'[k]) > 0
        BY <4>2, <3>2, <2>2, <2>8 DEF Ending
      <4>5. shown'[k] + Len(wire'[k]) - 1 = written'[k]
        BY <4>2, <3>1, <2>1, <2>2, <2>6, <2>8 DEF Ending
      <4> QED
        BY <3>1, <4>3, <4>4, <4>5, <2>6, <2>8 DEF Ending
  <2>9. ASSUME Ending(k), Head(w) # "stdout" PROVE Told(k)'
    <3>1. Len(w) = 1 /\ Head(w) \in {"exit", "error"}
      <4>1. Len(w) # 1 => w[1] = "stdout"
        <5>1. \A i \in 1..Len(w) : i # Len(w) => w[i] = "stdout"
          BY <2>9 DEF Ending
        <5>2. 1 \in 1..Len(w)
          BY <2>2
        <5> QED
          BY <5>1, <5>2
      <4>2. Len(w) = 1
        BY <4>1, <2>2, <2>9
      <4>3. w[Len(w)] \in {"exit", "error"}
        BY <2>9 DEF Ending
      <4> QED
        BY <4>2, <4>3, <2>2
    <3>2. /\ wire'[k] = <<>> /\ shown'[k] = shown[k] /\ told'[k] = Head(w)
          /\ link'[k] = link[k]
      BY <1>6, <3>1, <2>9 DEF OnMessage, isTerminalFrame, TypeOK, Ending
    <3> QED
      BY <3>1, <3>2, <2>1, <2>6, <2>9 DEF Ending, Told
  <2>10. Streaming(k)' \/ Ending(k)' \/ Told(k)'
    BY <2>3, <2>7, <2>8, <2>9
  <2> QED
    BY <2>4, <2>5, <2>6, <2>10 DEF NothingIsLost, Streaming, Ending, Told
<1>7. ASSUME NEW k \in Runs, OnClose(k) PROVE NothingIsLost'
  BY <1>7 DEF OnClose, NothingIsLost, Streaming, Ending, Told, InOrder, TypeOK, drawer, gateway, network
<1>8. ASSUME NEW k \in Runs, CreateSession(k) PROVE NothingIsLost'
  BY <1>8 DEF CreateSession, NothingIsLost, Streaming, Ending, Told, InOrder, TypeOK, drawer, gateway, network
<1>9. ASSUME NEW k \in Runs, IssueTicket(k) PROVE NothingIsLost'
  BY <1>9 DEF IssueTicket, NothingIsLost, Streaming, Ending, Told, InOrder, TypeOK, drawer, gateway, network
<1>10. ASSUME NEW k \in Runs, Refuse(k) PROVE NothingIsLost'
  BY <1>10 DEF Refuse, NothingIsLost, Streaming, Ending, Told, InOrder, TypeOK, drawer, gateway, network
<1>11. ASSUME NEW k \in Runs, Accept(k) PROVE NothingIsLost'
  BY <1>11 DEF Accept, NothingIsLost, Streaming, Ending, Told, InOrder, TypeOK, drawer, gateway, network
<1>12. ASSUME NEW k \in Runs, ExecStarted(k) PROVE NothingIsLost'
  BY <1>12 DEF ExecStarted, NothingIsLost, Streaming, Ending, Told, InOrder, TypeOK, drawer, gateway, network
<1>13. ASSUME NEW k \in Runs, CommandEnds(k) PROVE NothingIsLost'
  BY <1>13 DEF CommandEnds, NothingIsLost, Streaming, Ending, Told, InOrder, TypeOK, drawer, gateway, network, HandlerEnds, Sent
<1>14. ASSUME NEW k \in Runs, ExecFails(k) PROVE NothingIsLost'
  BY <1>14 DEF ExecFails, NothingIsLost, Streaming, Ending, Told, InOrder, TypeOK, drawer, gateway, network, HandlerEnds, Sent
<1>15. ASSUME NEW k \in Runs, SocketClosed(k) PROVE NothingIsLost'
  BY <1>15 DEF SocketClosed, NothingIsLost, Streaming, Ending, Told, InOrder, TypeOK, drawer, gateway, network
<1>16. ASSUME NEW k \in Runs, TicketExpires(k) PROVE NothingIsLost'
  BY <1>16 DEF TicketExpires, NothingIsLost, Streaming, Ending, Told, InOrder, TypeOK, drawer, gateway, network
<1>17. ASSUME NEW k \in Runs, Chunk(k) PROVE NothingIsLost'
  BY <1>17 DEF Chunk, NothingIsLost, Streaming, Ending, Told, InOrder, TypeOK, drawer, gateway, network, Sent
<1>18. ASSUME NEW k \in Runs, Break(k) PROVE NothingIsLost'
  BY <1>18 DEF Break, NothingIsLost, Streaming, Ending, Told, InOrder, TypeOK, drawer, gateway, network
<1>19. ASSUME UNCHANGED vars PROVE NothingIsLost'
  BY <1>19 DEF NothingIsLost, Streaming, Ending, Told, InOrder, TypeOK, drawer, gateway, network, vars
<1> QED
  BY <1>1, <1>2, <1>3, <1>4, <1>5, <1>6, <1>7, <1>8, <1>9, <1>10, <1>11, <1>12, <1>13, <1>14, <1>15, <1>16, <1>17, <1>18, <1>19 DEF Next, RunStep, GatewayStep

LEMMA IInvInit == Init => IInv
<1> SUFFICES ASSUME Init PROVE IInv
  OBVIOUS
<1>1. 0 \in 0..MaxRuns /\ 0 \in 0..MaxChunks /\ <<>> \in Seq(Frames)
  BY BoundsAssumption
<1>2. TypeOK
  BY <1>1 DEF Init, TypeOK
<1>3. InOrder /\ NothingIsLost
  BY DEF Init, InOrder, NothingIsLost
<1> QED
  BY <1>2, <1>3 DEF IInv

LEMMA IInvInvariant == Spec => []IInv
<1>1. IInv /\ [Next]_vars => IInv'
  BY TypeOKStep, InOrderStep, NothingIsLostStep DEF IInv
<1> QED
  BY <1>1, IInvInit, PTL DEF Spec

(* The variables of the drawer, the gateway and the sockets have their types. *)
THEOREM TypeCorrect == Spec => []TypeOK
BY IInvInvariant, PTL DEF IInv

(* A run whose socket was admitted and did not break has been told how its   *)
(* command ended, all its output displayed (TerminalDrawer.tsx:86).          *)
THEOREM RunsAreTold == Spec => []RunsEndTold
<1>1. IInv => RunsEndTold
  BY DEF IInv, RunsEndTold, TypeOK, InOrder, NothingIsLost, Streaming, Ending, Told
<1> QED
  BY <1>1, IInvInvariant, PTL

(* A terminal session that was closed never counts as running again: its     *)
(* ticket is used up (host-registry.ts:697, 712).                            *)
THEOREM ClosedSessionsStayClosed == Spec => ClosedStaysClosed
<1>1. ASSUME IInv, [Next]_vars
      PROVE  [\A k \in Runs : session[k] = "closed" => session'[k] = "closed"]_vars
  <2> DEFINE Stays == \A k \in Runs : session[k] = "closed" => session'[k] = "closed"
  <2>1. ASSUME NEW k \in Runs, Accept(k) PROVE Stays
    BY <1>1, <2>1 DEF Accept, IInv, InOrder, TypeOK
  <2>2. ASSUME NEW k \in Runs,
               CreateSession(k) \/ CommandEnds(k) \/ ExecFails(k) \/ SocketClosed(k)
        PROVE  Stays
    BY <1>1, <2>2
       DEF CreateSession, CommandEnds, ExecFails, HandlerEnds, SocketClosed, IInv, TypeOK
  <2>3. ASSUME RunCommand \/ Unmount \/ (\E k \in Runs :
                 RunStep(k) \/ IssueTicket(k) \/ Refuse(k) \/ ExecStarted(k)
                 \/ TicketExpires(k) \/ Chunk(k) \/ Break(k))
        PROVE  UNCHANGED session
    BY <2>3 DEF RunCommand, Unmount, RunStep, SessionReceived, RequestFailed, OpenSocket,
       OnMessage, OnClose, IssueTicket, Refuse, ExecStarted, TicketExpires, Chunk, Break,
       drawer, gateway
  <2> QED
    BY <1>1, <2>1, <2>2, <2>3 DEF Next, GatewayStep
<1> QED
  BY <1>1, IInvInvariant, PTL DEF Spec, ClosedStaysClosed

-----------------------------------------------------------------------------
(* The window. *)

(* The first of a set of hosts. *)
LEMMA FirstHost ==
  ASSUME NEW S, S \subseteq Nat, S # {}
  PROVE  Min(S) \in S
BY LeastNumber DEF Min

(* Every command acts in one of three ways, invalidates at least the lists *)
(* it changes, and closes a locked dialog only after it was answered.      *)
Shaped(d) ==
  /\ d.acts \in {"selected", "row", "never"}
  /\ d.changes \subseteq d.hook.lists
  /\ d.dialog = "locked" => d.ends # "submit"

LEMMA CommandsShaped == \A c \in Commands : Shaped(Command[c])
<1>1. \A c \in Commands :
        Command[c] \in {RunContainer, ContainerAction, ContainerMenu, DeleteContainer,
                        PruneContainers, PullImage, DeleteImage, PruneImages, CreateVolume,
                        DeleteVolume, PruneVolumes, CreateNetwork, DeleteNetwork,
                        AttachNetwork, DetachNetwork, PruneNetworks, BuildImage, HubPull,
                        ScanImage, ApplyLowRisk, ConfirmedApply, AddHost, TestHost,
                        RemoveHost, RegisterCluster, RemoveCluster, TestCluster,
                        InstallExtension, UninstallExtension, ConnectDialog,
                        ConfigureOrClear, Reconnect}
  BY DEF Commands, Command
<1>2. /\ Shaped(RunContainer) /\ Shaped(ContainerAction) /\ Shaped(ContainerMenu)
      /\ Shaped(DeleteContainer) /\ Shaped(PruneContainers)
  BY DEF Shaped, RunContainer, ContainerAction, ContainerMenu, DeleteContainer,
     PruneContainers, Form, Deletion, Prune, Hook, useCreateContainer, useContainerAction,
     useDeleteContainer, usePruneResources
<1>3. /\ Shaped(PullImage) /\ Shaped(DeleteImage) /\ Shaped(PruneImages)
      /\ Shaped(BuildImage) /\ Shaped(HubPull) /\ Shaped(ScanImage)
  BY DEF Shaped, PullImage, DeleteImage, PruneImages, BuildImage, HubPull, ScanImage, Form,
     Deletion, Prune, Pull, Hook, usePullImage, useDeleteImage, usePruneResources,
     useBuildImage, useScanImage
<1>4. /\ Shaped(CreateVolume) /\ Shaped(DeleteVolume) /\ Shaped(PruneVolumes)
      /\ Shaped(CreateNetwork) /\ Shaped(DeleteNetwork) /\ Shaped(AttachNetwork)
      /\ Shaped(DetachNetwork) /\ Shaped(PruneNetworks)
  BY DEF Shaped, CreateVolume, DeleteVolume, PruneVolumes, CreateNetwork, DeleteNetwork,
     AttachNetwork, DetachNetwork, PruneNetworks, Form, Deletion, Prune, Hook,
     useCreateVolume, useDeleteVolume, useCreateNetwork, useDeleteNetwork,
     useNetworkConnect, useNetworkDisconnect, usePruneResources
<1>5. Shaped(ApplyLowRisk) /\ Shaped(ConfirmedApply)
  BY DEF Shaped, ApplyLowRisk, ConfirmedApply, Assistant, Deletion, Form, Plain,
     useAssistantApply
<1>6. Shaped(AddHost) /\ Shaped(TestHost) /\ Shaped(RemoveHost)
  BY DEF Shaped, AddHost, TestHost, RemoveHost, Deletion, Form, Plain, useAddHost,
     useTestHost, useRemoveHost
<1>7. /\ Shaped(RegisterCluster) /\ Shaped(RemoveCluster) /\ Shaped(TestCluster)
      /\ Shaped(InstallExtension) /\ Shaped(UninstallExtension)
  BY DEF Shaped, RegisterCluster, RemoveCluster, TestCluster, InstallExtension,
     UninstallExtension, Registration, Form, Plain, useRegisterK8sCluster,
     useRemoveK8sCluster, useTestK8sCluster, useInstallExtension, useUninstallExtension
<1>8. Shaped(ConnectDialog) /\ Shaped(ConfigureOrClear) /\ Shaped(Reconnect)
  BY DEF Shaped, ConnectDialog, ConfigureOrClear, Reconnect, Form, Plain, bridgeConnection
<1> QED
  BY <1>1, <1>2, <1>3, <1>4, <1>5, <1>6, <1>7, <1>8

(* What the screens offer: the commands a host is added and tested with    *)
(* are on a screen where nothing acts on the selected host.                *)
LEMMA ScreensOffer ==
  /\ \A r \in DOMAIN Routes : Routes[r].offers \subseteq Commands
  /\ \A r \in DOMAIN Routes :
       "TestHost" \in Routes[r].offers \/ "AddHost" \in Routes[r].offers => r = "hosts"
  /\ \A c \in Routes["hosts"].offers : c \in Commands /\ Command[c].acts # "selected"
  /\ Routes["builds"].offers = {"BuildImage"} /\ Routes["security"].offers = {"ScanImage"}
  /\ "containers" \in DOMAIN Routes
<1>1. \A r \in DOMAIN Routes : Routes[r].offers \subseteq Commands
  BY DEF Routes, Screen, Commands, Command, DashboardScreen, ContainersScreen, ImagesView,
     VolumesView, NetworksView, BuildsScreen, HubScreen, SecurityScreen, AssistantScreen,
     HostsScreen, KubernetesScreen, ExtensionsScreen, SettingsScreen, TroubleshootScreen
<1>2. \A r \in DOMAIN Routes :
        "TestHost" \in Routes[r].offers \/ "AddHost" \in Routes[r].offers => r = "hosts"
  BY DEF Routes, Screen, DashboardScreen, ContainersScreen, ImagesView, VolumesView,
     NetworksView, BuildsScreen, HubScreen, SecurityScreen, AssistantScreen, HostsScreen,
     KubernetesScreen, ExtensionsScreen, SettingsScreen, TroubleshootScreen
<1>3. /\ Routes["hosts"].offers = {"AddHost", "TestHost", "RemoveHost", "ConnectDialog"}
      /\ Routes["builds"].offers = {"BuildImage"} /\ Routes["security"].offers = {"ScanImage"}
      /\ "containers" \in DOMAIN Routes /\ "hosts" \in DOMAIN Routes
  BY DEF Routes, Screen, HostsScreen, BuildsScreen, SecurityScreen
<1>4. /\ Command["AddHost"] = AddHost /\ Command["TestHost"] = TestHost
      /\ Command["RemoveHost"] = RemoveHost /\ Command["ConnectDialog"] = ConnectDialog
  BY DEF Command
<1>5. /\ AddHost.acts # "selected" /\ TestHost.acts # "selected"
      /\ RemoveHost.acts # "selected" /\ ConnectDialog.acts # "selected"
  BY DEF AddHost, TestHost, RemoveHost, ConnectDialog, Form, Deletion
<1> QED
  BY <1>1, <1>2, <1>3, <1>4, <1>5

(* An image build closes its dialog by hand and locks it until then; a     *)
(* scan dialog is closed by hand only.                                     *)
LEMMA BuildAndScan ==
  /\ Command["BuildImage"].dialog = "locked"
  /\ Command["ScanImage"].dialog = "open" /\ Command["ScanImage"].ends = "user"
<1>1. Command["BuildImage"] = BuildImage /\ Command["ScanImage"] = ScanImage
  BY DEF Command
<1> QED
  BY <1>1 DEF BuildImage, ScanImage, Form, Deletion

-----------------------------------------------------------------------------
(* What a step does to the requests: none changes its command or the host  *)
(* it was sent to, and none is observed or waited for again.               *)
FlightsTyped == flights \in [Slots -> Flight \cup {None}]

Fades(f, g) ==
  /\ f # None
  /\ g.cmd = f.cmd /\ g.host = f.host /\ g.origin = f.origin
  /\ g.current => f.current
  /\ g.waiting => f.waiting
AllFade == \A i \in Slots : flights'[i] # None => Fades(flights[i], flights'[i])

LEMMA KeptOrGone ==
  ASSUME NEW f \in Flight \cup {None}
  PROVE  /\ Kept(f) \in {f, None}
         /\ f # None /\ f.waiting => Kept(f) = f
  BY DEF Kept

LEMMA UnobservedFades ==
  ASSUME NEW f \in Flight \cup {None}
  PROVE  /\ Unobserved(f) \in Flight \cup {None}
         /\ Unobserved(f) # None => Fades(f, Unobserved(f)) /\ ~Unobserved(f).current
<1>1. CASE f = None
  BY <1>1 DEF Unobserved
<1>2. CASE f # None
  <2> DEFINE g == [f EXCEPT !.current = FALSE, !.followed = FALSE]
  <2>1. /\ g \in Flight /\ ~g.current
        /\ g.cmd = f.cmd /\ g.host = f.host /\ g.origin = f.origin /\ g.waiting = f.waiting
    BY <1>2 DEF Flight
  <2>2. Unobserved(f) = Kept(g)
    BY <1>2 DEF Unobserved
  <2> HIDE DEF g
  <2>3. Unobserved(f) \in {g, None}
    BY <2>1, <2>2, KeptOrGone
  <2> QED
    BY <1>2, <2>1, <2>3 DEF Fades
<1> QED
  BY <1>1, <1>2

LEMMA LeaveFades ==
  ASSUME FlightsTyped, Leave
  PROVE  /\ FlightsTyped' /\ AllFade /\ dialog' = None
         /\ \A i \in Slots : flights'[i] # None => ~flights'[i].current
  BY UnobservedFades DEF Leave, FlightsTyped, AllFade

LEMMA UpdateFades ==
  ASSUME FlightsTyped, NEW i \in Slots, NEW f \in Flight, Update(i, f), Fades(flights[i], f)
  PROVE  FlightsTyped' /\ AllFade
<1>1. Kept(f) \in {f, None}
  BY KeptOrGone
<1>2. flights' = [flights EXCEPT ![i] = Kept(f)]
  BY DEF Update
<1>3. FlightsTyped'
  BY <1>1, <1>2 DEF FlightsTyped
<1>4. ASSUME NEW j \in Slots, flights'[j] # None PROVE Fades(flights[j], flights'[j])
  <2>1. CASE j = i
    BY <1>1, <1>2, <1>4, <2>1 DEF FlightsTyped
  <2>2. CASE j # i
    BY <1>2, <1>4, <2>2 DEF FlightsTyped, Fades
  <2> QED
    BY <2>1, <2>2
<1> QED
  BY <1>3, <1>4 DEF AllFade

(* A request that is sent takes a free slot, and earlier ones of its hook  *)
(* are observed no longer.                                                 *)
Launches(c, origin, i) ==
  /\ flights[i] = None /\ flights'[i] = Request(c, origin)
  /\ \A j \in Slots \ {i} : flights'[j] # None =>
       /\ Fades(flights[j], flights'[j])
       /\ flights'[j].current => Command[flights[j].cmd].hook # Command[c].hook

LEMMA SendLaunches ==
  ASSUME FlightsTyped, selected \in Hosts \cup {None},
         NEW c \in Commands, NEW origin \in Hosts \cup {None}, Send(c, origin)
  PROVE  FlightsTyped' /\ \E i \in Slots : Launches(c, origin, i)
<1>1. PICK i \in Slots \ Busy :
        flights' = [j \in Slots |->
          IF j = i THEN Request(c, origin)
          ELSE IF flights[j] # None /\ Command[flights[j].cmd].hook = Command[c].hook
               THEN Unobserved(flights[j]) ELSE flights[j]]
  BY DEF Send
<1>2. Request(c, origin) \in Flight
  BY DEF Request, Flight
<1>3. flights[i] = None /\ flights'[i] = Request(c, origin)
  BY <1>1 DEF Busy, Flying
<1>4. ASSUME NEW j \in Slots \ {i}
      PROVE  /\ flights'[j] \in Flight \cup {None}
             /\ flights'[j] # None =>
                  /\ Fades(flights[j], flights'[j])
                  /\ flights'[j].current => Command[flights[j].cmd].hook # Command[c].hook
  <2>1. flights[j] \in Flight \cup {None}
    BY DEF FlightsTyped
  <2>2. CASE flights[j] # None /\ Command[flights[j].cmd].hook = Command[c].hook
    <3>1. flights'[j] = Unobserved(flights[j])
      BY <1>1, <2>2
    <3> QED
      BY <2>1, <3>1, UnobservedFades
  <2>3. CASE flights[j] # None /\ Command[flights[j].cmd].hook # Command[c].hook
    <3>1. flights'[j] = flights[j]
      BY <1>1, <2>3
    <3> QED
      BY <2>1, <2>3, <3>1 DEF Fades
  <2>4. CASE flights[j] = None
    BY <1>1, <2>4
  <2> QED
    BY <2>2, <2>3, <2>4
<1>5. FlightsTyped'
  BY <1>1, <1>2, <1>3, <1>4 DEF FlightsTyped
<1> QED
  BY <1>3, <1>4, <1>5 DEF Launches

-----------------------------------------------------------------------------
(* A host is the one the window is at when it is selected or no longer     *)
(* listed; the selection is always on a host that is listed.               *)
AtHost(h) == h \in {selected, None} \/ seen[h] = "gone"
SelectionListed == selected \in Visible(seen) \cup {None}

(* A dialog and the requests the window observes belong to its screen, and *)
(* those that act on the selected host were started while it was selected. *)
DialogInPlace ==
  dialog # None =>
    /\ dialog.cmd \in Routes[route].offers
    /\ Command[dialog.cmd].acts = "selected" => dialog.origin # None /\ AtHost(dialog.origin)

Observed(i) == Flying(i) /\ flights[i].current
FlightsInPlace ==
  \A i \in Slots : Observed(i) =>
    /\ flights[i].cmd \in Routes[route].offers
    /\ flights[i].cmd = "ScanImage" => dialog # None /\ dialog.cmd = "ScanImage"
    /\ flights[i].waiting /\ Command[flights[i].cmd].acts = "selected"
         => AtHost(flights[i].host)

(* Of the requests of one hook, at most the latest is observed.            *)
OneObserved ==
  \A i, j \in Slots :
    /\ Observed(i) /\ Observed(j)
    /\ Command[flights[i].cmd].hook = Command[flights[j].cmd].hook
    => i = j

(* RowsReachTheirHost, with the host that has left named as one.           *)
RowsHeld ==
  \A i \in Busy :
    Command[flights[i].cmd].target /\ flights[i].host # flights[i].origin
      => flights[i].origin \in Hosts /\ seen[flights[i].origin] = "gone"

WindowInv ==
  /\ ScreensTypeOK /\ SelectionListed /\ DialogInPlace /\ FlightsInPlace /\ OneObserved
  /\ RowsHeld /\ AnswersFindTheirDialog /\ ListsFollowMutations

LEMMA WindowInit == ScreensInit => WindowInv
<1> SUFFICES ASSUME ScreensInit PROVE WindowInv
  OBVIOUS
<1>1. ScreensTypeOK /\ SelectionListed
  BY ScreensOffer DEF ScreensInit, ScreensTypeOK, SelectionListed, HostStatus, Visible
<1>2. /\ DialogInPlace /\ FlightsInPlace /\ OneObserved
      /\ RowsHeld /\ AnswersFindTheirDialog /\ ListsFollowMutations
  BY DEF ScreensInit, DialogInPlace, FlightsInPlace, OneObserved, RowsHeld,
     AnswersFindTheirDialog, ListsFollowMutations, Observed, Busy, Flying
<1> QED
  BY <1>1, <1>2 DEF WindowInv

-----------------------------------------------------------------------------
(* What a step does to the host list and the selection.                    *)
HostsMove(list) ==
  /\ list \in [Hosts -> HostStatus]
  /\ \A h \in Hosts :
       /\ seen[h] = "gone" => list[h] = "gone"
       /\ h \in Visible(seen) => list[h] \in {"online", "offline", "gone"}

Steady ==
  /\ HostsMove(seen') /\ SelectionListed'
  /\ \A h \in Hosts \cup {None} : AtHost(h) => AtHost(h)'

LEMMA HostsStand ==
  ASSUME ScreensTypeOK, SelectionListed, UNCHANGED <<seen, selected>>
  PROVE  Steady
  BY DEF Steady, HostsMove, Visible, AtHost, SelectionListed, ScreensTypeOK

LEMMA SelectionFollows ==
  ASSUME ScreensTypeOK, SelectionListed, HostsMove(seen'), selected' = Selection(seen')
  PROVE  Steady
<1>1. Visible(seen') \subseteq Hosts /\ Visible(seen') \subseteq Nat
  BY HostsAssumption DEF Visible
<1>2. Visible(seen') # {} => Min(Visible(seen')) \in Visible(seen')
  BY <1>1, FirstHost
<1>3. selected' \in Visible(seen') \cup {None}
  BY <1>2 DEF Selection
<1>4. SelectionListed'
  BY <1>3 DEF SelectionListed, Visible
<1>5. ASSUME NEW h \in Hosts \cup {None}, AtHost(h) PROVE AtHost(h)'
  <2>1. CASE h = None
    BY <2>1 DEF AtHost
  <2>2. CASE h \in Hosts /\ seen[h] = "gone"
    BY <2>2 DEF AtHost, HostsMove
  <2>3. CASE h \in Hosts /\ h = selected
    <3>1. h \in Visible(seen)
      BY <2>3, HostsAssumption DEF SelectionListed
    <3>2. h \in Visible(seen') \/ seen'[h] = "gone"
      BY <2>3, <3>1 DEF HostsMove, Visible
    <3>3. h \in Visible(seen') => selected' = h
      BY <2>3 DEF Selection
    <3> QED
      BY <3>2, <3>3 DEF AtHost
  <2> QED
    BY <1>5, <2>1, <2>2, <2>3 DEF AtHost
<1> QED
  BY <1>4, <1>5 DEF Steady

(* The two ways the selection is moved to another host. *)
LEMMA SelectionMoves ==
  ASSUME NEW h \in Hosts, selected' = h, seen'[h] \in {"online", "offline"}
  PROVE  SelectionListed'
  BY DEF SelectionListed, Visible

LEMMA HostListChangesSteady ==
  ASSUME ScreensTypeOK, SelectionListed, HostListChanges
  PROVE  Steady
<1>1. PICK h \in Hosts, s \in HostStatus :
        /\ <<seen[h], s>> \in {<<"new", "online">>, <<"online", "offline">>,
                               <<"offline", "online">>, <<"online", "gone">>,
                               <<"offline", "gone">>}
        /\ seen' = [seen EXCEPT ![h] = s] /\ selected' = Selection([seen EXCEPT ![h] = s])
  BY DEF HostListChanges, Listed
<1>2. HostsMove(seen')
  BY <1>1 DEF HostsMove, ScreensTypeOK, Visible
<1> QED
  BY <1>1, <1>2, SelectionFollows

LEMMA HostsAfterMove ==
  ASSUME ScreensTypeOK, NEW f \in Flight, NEW list \in HostsAfter(f)
  PROVE  HostsMove(list)
<1>a. Command["AddHost"].hook # bridgeConnection /\ Command["RemoveHost"].hook # bridgeConnection
  BY DEF Command, AddHost, RemoveHost, Deletion, Form, Plain, useAddHost, useRemoveHost,
     bridgeConnection
<1>1. CASE f.cmd = "AddHost"
  <2>1. list \in {[seen EXCEPT ![h] = s] : h \in {x \in Hosts : seen[x] = "new"},
                                           s \in {"online", "offline"}} \cup {seen}
    BY <1>a, <1>1 DEF HostsAfter
  <2> QED
    BY <2>1 DEF HostsMove, ScreensTypeOK, HostStatus, Visible
<1>2. CASE f.cmd = "RemoveHost"
  <2>1. list = [seen EXCEPT ![f.origin] = "gone"]
    BY <1>a, <1>2 DEF HostsAfter
  <2> QED
    BY <2>1 DEF HostsMove, ScreensTypeOK, HostStatus, Visible
<1>3. CASE f.cmd \notin {"AddHost", "RemoveHost"} /\ Command[f.cmd].hook = bridgeConnection
  <2>1. PICK away \in SUBSET Visible(seen) :
          list = [h \in Hosts |-> IF h \in away THEN "gone" ELSE seen[h]]
    BY <1>3 DEF HostsAfter
  <2> QED
    BY <2>1 DEF HostsMove, ScreensTypeOK, HostStatus, Visible
<1>4. CASE f.cmd \notin {"AddHost", "RemoveHost"} /\ Command[f.cmd].hook # bridgeConnection
  <2>1. list = seen
    BY <1>4 DEF HostsAfter
  <2> QED
    BY <2>1 DEF HostsMove, ScreensTypeOK, Visible
<1> QED
  BY <1>1, <1>2, <1>3, <1>4

-----------------------------------------------------------------------------
(* Most steps settle: requests fade, the window stays on its screen with   *)
(* its dialog, closes the dialog when nobody needs it, or leaves the       *)
(* screen, and the selection moves on only from a host that is gone, or    *)
(* on the screen where nothing acts on it.                                 *)
Settles ==
  /\ FlightsTyped' /\ AllFade
  /\ HostsMove(seen') /\ SelectionListed' /\ route' \in DOMAIN Routes
  /\ \/ /\ route' = route
        /\ Steady \/ route = "hosts"
        /\ \/ dialog' = dialog
           \/ /\ dialog' = None
              /\ \A i \in Slots : Observed(i)' =>
                   /\ flights'[i].cmd # "ScanImage"
                   /\ flights'[i].waiting => Command[flights'[i].cmd].dialog # "locked"
     \/ dialog' = None /\ \A i \in Slots : ~Observed(i)'

LEMMA SettledKeeps ==
  ASSUME WindowInv, Settles
  PROVE  /\ DialogInPlace' /\ FlightsInPlace' /\ OneObserved' /\ RowsHeld'
         /\ AnswersFindTheirDialog'
<1>1. DialogInPlace'
  <2> SUFFICES ASSUME dialog' # None
               PROVE  /\ dialog'.cmd \in Routes[route'].offers
                      /\ Command[dialog'.cmd].acts = "selected"
                           => dialog'.origin # None /\ AtHost(dialog.origin)'
    BY DEF DialogInPlace
  <2>1. dialog' = dialog /\ route' = route /\ (Steady \/ route = "hosts")
    BY DEF Settles
  <2>2. /\ dialog.cmd \in Routes[route].offers /\ dialog.origin \in Hosts \cup {None}
        /\ Command[dialog.cmd].acts = "selected" => dialog.origin # None /\ AtHost(dialog.origin)
    BY <2>1 DEF WindowInv, DialogInPlace, ScreensTypeOK, Dialog
  <2>3. route = "hosts" => Command[dialog.cmd].acts # "selected"
    BY <2>2, ScreensOffer
  <2> QED
    BY <2>1, <2>2, <2>3 DEF Steady, AtHost
<1>2. ASSUME NEW i \in Slots, Observed(i)'
      PROVE  /\ Observed(i) /\ Fades(flights[i], flights'[i]) /\ flights[i] \in Flight
             /\ dialog' = dialog \/ dialog' = None
             /\ route' = route /\ (Steady \/ route = "hosts")
  <2>1. Fades(flights[i], flights'[i])
    BY <1>2 DEF Settles, AllFade, Observed, Flying
  <2>2. flights[i] \in Flight
    BY <2>1 DEF WindowInv, ScreensTypeOK, Fades
  <2> QED
    BY <1>2, <2>1, <2>2 DEF Settles, Observed, Flying, Fades
<1>3. FlightsInPlace'
  <2> SUFFICES ASSUME NEW i \in Slots, Observed(i)'
               PROVE  /\ flights'[i].cmd \in Routes[route'].offers
                      /\ flights'[i].cmd = "ScanImage"
                           => dialog' # None /\ dialog'.cmd = "ScanImage"
                      /\ flights'[i].waiting /\ Command[flights'[i].cmd].acts = "selected"
                           => AtHost(flights[i].host)'
    BY DEF FlightsInPlace
  <2>1. /\ flights[i].cmd \in Routes[route].offers
        /\ flights[i].cmd = "ScanImage" => dialog # None /\ dialog.cmd = "ScanImage"
        /\ flights[i].waiting /\ Command[flights[i].cmd].acts = "selected"
             => AtHost(flights[i].host)
    BY <1>2 DEF WindowInv, FlightsInPlace
  <2>2. route = "hosts" => Command[flights[i].cmd].acts # "selected"
    BY <2>1, ScreensOffer
  <2>3. dialog' = dialog \/ flights'[i].cmd # "ScanImage"
    BY DEF Settles
  <2>4. flights[i].host \in Hosts \cup {None}
    BY <1>2 DEF Flight
  <2>5. AtHost(flights[i].host) /\ Steady => AtHost(flights[i].host)'
    <3>1. PICK h : h = flights[i].host
      OBVIOUS
    <3>2. flights'[i].host = h
      BY <1>2, <3>1 DEF Fades
    <3> QED
      BY <2>4, <3>1, <3>2 DEF Steady, AtHost
  <2> QED
    BY <1>2, <2>1, <2>2, <2>3, <2>5 DEF Fades
<1>4. OneObserved'
  BY <1>2 DEF WindowInv, OneObserved, Fades
<1>5. RowsHeld'
  <2> SUFFICES ASSUME NEW i \in Slots, flights'[i] # None,
                      Command[flights'[i].cmd].target, flights'[i].host # flights'[i].origin
               PROVE  flights'[i].origin \in Hosts /\ seen'[flights'[i].origin] = "gone"
    BY DEF RowsHeld, Busy, Flying
  <2>1. Fades(flights[i], flights'[i])
    BY DEF Settles, AllFade
  <2> QED
    BY <2>1 DEF Fades, WindowInv, RowsHeld, Busy, Flying, Settles, HostsMove
<1>6. AnswersFindTheirDialog'
  <2> SUFFICES ASSUME NEW i \in Slots, Observed(i)', flights'[i].waiting,
                      Command[flights'[i].cmd].dialog = "locked"
               PROVE  dialog' = [cmd |-> flights'[i].cmd, origin |-> flights'[i].origin]
    BY DEF AnswersFindTheirDialog, Busy, Flying, Observed
  <2>1. dialog' = dialog
    BY DEF Settles
  <2> QED
    BY <1>2, <2>1 DEF Fades, WindowInv, AnswersFindTheirDialog, Busy, Flying, Observed
<1> QED
  BY <1>1, <1>3, <1>4, <1>5, <1>6

LEMMA HostListChangesSettles == WindowInv /\ HostListChanges => Settles
<1> SUFFICES ASSUME WindowInv, HostListChanges PROVE Settles
  OBVIOUS
<1>1. Steady
  BY HostListChangesSteady DEF WindowInv
<1>2. FlightsTyped
  BY DEF WindowInv, ScreensTypeOK, FlightsTyped
<1>3. Leave \/ UNCHANGED <<dialog, flights>>
  BY DEF HostListChanges
<1>4. route' = route /\ route \in DOMAIN Routes
  BY DEF HostListChanges, WindowInv, ScreensTypeOK
<1>5. CASE Leave
  BY <1>1, <1>2, <1>4, <1>5, LeaveFades DEF Settles, Steady, Observed, Flying
<1>6. CASE UNCHANGED <<dialog, flights>>
  BY <1>1, <1>2, <1>4, <1>6 DEF Settles, Steady, AllFade, Fades, FlightsTyped
<1> QED
  BY <1>3, <1>5, <1>6

(* A dialog that a request still needs is not closed by hand. *)
LEMMA CloseDialogSettles == WindowInv /\ CloseDialog => Settles
<1> SUFFICES ASSUME WindowInv, CloseDialog PROVE Settles
  OBVIOUS
<1>1. Steady
  BY HostsStand DEF WindowInv, CloseDialog
<1>2. FlightsTyped /\ route' = route /\ route \in DOMAIN Routes
  BY DEF WindowInv, ScreensTypeOK, FlightsTyped, CloseDialog
<1>3. CASE Leave
  BY <1>1, <1>2, <1>3, LeaveFades DEF Settles, Steady, Observed, Flying
<1>4. CASE ~Leave
  <2>1. dialog.cmd # "ScanImage" /\ dialog' = None /\ flights' = flights
    BY <1>4 DEF CloseDialog
  <2>2. ASSUME NEW i \in Slots, Observed(i)
        PROVE  /\ flights[i].cmd # "ScanImage"
               /\ flights[i].waiting => Command[flights[i].cmd].dialog # "locked"
    <3>1. flights[i].cmd # "ScanImage"
      BY <2>1, <2>2 DEF WindowInv, FlightsInPlace
    <3>2. ASSUME flights[i].waiting, Command[flights[i].cmd].dialog = "locked" PROVE FALSE
      <4>1. dialog = [cmd |-> flights[i].cmd, origin |-> flights[i].origin]
        BY <2>2, <3>2 DEF WindowInv, AnswersFindTheirDialog, Busy, Flying, Observed
      <4>2. dialog.cmd = flights[i].cmd
        BY <4>1
      <4>3. Active(dialog.cmd)
        BY <2>2, <3>2, <4>2 DEF Active, Busy, Flying, Observed
      <4> QED
        BY <3>2, <4>2, <4>3 DEF CloseDialog
    <3> QED
      BY <3>1, <3>2
  <2> QED
    BY <1>1, <1>2, <2>1, <2>2
       DEF Settles, Steady, AllFade, Fades, FlightsTyped, Observed, Flying
<1> QED
  BY <1>3, <1>4

LEMMA NavigateSettles == WindowInv /\ (\E r \in DOMAIN Routes : Navigate(r)) => Settles
<1> SUFFICES ASSUME WindowInv, NEW r \in DOMAIN Routes, Navigate(r) PROVE Settles
  OBVIOUS
<1>1. Steady
  BY HostsStand DEF WindowInv, Navigate
<1>2. FlightsTyped
  BY DEF WindowInv, ScreensTypeOK, FlightsTyped
<1> QED
  BY <1>1, <1>2, LeaveFades DEF Navigate, Settles, Steady, Observed, Flying

(* The gateway and the poll of an operation leave the window as it is. *)
LEMMA UpdateSettles ==
  ASSUME WindowInv, NEW i \in Slots, NEW f \in Flight, Update(i, f), Fades(flights[i], f),
         UNCHANGED <<seen, selected, route, dialog>>
  PROVE  Settles
<1>1. Steady
  BY HostsStand DEF WindowInv
<1>2. FlightsTyped
  BY DEF WindowInv, ScreensTypeOK, FlightsTyped
<1>3. FlightsTyped' /\ AllFade
  BY <1>2, UpdateFades
<1> QED
  BY <1>1, <1>3 DEF Settles, Steady, WindowInv, ScreensTypeOK

LEMMA OperationSettles ==
  ASSUME WindowInv, NEW i \in Slots,
         CancelOperation(i) \/ GatewayTakes(i) \/ GatewayEnds(i) \/ Poll(i)
  PROVE  Settles
<1> DEFINE Moved(o) == [flights[i] EXCEPT !.op = o]
<1> DEFINE Polled(s) == [flights[i] EXCEPT !.polled = s]
<1>1. flights[i] # None /\ flights[i] \in Flight
  BY DEF CancelOperation, GatewayTakes, GatewayEnds, Poll, Flying, WindowInv, ScreensTypeOK
<1>2. \A o \in {"running", "lost"} \cup Ended :
        Moved(o) \in Flight /\ Fades(flights[i], Moved(o))
  BY <1>1 DEF Flight, Fades
<1>3. \A s \in {"active", "final"} : Polled(s) \in Flight /\ Fades(flights[i], Polled(s))
  BY <1>1 DEF Flight, Fades
<1>4. UNCHANGED <<seen, selected, route, dialog>>
  BY DEF CancelOperation, GatewayTakes, GatewayEnds, Poll
<1>5. \/ \E o \in {"running", "lost"} \cup Ended : Update(i, Moved(o))
      \/ \E s \in {"active", "final"} : Update(i, Polled(s))
  BY DEF CancelOperation, GatewayTakes, GatewayEnds, Poll, Ended
<1> HIDE DEF Moved, Polled
<1> QED
  BY <1>2, <1>3, <1>4, <1>5, UpdateSettles

LEMMA GatewayRestartsSettles == WindowInv /\ GatewayRestarts => Settles
<1> SUFFICES ASSUME WindowInv, GatewayRestarts PROVE Settles
  OBVIOUS
<1>1. Steady
  BY HostsStand DEF WindowInv, GatewayRestarts
<1>2. ASSUME NEW i \in Slots
      PROVE  /\ flights'[i] \in Flight \cup {None}
             /\ flights'[i] # None => Fades(flights[i], flights'[i])
  <2>1. flights[i] \in Flight \cup {None}
    BY DEF WindowInv, ScreensTypeOK
  <2>2. CASE flights'[i] = flights[i]
    BY <2>1, <2>2 DEF Fades
  <2>3. CASE flights'[i] # flights[i]
    <3> DEFINE g == [flights[i] EXCEPT !.op = "lost"]
    <3>1. flights[i] # None /\ flights'[i] = Kept(g)
      BY <2>3 DEF GatewayRestarts, OnGateway, Flying
    <3>2. g \in Flight /\ Fades(flights[i], g)
      BY <2>1, <3>1 DEF Flight, Fades
    <3> HIDE DEF g
    <3> QED
      BY <3>1, <3>2, KeptOrGone
  <2> QED
    BY <2>2, <2>3
<1>3. FlightsTyped' /\ AllFade
  BY <1>2 DEF GatewayRestarts, FlightsTyped, AllFade
<1> QED
  BY <1>1, <1>3 DEF Settles, Steady, WindowInv, ScreensTypeOK, GatewayRestarts

(* An answer closes the dialog of its own command only, which no other     *)
(* request under way needs.                                                *)
LEMMA AnswerSettles ==
  ASSUME WindowInv, NEW i \in Slots, Flying(i), NEW b \in BOOLEAN,
         Update(i, [flights[i] EXCEPT !.waiting = FALSE, !.followed = b]),
         NEW ends \in SUBSET {"success", "both"}, Closed(flights[i], ends),
         route' = route, HostsMove(seen'), SelectionListed', Steady \/ route = "hosts"
  PROVE  Settles
<1> DEFINE g == [flights[i] EXCEPT !.waiting = FALSE, !.followed = b]
<1>1. flights[i] # None /\ flights[i] \in Flight
  BY DEF Flying, WindowInv, ScreensTypeOK
<1>2. g \in Flight /\ Fades(flights[i], g) /\ ~g.waiting /\ Update(i, g)
  BY <1>1 DEF Flight, Fades
<1> HIDE DEF g
<1>3. FlightsTyped
  BY DEF WindowInv, ScreensTypeOK, FlightsTyped
<1>4. FlightsTyped' /\ AllFade
  BY <1>2, <1>3, UpdateFades
<1>5. flights'[i] \in {g, None}
  BY <1>2, <1>3, KeptOrGone DEF Update, FlightsTyped
<1>6. ASSUME dialog' # dialog
      PROVE  /\ dialog' = None
             /\ \A j \in Slots : Observed(j)' =>
                  /\ flights'[j].cmd # "ScanImage"
                  /\ flights'[j].waiting => Command[flights'[j].cmd].dialog # "locked"
  <2>1. /\ dialog' = None /\ dialog # None /\ flights[i].current
        /\ dialog.cmd = flights[i].cmd /\ Command[flights[i].cmd].ends \in ends
    BY <1>6 DEF Closed
  <2>2. dialog.cmd # "ScanImage"
    BY <2>1, BuildAndScan
  <2>3. ASSUME NEW j \in Slots, Observed(j)'
        PROVE  Observed(j) /\ Fades(flights[j], flights'[j])
    BY <1>4, <2>3 DEF AllFade, Fades, Observed, Flying
  <2>4. ASSUME NEW j \in Slots, Observed(j)' PROVE flights'[j].cmd # "ScanImage"
    BY <2>2, <2>3, <2>4 DEF Fades, WindowInv, FlightsInPlace
  <2>5. ASSUME NEW j \in Slots, Observed(j)', flights'[j].waiting,
               Command[flights'[j].cmd].dialog = "locked"
        PROVE  FALSE
    <3>1. dialog = [cmd |-> flights[j].cmd, origin |-> flights[j].origin]
      BY <2>3, <2>5 DEF Fades, WindowInv, AnswersFindTheirDialog, Busy, Flying, Observed
    <3>2. flights[j].cmd = flights[i].cmd
      BY <2>1, <3>1
    <3>3. j = i
      BY <1>1, <2>1, <2>3, <2>5, <3>2 DEF WindowInv, OneObserved, Observed, Flying
    <3> QED
      BY <1>2, <1>5, <2>5, <3>3 DEF Observed, Flying
  <2> QED
    BY <2>1, <2>4, <2>5
<1> QED
  BY <1>4, <1>6 DEF Settles, WindowInv, ScreensTypeOK

LEMMA RequestFailsSettles ==
  ASSUME WindowInv, NEW i \in Slots, RequestFails(i)
  PROVE  Settles
<1>1. PICK b : b = (flights[i].followed /\ Command[flights[i].cmd].follow # "pending")
  OBVIOUS
<1>2. flights[i] \in Flight
  BY DEF RequestFails, Flying, WindowInv, ScreensTypeOK
<1>3. b \in BOOLEAN
  BY <1>1, <1>2 DEF Flight
<1>4. /\ Update(i, [flights[i] EXCEPT !.waiting = FALSE, !.followed = b])
      /\ Flying(i) /\ Closed(flights[i], {"both"}) /\ UNCHANGED <<seen, selected, route>>
  BY <1>1 DEF RequestFails
<1>5. Steady
  BY <1>4, HostsStand DEF WindowInv
<1> QED
  BY <1>3, <1>4, <1>5, AnswerSettles DEF Steady

(* An answer moves the selection off a host only when that host is gone or *)
(* a host was added.                                                       *)
LEMMA AnsweredHosts ==
  ASSUME WindowInv, NEW i \in Slots, Answered(i)
  PROVE  HostsMove(seen') /\ SelectionListed' /\ (Steady \/ route = "hosts")
<1>1. flights[i] # None /\ flights[i] \in Flight
  BY DEF Answered, Flying, WindowInv, ScreensTypeOK
<1>2. /\ seen' \in HostsAfter(flights[i])
      /\ selected' = IF flights[i].cmd = "AddHost" /\ flights[i].current /\ seen' # seen
                     THEN CHOOSE h \in Hosts : seen'[h] # seen[h] ELSE Selection(seen')
  BY DEF Answered
<1>3. HostsMove(seen')
  BY <1>1, <1>2, HostsAfterMove DEF WindowInv
<1>4. CASE flights[i].cmd = "AddHost" /\ flights[i].current /\ seen' # seen
  <2>1. "AddHost" \in Routes[route].offers /\ route \in DOMAIN Routes
    BY <1>1, <1>4 DEF WindowInv, ScreensTypeOK, FlightsInPlace, Observed, Flying
  <2>2. route = "hosts"
    BY <2>1, ScreensOffer
  <2>3. Command["AddHost"].hook # bridgeConnection
    BY DEF Command, AddHost, Form, Plain, useAddHost, bridgeConnection
  <2>4. seen' \in {[seen EXCEPT ![h] = s] : h \in {x \in Hosts : seen[x] = "new"},
                                            s \in {"online", "offline"}} \cup {seen}
    BY <1>2, <1>4, <2>3 DEF HostsAfter
  <2>5. PICK h \in Hosts, s \in {"online", "offline"} :
          seen[h] = "new" /\ seen' = [seen EXCEPT ![h] = s]
    BY <1>4, <2>4
  <2>6. \A x \in Hosts : seen'[x] # seen[x] <=> x = h
    BY <2>5 DEF WindowInv, ScreensTypeOK
  <2>7. selected' = h /\ seen'[h] = s
    BY <1>2, <1>4, <2>5, <2>6 DEF WindowInv, ScreensTypeOK
  <2> QED
    BY <1>3, <2>2, <2>7, SelectionMoves
<1>5. CASE ~(flights[i].cmd = "AddHost" /\ flights[i].current /\ seen' # seen)
  <2>1. selected' = Selection(seen')
    BY <1>2, <1>5
  <2> QED
    BY <1>3, <2>1, SelectionFollows DEF WindowInv, Steady
<1> QED
  BY <1>4, <1>5

LEMMA AnsweredSettles ==
  ASSUME WindowInv, NEW i \in Slots, Answered(i)
  PROVE  Settles
<1>1. PICK b : b = (flights[i].followed /\ Command[flights[i].cmd].follow = "always")
  OBVIOUS
<1>2. flights[i] \in Flight
  BY DEF Answered, Flying, WindowInv, ScreensTypeOK
<1>3. b \in BOOLEAN
  BY <1>1, <1>2 DEF Flight
<1>4. /\ Update(i, [flights[i] EXCEPT !.waiting = FALSE, !.followed = b])
      /\ Flying(i) /\ Closed(flights[i], {"success", "both"}) /\ route' = route
  BY <1>1 DEF Answered
<1> QED
  BY <1>3, <1>4, AnsweredHosts, AnswerSettles

-----------------------------------------------------------------------------
(* The other steps: a host is picked, a dialog opened, a request sent.     *)
Placed ==
  DialogInPlace /\ FlightsInPlace /\ OneObserved /\ RowsHeld /\ AnswersFindTheirDialog

(* The hosts are picked while nothing under way acts on the selected one.  *)
LEMMA SelectHostPlaces ==
  ASSUME WindowInv, NEW h \in Hosts, SelectHost(h)
  PROVE  Placed'
<1>1. route \in {"builds", "security"} /\ dialog = None
      /\ UNCHANGED <<seen, route, dialog, flights>>
  BY DEF SelectHost
<1>2. ASSUME NEW i \in Slots, Observed(i), flights[i].waiting PROVE FALSE
  <2>1. flights[i].cmd = "BuildImage" \/ flights[i].cmd = "ScanImage"
    BY <1>1, <1>2, ScreensOffer DEF WindowInv, FlightsInPlace
  <2>2. flights[i] \in Flight
    BY <1>2 DEF WindowInv, ScreensTypeOK, Observed, Flying
  <2>3. [cmd |-> flights[i].cmd, origin |-> flights[i].origin] \in Dialog
    BY <2>2 DEF Flight, Dialog
  <2> QED
    BY <1>1, <1>2, <2>1, <2>3, BuildAndScan, NoneAssumption
       DEF WindowInv, FlightsInPlace, AnswersFindTheirDialog, Busy, Flying, Observed
<1>3. FlightsInPlace'
  BY <1>1, <1>2 DEF WindowInv, FlightsInPlace, Observed, Flying
<1> QED
  BY <1>1, <1>3
     DEF Placed, WindowInv, DialogInPlace, OneObserved, RowsHeld, AnswersFindTheirDialog,
         Busy, Flying, Observed

(* Nobody waits for a dialog while none is open. *)
LEMMA NoDialogNoneWaits ==
  ASSUME WindowInv, dialog = None, NEW i \in Slots, Observed(i)
  PROVE  /\ flights[i].cmd # "ScanImage"
         /\ flights[i].waiting => Command[flights[i].cmd].dialog # "locked"
<1>1. flights[i] \in Flight
  BY DEF WindowInv, ScreensTypeOK, Observed, Flying
<1>2. [cmd |-> flights[i].cmd, origin |-> flights[i].origin] \in Dialog
  BY <1>1 DEF Flight, Dialog
<1> QED
  BY <1>2, NoneAssumption
     DEF WindowInv, FlightsInPlace, AnswersFindTheirDialog, Busy, Flying, Observed

LEMMA RowsTyped ==
  ASSUME ScreensTypeOK, NEW c \in Commands, NEW h \in Rows(c)
  PROVE  h \in Hosts \cup {None} /\ (Command[c].acts = "selected" => h = selected)
  BY CommandsShaped DEF Rows, Shaped, ScreensTypeOK, Visible

LEMMA OpenDialogPlaces ==
  ASSUME WindowInv, NEW c \in Commands, OpenDialog(c)
  PROVE  Placed'
<1>1. PICK h \in Rows(c) : dialog' = [cmd |-> c, origin |-> h]
  BY DEF OpenDialog
<1>2. /\ dialog = None /\ c \in Routes[route].offers
      /\ Command[c].acts = "selected" => selected # None
      /\ UNCHANGED <<seen, selected, route, flights>>
  BY DEF OpenDialog, Offered
<1>3. dialog'.cmd = c /\ dialog'.origin = h
  BY <1>1
<1>4. DialogInPlace'
  <2>1. Command[c].acts = "selected" => h = selected
    BY RowsTyped DEF WindowInv
  <2> QED
    BY <1>2, <1>3, <2>1 DEF DialogInPlace, AtHost
<1>5. FlightsInPlace'
  BY <1>2, NoDialogNoneWaits DEF WindowInv, FlightsInPlace, Observed, Flying, AtHost
<1>6. AnswersFindTheirDialog'
  BY <1>2, NoDialogNoneWaits DEF AnswersFindTheirDialog, Busy, Observed, Flying
<1> QED
  BY <1>2, <1>4, <1>5, <1>6 DEF Placed, WindowInv, OneObserved, RowsHeld, Busy, Flying, Observed

(* A request that is sent from the screen it belongs to, with the host     *)
(* selected now or with that of its row.                                   *)
LEMMA LaunchPlaces ==
  ASSUME WindowInv, NEW c \in Commands, NEW origin \in Hosts \cup {None}, NEW i \in Slots,
         Launches(c, origin, i), c \in Routes[route].offers, UNCHANGED <<seen, route>>,
         Command[c].acts = "selected" => selected' = selected /\ origin # None /\ AtHost(origin)
  PROVE  OneObserved' /\ RowsHeld'
<1>1. flights'[i].cmd = c /\ flights'[i].origin = origin
      /\ flights'[i].host = IF Command[c].acts = "selected" THEN selected ELSE origin
  BY DEF Launches, Request
<1>2. ASSUME NEW j \in Slots \ {i}, flights'[j] # None
      PROVE  /\ Fades(flights[j], flights'[j])
             /\ flights'[j].current => Command[flights'[j].cmd].hook # Command[c].hook
  BY <1>2 DEF Launches, Fades
<1>3. OneObserved'
  <2> SUFFICES ASSUME NEW j \in Slots, NEW k \in Slots, Observed(j)', Observed(k)',
                      Command[flights'[j].cmd].hook = Command[flights'[k].cmd].hook
               PROVE  j = k
    BY DEF OneObserved
  <2>1. CASE j = i \/ k = i
    BY <1>1, <1>2, <2>1 DEF Observed, Flying
  <2>2. CASE j # i /\ k # i
    BY <1>2, <2>2 DEF Fades, WindowInv, OneObserved, Observed, Flying
  <2> QED
    BY <2>1, <2>2
<1>4. RowsHeld'
  <2> SUFFICES ASSUME NEW j \in Slots, flights'[j] # None,
                      Command[flights'[j].cmd].target, flights'[j].host # flights'[j].origin
               PROVE  flights'[j].origin \in Hosts /\ seen[flights'[j].origin] = "gone"
    BY DEF RowsHeld, Busy, Flying
  <2>1. CASE j = i
    BY <1>1, <2>1 DEF AtHost
  <2>2. CASE j # i
    BY <1>2, <2>2 DEF Fades, WindowInv, RowsHeld, Busy, Flying
  <2> QED
    BY <2>1, <2>2
<1> QED
  BY <1>3, <1>4

LEMMA ConfirmPlaces ==
  ASSUME WindowInv, Confirm
  PROVE  Placed'
<1>1. /\ dialog \in Dialog /\ dialog # None
      /\ dialog.cmd \in Commands /\ dialog.origin \in Hosts \cup {None}
      /\ dialog = [cmd |-> dialog.cmd, origin |-> dialog.origin]
  BY DEF Confirm, WindowInv, ScreensTypeOK, Dialog
<1>2. PICK i \in Slots : Launches(dialog.cmd, dialog.origin, i)
  BY <1>1, SendLaunches DEF Confirm, WindowInv, ScreensTypeOK, FlightsTyped
<1>3. /\ UNCHANGED <<seen, selected, route>>
      /\ dialog' = IF Command[dialog.cmd].ends = "submit" THEN None ELSE dialog
  BY DEF Confirm
<1>4. /\ dialog.cmd \in Routes[route].offers
      /\ Command[dialog.cmd].acts = "selected" => dialog.origin # None /\ AtHost(dialog.origin)
  BY <1>1 DEF WindowInv, DialogInPlace
<1>5. OneObserved' /\ RowsHeld'
  BY <1>1, <1>2, <1>3, <1>4, LaunchPlaces
<1>6. DialogInPlace'
  BY <1>3, <1>4 DEF DialogInPlace, AtHost
<1>7. /\ flights'[i].cmd = dialog.cmd /\ flights'[i].origin = dialog.origin
      /\ Command[dialog.cmd].acts = "selected" => flights'[i].host = selected
  BY <1>2 DEF Launches, Request
<1>8. ASSUME NEW j \in Slots \ {i}, Observed(j)'
      PROVE  Observed(j) /\ Fades(flights[j], flights'[j])
  BY <1>2, <1>8 DEF Launches, Fades, Observed, Flying
<1>9. ASSUME NEW j \in Slots, Observed(j)'
      PROVE  /\ flights'[j].cmd \in Routes[route].offers
             /\ flights'[j].cmd = "ScanImage" => dialog' # None /\ dialog'.cmd = "ScanImage"
             /\ flights'[j].waiting /\ Command[flights'[j].cmd].acts = "selected"
                  => AtHost(flights'[j].host)
  <2>1. CASE j = i
    BY <1>1, <1>3, <1>4, <1>7, <2>1, BuildAndScan DEF AtHost
  <2>2. CASE j # i
    BY <1>3, <1>8, <1>9, <2>2, BuildAndScan DEF Fades, WindowInv, FlightsInPlace
  <2> QED
    BY <2>1, <2>2
<1>10. FlightsInPlace'
  BY <1>3, <1>9 DEF FlightsInPlace, AtHost
<1>11. AnswersFindTheirDialog'
  <2> SUFFICES ASSUME NEW j \in Slots, Observed(j)', flights'[j].waiting,
                      Command[flights'[j].cmd].dialog = "locked"
               PROVE  dialog' = [cmd |-> flights'[j].cmd, origin |-> flights'[j].origin]
    BY DEF AnswersFindTheirDialog, Busy, Flying, Observed
  <2>1. dialog = [cmd |-> flights'[j].cmd, origin |-> flights'[j].origin]
    <3>1. CASE j = i
      BY <1>1, <1>7, <3>1
    <3>2. CASE j # i
      BY <1>8, <3>2 DEF Fades, WindowInv, AnswersFindTheirDialog, Busy, Flying, Observed
    <3> QED
      BY <3>1, <3>2
  <2>2. dialog.cmd = flights'[j].cmd
    BY <2>1
  <2>3. Command[dialog.cmd].ends # "submit"
    BY <1>1, <2>2, CommandsShaped DEF Shaped
  <2> QED
    BY <1>3, <2>1, <2>3
<1> QED
  BY <1>5, <1>6, <1>10, <1>11 DEF Placed

LEMMA DirectPlaces ==
  ASSUME WindowInv, NEW c \in Commands, Direct(c)
  PROVE  Placed' /\ SelectionListed'
<1>1. PICK h \in Rows(c) : Send(c, h) /\ selected' = IF c = "TestHost" THEN h ELSE selected
  BY DEF Direct
<1>2. /\ dialog = None /\ c \in Routes[route].offers /\ Command[c].dialog = "none"
      /\ Command[c].acts = "selected" => selected # None
      /\ UNCHANGED <<seen, route, dialog>>
  BY DEF Direct, Offered
<1>3. /\ h \in Hosts \cup {None} /\ route \in DOMAIN Routes
      /\ Command[c].acts = "selected" => h = selected
  BY RowsTyped DEF WindowInv, ScreensTypeOK
<1>4. PICK i \in Slots : Launches(c, h, i)
  BY <1>1, <1>3, SendLaunches DEF WindowInv, ScreensTypeOK, FlightsTyped
<1>5. Command["TestHost"].acts = "row"
  BY DEF Command, TestHost, Form, Deletion
<1>6. OneObserved' /\ RowsHeld'
  BY <1>1, <1>2, <1>3, <1>4, <1>5, LaunchPlaces DEF AtHost
<1>7. DialogInPlace'
  BY <1>2 DEF DialogInPlace
<1>8. SelectionListed'
  BY <1>1, <1>2, <1>5 DEF SelectionListed, WindowInv, Rows, Visible
<1>9. ASSUME NEW j \in Slots, Observed(j)'
      PROVE  /\ flights'[j].cmd \in Routes[route].offers
             /\ flights'[j].cmd # "ScanImage"
             /\ flights'[j].waiting => Command[flights'[j].cmd].dialog # "locked"
             /\ flights'[j].waiting /\ Command[flights'[j].cmd].acts = "selected"
                  => AtHost(flights'[j].host)
  <2>1. CASE j = i
    <3>1. flights'[j].cmd = c
          /\ (Command[c].acts = "selected" => flights'[j].host = selected)
      BY <1>4, <2>1 DEF Launches, Request
    <3> QED
      BY <1>2, <3>1, BuildAndScan DEF AtHost
  <2>2. CASE j # i
    <3>1. Observed(j) /\ Fades(flights[j], flights'[j])
      BY <1>4, <1>9, <2>2 DEF Launches, Fades, Observed, Flying
    <3> QED
      BY <1>2, <3>1, NoDialogNoneWaits DEF Fades, WindowInv, FlightsInPlace
  <2> QED
    BY <2>1, <2>2
<1>10. c = "TestHost" => \A d \in Routes[route].offers : Command[d].acts # "selected"
  BY <1>2, <1>3, ScreensOffer
<1>11. FlightsInPlace'
  BY <1>1, <1>2, <1>9, <1>10 DEF FlightsInPlace, AtHost
<1>12. AnswersFindTheirDialog'
  BY <1>9 DEF AnswersFindTheirDialog, Busy, Observed, Flying
<1> QED
  BY <1>6, <1>7, <1>8, <1>11, <1>12 DEF Placed

-----------------------------------------------------------------------------
(* Types, and the lists that changed. *)
LEMMA StaleStands ==
  ASSUME WindowInv, HostsMove(seen'), stale' = stale
  PROVE  ListsFollowMutations' /\ \A x \in stale' : x[2] \in Hosts \cup {None}
  BY DEF WindowInv, ScreensTypeOK, ListsFollowMutations, HostsMove

(* The lists an answer has changed are invalidated for the host the window *)
(* is at, which is the host of the request unless that host is gone.       *)
LEMMA AnsweredRefreshes ==
  ASSUME WindowInv, NEW i \in Slots, Answered(i)
  PROVE  ListsFollowMutations' /\ \A x \in stale' : x[2] \in Hosts \cup {None}
<1> DEFINE f == flights[i]
<1>1. f # None /\ f \in Flight /\ f.waiting
  BY DEF Answered, Flying, WindowInv, ScreensTypeOK
<1>2. f.cmd \in Commands /\ f.host \in Hosts \cup {None}
  BY <1>1 DEF Flight
<1>3. HostsMove(seen') /\ stale' = (stale \cup Changed(f)) \ Refreshed(f)
  BY AnsweredHosts DEF Answered
<1>4. Command[f.cmd].changes \subseteq Command[f.cmd].hook.lists
  BY <1>2, CommandsShaped DEF Shaped
<1>5. f.current /\ Command[f.cmd].acts = "selected" => AtHost(f.host)
  BY <1>1 DEF WindowInv, FlightsInPlace, Observed, Flying
<1> HIDE DEF f
<1>6. ASSUME NEW x \in Changed(f), x \notin Refreshed(f)
      PROVE  x[2] = f.host /\ (f.host = None \/ seen[f.host] = "gone")
  <2>1. x \in Command[f.cmd].changes \X {f.host}
    BY <1>6 DEF Changed
  <2>2. x[1] \in Command[f.cmd].hook.lists /\ x[2] = f.host /\ x = <<x[1], f.host>>
    BY <1>4, <2>1
  <2>3. ~(f.current /\ Command[f.cmd].acts = "selected") => x \in Refreshed(f)
    BY <2>2 DEF Refreshed
  <2>4. f.host = selected => x \in Refreshed(f)
    BY <2>2 DEF Refreshed
  <2> QED
    BY <1>5, <1>6, <2>2, <2>3, <2>4 DEF AtHost
<1>7. ASSUME NEW x \in stale'
      PROVE  x[2] \in Hosts \cup {None} /\ (x[2] = None \/ seen[x[2]] = "gone")
  <2>1. CASE x \in stale
    BY <2>1 DEF WindowInv, ScreensTypeOK, ListsFollowMutations
  <2>2. CASE x \notin stale
    BY <1>2, <1>3, <1>6, <1>7, <2>2
  <2> QED
    BY <2>1, <2>2
<1> QED
  BY <1>3, <1>7 DEF ListsFollowMutations, HostsMove

LEMMA WindowTyped ==
  ASSUME HostsMove(seen'), SelectionListed', route' \in DOMAIN Routes,
         dialog' \in Dialog \cup {None}, FlightsTyped',
         \A x \in stale' : x[2] \in Hosts \cup {None}
  PROVE  ScreensTypeOK'
  BY DEF ScreensTypeOK, HostsMove, SelectionListed, Visible, FlightsTyped

LEMMA SettledHolds ==
  ASSUME WindowInv, Settles, ListsFollowMutations',
         \A x \in stale' : x[2] \in Hosts \cup {None}
  PROVE  WindowInv'
<1>1. dialog' \in Dialog \cup {None}
  BY DEF Settles, WindowInv, ScreensTypeOK
<1>2. ScreensTypeOK'
  BY <1>1, WindowTyped DEF Settles
<1> QED
  BY <1>2, SettledKeeps DEF WindowInv, Settles

LEMMA PlacedHolds ==
  ASSUME WindowInv, Placed', SelectionListed', UNCHANGED <<seen, route, stale>>,
         FlightsTyped', dialog' \in Dialog \cup {None}
  PROVE  WindowInv'
<1>1. HostsMove(seen') /\ route' \in DOMAIN Routes
  BY DEF HostsMove, WindowInv, ScreensTypeOK, Visible
<1>2. ListsFollowMutations' /\ ScreensTypeOK'
  BY <1>1, StaleStands, WindowTyped
<1> QED
  BY <1>2 DEF WindowInv, Placed

LEMMA WindowStep == WindowInv /\ [ScreensNext]_window => WindowInv'
<1> SUFFICES ASSUME WindowInv, [ScreensNext]_window PROVE WindowInv'
  OBVIOUS
<1>1. FlightsTyped /\ SelectionListed /\ selected \in Hosts \cup {None}
  BY DEF WindowInv, ScreensTypeOK, FlightsTyped
<1>2. CASE HostListChanges
  <2>1. Settles /\ stale' = stale
    BY <1>2, HostListChangesSettles DEF HostListChanges
  <2> QED
    BY <2>1, StaleStands, SettledHolds DEF Settles
<1>3. CASE CloseDialog
  <2>1. Settles /\ stale' = stale
    BY <1>3, CloseDialogSettles DEF CloseDialog
  <2> QED
    BY <2>1, StaleStands, SettledHolds DEF Settles
<1>4. CASE Confirm
  <2>1. dialog \in Dialog /\ dialog.cmd \in Commands /\ dialog.origin \in Hosts \cup {None}
    BY <1>4 DEF Confirm, WindowInv, ScreensTypeOK, Dialog
  <2>2. FlightsTyped'
    BY <1>1, <1>4, <2>1, SendLaunches DEF Confirm
  <2>3. Placed'
    BY <1>4, ConfirmPlaces
  <2> QED
    BY <1>1, <1>4, <2>1, <2>2, <2>3, PlacedHolds DEF Confirm, SelectionListed
<1>5. CASE GatewayRestarts
  <2>1. Settles /\ stale' = stale
    BY <1>5, GatewayRestartsSettles DEF GatewayRestarts
  <2> QED
    BY <2>1, StaleStands, SettledHolds DEF Settles
<1>6. ASSUME NEW r \in DOMAIN Routes, Navigate(r) PROVE WindowInv'
  <2>1. Settles /\ stale' = stale
    BY <1>6, NavigateSettles DEF Navigate
  <2> QED
    BY <2>1, StaleStands, SettledHolds DEF Settles
<1>7. ASSUME NEW h \in Hosts, SelectHost(h) PROVE WindowInv'
  <2>1. Placed'
    BY <1>7, SelectHostPlaces
  <2>2. /\ SelectionListed' /\ FlightsTyped' /\ UNCHANGED <<seen, route, stale>>
        /\ dialog' \in Dialog \cup {None}
    BY <1>1, <1>7 DEF SelectHost, SelectionListed, FlightsTyped, Visible
  <2> QED
    BY <2>1, <2>2, PlacedHolds
<1>8. ASSUME NEW c \in Commands, OpenDialog(c) PROVE WindowInv'
  <2>1. Placed'
    BY <1>8, OpenDialogPlaces
  <2>2. dialog' \in Dialog
    BY <1>8, RowsTyped DEF OpenDialog, Dialog, WindowInv
  <2>3. SelectionListed' /\ FlightsTyped' /\ UNCHANGED <<seen, route, stale>>
    BY <1>1, <1>8 DEF OpenDialog, SelectionListed, FlightsTyped
  <2> QED
    BY <2>1, <2>2, <2>3, PlacedHolds
<1>9. ASSUME NEW c \in Commands, Direct(c) PROVE WindowInv'
  <2>1. PICK h \in Rows(c) : Send(c, h)
    BY <1>9 DEF Direct
  <2>2. FlightsTyped'
    BY <1>1, <2>1, RowsTyped, SendLaunches DEF WindowInv
  <2>3. UNCHANGED <<seen, route, stale>> /\ dialog' \in Dialog \cup {None}
    BY <1>9 DEF Direct, WindowInv, ScreensTypeOK
  <2> QED
    BY <1>9, <2>2, <2>3, DirectPlaces, PlacedHolds
<1>10. ASSUME NEW i \in Slots,
              CancelOperation(i) \/ GatewayTakes(i) \/ GatewayEnds(i) \/ Poll(i)
       PROVE  WindowInv'
  <2>1. Settles /\ stale' = stale
    BY <1>10, OperationSettles DEF CancelOperation, GatewayTakes, GatewayEnds, Poll
  <2> QED
    BY <2>1, StaleStands, SettledHolds DEF Settles
<1>11. ASSUME NEW i \in Slots, RequestFails(i) PROVE WindowInv'
  <2>1. Settles /\ stale' = stale
    BY <1>11, RequestFailsSettles DEF RequestFails
  <2> QED
    BY <2>1, StaleStands, SettledHolds DEF Settles
<1>12. ASSUME NEW i \in Slots, Answered(i) PROVE WindowInv'
  BY <1>12, AnsweredSettles, AnsweredRefreshes, SettledHolds
<1>13. CASE UNCHANGED window
  <2>1. Steady /\ stale' = stale /\ FlightsTyped'
    BY <1>1, <1>13, HostsStand DEF window, WindowInv, FlightsTyped
  <2>2. Settles
    BY <1>13, <2>1 DEF window, Settles, Steady, AllFade, Fades, WindowInv, ScreensTypeOK
  <2> QED
    BY <2>1, <2>2, StaleStands, SettledHolds DEF Settles
<1> QED
  BY <1>2, <1>3, <1>4, <1>5, <1>6, <1>7, <1>8, <1>9, <1>10, <1>11, <1>12, <1>13
     DEF ScreensNext, Progress, BridgeGoesOn

LEMMA WindowInvariant == ScreensSpec => []WindowInv
  BY WindowInit, WindowStep, PTL DEF ScreensSpec

(* The window keeps its types with any number of hosts and of requests at  *)
(* once.                                                                   *)
THEOREM ScreensTypeCorrect == ScreensSpec => []ScreensTypeOK
<1>1. WindowInv => ScreensTypeOK
  BY DEF WindowInv
<1> QED
  BY <1>1, WindowInvariant, PTL

(* A request on a row reaches the host the row was listed for, unless that *)
(* host has left the list.                                                 *)
THEOREM RowsAlwaysReachTheirHost == ScreensSpec => []RowsReachTheirHost
<1>1. WindowInv => RowsReachTheirHost
  BY DEF WindowInv, RowsHeld, RowsReachTheirHost
<1> QED
  BY <1>1, WindowInvariant, PTL

(* The dialog a pending request has locked is still the one it was sent    *)
(* from.                                                                   *)
THEOREM AnswersAlwaysFindTheirDialog == ScreensSpec => []AnswersFindTheirDialog
<1>1. WindowInv => AnswersFindTheirDialog
  BY DEF WindowInv
<1> QED
  BY <1>1, WindowInvariant, PTL

(* No list of a host that is there is left as it was by a command that has *)
(* changed it.                                                             *)
THEOREM ListsAlwaysFollow == ScreensSpec => []ListsFollowMutations
<1>1. WindowInv => ListsFollowMutations
  BY DEF WindowInv
<1> QED
  BY <1>1, WindowInvariant, PTL

-----------------------------------------------------------------------------
(* The event stream. *)

(* The filter, one event after the other. *)
LEMMA OfHostIs ==
  ASSUME NEW s, Len(s) \in Nat, NEW h
  PROVE  OfHost(s, h) = [n \in 0 .. Len(s) |->
           IF n = 0 THEN <<>>
           ELSE IF matches(s[n], h) THEN Append(OfHost(s, h)[n - 1], s[n])
                ELSE OfHost(s, h)[n - 1]]
<1> DEFINE Body(f, m) == [n \in 0 .. m |->
             IF n = 0 THEN <<>>
             ELSE IF matches(s[n], h) THEN Append(f[n - 1], s[n]) ELSE f[n - 1]]
<1> DEFINE Missing == {m \in Nat : ~ \E f : f = Body(f, m)}
<1>1. \E f : f = Body(f, 0)
  <2>1. [n \in 0 .. 0 |-> <<>>] = Body([n \in 0 .. 0 |-> <<>>], 0)
    OBVIOUS
  <2> QED
    BY <2>1
<1>2. ASSUME NEW m \in Nat, NEW f, f = Body(f, m)
      PROVE  \E g : g = Body(g, m + 1)
  <2> DEFINE g == [n \in 0 .. m + 1 |->
               IF n = m + 1
               THEN IF matches(s[n], h) THEN Append(f[m], s[n]) ELSE f[m]
               ELSE f[n]]
  <2>1. \A n \in 0 .. m : g[n] = f[n]
    OBVIOUS
  <2>2. \A n \in 1 .. m : f[n] = IF matches(s[n], h) THEN Append(f[n - 1], s[n]) ELSE f[n - 1]
    <3> TAKE n \in 1 .. m
    <3>1. n \in 0 .. m /\ n # 0
      OBVIOUS
    <3>2. f[n] = Body(f, m)[n]
      BY <1>2, Zenon
    <3> QED
      BY <3>1, <3>2
  <2>3. f[0] = <<>>
    <3>1. 0 \in 0 .. m
      OBVIOUS
    <3>2. f[0] = Body(f, m)[0]
      BY <1>2, Zenon
    <3> QED
      BY <3>1, <3>2
  <2>4. ASSUME NEW n \in 0 .. m + 1
        PROVE  g[n] = IF n = 0 THEN <<>>
                      ELSE IF matches(s[n], h) THEN Append(g[n - 1], s[n]) ELSE g[n - 1]
    <3>1. CASE n = m + 1
      BY <2>1, <3>1
    <3>2. CASE n \in 1 .. m
      <4>1. n - 1 \in 0 .. m /\ n \in 0 .. m /\ n # 0
        BY <3>2
      <4> QED
        BY <2>1, <2>2, <3>2, <4>1
    <3>3. CASE n = 0
      BY <2>1, <2>3, <3>3
    <3> QED
      BY <3>1, <3>2, <3>3
  <2>5. g = Body(g, m + 1)
    BY <2>4
  <2> QED
    BY <2>5
<1> HIDE DEF Body
<1>3. Missing = {}
  <2> SUFFICES ASSUME Missing # {} PROVE FALSE
    OBVIOUS
  <2>1. PICK m \in Missing : \A y \in Missing : m <= y
    BY LeastNumber
  <2>2. m # 0
    BY <1>1
  <2>3. m - 1 \in Nat /\ m - 1 \notin Missing
    BY <2>1, <2>2
  <2> QED
    BY <1>2, <2>1, <2>3
<1>4. \E f : f = Body(f, Len(s))
  BY <1>3
<1>5. OfHost(s, h) = CHOOSE f : f = Body(f, Len(s))
  BY DEF OfHost, Body
<1>6. OfHost(s, h) = Body(OfHost(s, h), Len(s))
  BY <1>4, <1>5
<1> QED
  BY <1>6 DEF Body

(* The steps of the filter; what passes is a sequence. *)
LEMMA OfHostSteps ==
  ASSUME NEW S, NEW s \in Seq(S), NEW h
  PROVE  /\ OfHost(s, h)[0] = <<>>
         /\ \A n \in 1 .. Len(s) :
              OfHost(s, h)[n] = IF matches(s[n], h) THEN Append(OfHost(s, h)[n - 1], s[n])
                                ELSE OfHost(s, h)[n - 1]
         /\ \A n \in 0 .. Len(s) : OfHost(s, h)[n] \in Seq(S)
<1> DEFINE F == OfHost(s, h)
<1>1. Len(s) \in Nat /\ 0 \in 0 .. Len(s)
  OBVIOUS
<1>2. F = [n \in 0 .. Len(s) |->
             IF n = 0 THEN <<>>
             ELSE IF matches(s[n], h) THEN Append(F[n - 1], s[n]) ELSE F[n - 1]]
  BY <1>1, OfHostIs
<1> HIDE DEF F
<1>3. ASSUME NEW n \in 0 .. Len(s)
      PROVE  F[n] = IF n = 0 THEN <<>>
                    ELSE IF matches(s[n], h) THEN Append(F[n - 1], s[n]) ELSE F[n - 1]
  <2>1. PICK G : G = F
    OBVIOUS
  <2>2. F[n] = [m \in 0 .. Len(s) |->
                  IF m = 0 THEN <<>>
                  ELSE IF matches(s[m], h) THEN Append(G[m - 1], s[m]) ELSE G[m - 1]][n]
    BY <1>2, <2>1
  <2> QED
    BY <2>1, <2>2
<1>4. F[0] = <<>>
  BY <1>1, <1>3
<1>5. \A n \in 1 .. Len(s) :
        F[n] = IF matches(s[n], h) THEN Append(F[n - 1], s[n]) ELSE F[n - 1]
  BY <1>3
<1> DEFINE Missing == {n \in Nat : n <= Len(s) /\ F[n] \notin Seq(S)}
<1>6. Missing = {}
  <2> SUFFICES ASSUME Missing # {} PROVE FALSE
    OBVIOUS
  <2>1. PICK m \in Missing : \A y \in Missing : m <= y
    BY LeastNumber
  <2>2. m # 0
    <3>1. F[0] \in Seq(S)
      BY <1>4
    <3> QED
      BY <2>1, <3>1
  <2>3. m - 1 \in Nat /\ m - 1 \notin Missing
    BY <2>1, <2>2
  <2>4. F[m - 1] \in Seq(S) /\ m \in 1 .. Len(s) /\ s[m] \in S
    BY <2>1, <2>2, <2>3
  <2>5. F[m] \in Seq(S)
    <3>1. F[m] = IF matches(s[m], h) THEN Append(F[m - 1], s[m]) ELSE F[m - 1]
      BY <1>5, <2>4
    <3> QED
      BY <2>4, <3>1
  <2> QED
    BY <2>1, <2>5
<1> QED
  BY <1>4, <1>5, <1>6 DEF F

(* A sequence that lists the first q events of a host, in their order.     *)
Distinct(s) == \A i, j \in 1 .. Len(s) : s[i] = s[j] => i = j
Enumerates(t, s, h, q) ==
  /\ \A n \in 1 .. Len(t) : \E i \in 1 .. q : t[n] = s[i] /\ matches(s[i], h)
  /\ \A i \in 1 .. q : matches(s[i], h) => \E n \in 1 .. Len(t) : t[n] = s[i]
  /\ \A m, n \in 1 .. Len(t), i, j \in 1 .. q :
       m < n /\ t[m] = s[i] /\ t[n] = s[j] => i < j

LEMMA EnumerateOneMore ==
  ASSUME NEW S, NEW s \in Seq(S), Distinct(s), NEW h, NEW t \in Seq(S), NEW q \in 1 .. Len(s),
         Enumerates(t, s, h, q - 1)
  PROVE  Enumerates(IF matches(s[q], h) THEN Append(t, s[q]) ELSE t, s, h, q)
<1>0. \A n \in 1 .. Len(t) : t[n] # s[q]
  BY DEF Enumerates, Distinct
<1>1. CASE matches(s[q], h)
  <2>1. PICK u : u = Append(t, s[q])
    OBVIOUS
  <2>2. /\ Len(u) = Len(t) + 1 /\ u[Len(t) + 1] = s[q]
        /\ \A n \in 1 .. Len(t) : u[n] = t[n]
    BY <2>1
  <2>3. ASSUME NEW n \in 1 .. Len(u)
        PROVE  \E i \in 1 .. q : u[n] = s[i] /\ matches(s[i], h)
    <3>1. CASE n = Len(t) + 1
      BY <1>1, <2>2, <3>1
    <3>2. CASE n \in 1 .. Len(t)
      BY <2>2, <3>2 DEF Enumerates
    <3> QED
      BY <2>2, <3>1, <3>2
  <2>4. ASSUME NEW i \in 1 .. q, matches(s[i], h)
        PROVE  \E n \in 1 .. Len(u) : u[n] = s[i]
    <3>1. CASE i = q
      BY <2>2, <3>1
    <3>2. CASE i \in 1 .. q - 1
      <4>1. PICK n \in 1 .. Len(t) : t[n] = s[i]
        BY <2>4, <3>2 DEF Enumerates
      <4> QED
        BY <2>2, <4>1
    <3> QED
      BY <3>1, <3>2
  <2>5. ASSUME NEW m \in 1 .. Len(u), NEW n \in 1 .. Len(u), NEW i \in 1 .. q, NEW j \in 1 .. q,
               m < n, u[m] = s[i], u[n] = s[j]
        PROVE  i < j
    <3>1. m \in 1 .. Len(t) /\ t[m] = s[i] /\ i # q
      BY <1>0, <2>2, <2>5
    <3>2. i \in 1 .. q - 1
      BY <3>1
    <3>3. CASE n = Len(t) + 1
      <4>1. j = q
        BY <2>2, <2>5, <3>3 DEF Distinct
      <4> QED
        BY <3>2, <4>1
    <3>4. CASE n \in 1 .. Len(t)
      <4>1. t[n] = s[j] /\ j # q
        BY <1>0, <2>2, <2>5, <3>4
      <4>2. j \in 1 .. q - 1
        BY <4>1
      <4> QED
        BY <2>5, <3>1, <3>2, <3>4, <4>1, <4>2 DEF Enumerates
    <3> QED
      BY <2>2, <3>3, <3>4
  <2>6. Enumerates(u, s, h, q)
    BY <2>3, <2>4, <2>5 DEF Enumerates
  <2> QED
    BY <1>1, <2>1, <2>6
<1>2. CASE ~matches(s[q], h)
  <2>1. \A i \in 1 .. q : i = q \/ i \in 1 .. q - 1
    OBVIOUS
  <2>2. \A n \in 1 .. Len(t) : \E i \in 1 .. q : t[n] = s[i] /\ matches(s[i], h)
    BY <2>1 DEF Enumerates
  <2>3. \A i \in 1 .. q : matches(s[i], h) => \E n \in 1 .. Len(t) : t[n] = s[i]
    BY <1>2, <2>1 DEF Enumerates
  <2>4. \A m, n \in 1 .. Len(t), i, j \in 1 .. q :
          m < n /\ t[m] = s[i] /\ t[n] = s[j] => i < j
    <3> TAKE m, n \in 1 .. Len(t), i, j \in 1 .. q
    <3> HAVE m < n /\ t[m] = s[i] /\ t[n] = s[j]
    <3>1. i \in 1 .. q - 1 /\ j \in 1 .. q - 1
      BY <1>0, <2>1
    <3> QED
      BY <3>1 DEF Enumerates
  <2> QED
    BY <1>2, <2>2, <2>3, <2>4 DEF Enumerates
<1> QED
  BY <1>1, <1>2

LEMMA OfHostEnumerates ==
  ASSUME NEW S, NEW s \in Seq(S), Distinct(s), NEW h
  PROVE  \A q \in 0 .. Len(s) : Enumerates(OfHost(s, h)[q], s, h, q)
<1> DEFINE F == OfHost(s, h)
<1>1. /\ F[0] = <<>>
      /\ \A n \in 1 .. Len(s) :
           F[n] = IF matches(s[n], h) THEN Append(F[n - 1], s[n]) ELSE F[n - 1]
      /\ \A n \in 0 .. Len(s) : F[n] \in Seq(S)
  BY OfHostSteps
<1> HIDE DEF F
<1> DEFINE Wrong == {q \in Nat : q <= Len(s) /\ ~Enumerates(F[q], s, h, q)}
<1>2. Enumerates(F[0], s, h, 0)
  BY <1>1 DEF Enumerates
<1>3. Wrong = {}
  <2> SUFFICES ASSUME Wrong # {} PROVE FALSE
    OBVIOUS
  <2>1. PICK q \in Wrong : \A y \in Wrong : q <= y
    BY LeastNumber
  <2>2. q # 0
    BY <1>2
  <2>3. q - 1 \in Nat /\ q - 1 \notin Wrong
    BY <2>1, <2>2
  <2>4. q \in 1 .. Len(s) /\ F[q - 1] \in Seq(S) /\ Enumerates(F[q - 1], s, h, q - 1)
    BY <1>1, <2>1, <2>2, <2>3
  <2>5. F[q] = IF matches(s[q], h) THEN Append(F[q - 1], s[q]) ELSE F[q - 1]
    BY <1>1, <2>4
  <2>6. Enumerates(F[q], s, h, q)
    BY <2>4, <2>5, EnumerateOneMore
  <2> QED
    BY <2>6
<1> QED
  BY <1>3 DEF F

(* t is u with the next event, if that passes the filter. *)
IsLonger(t, u, s, h, q) == t = IF matches(s[q], h) THEN Append(u, s[q]) ELSE u

LEMMA EnumerateOneLess ==
  ASSUME NEW S, NEW s \in Seq(S), Distinct(s), NEW h, NEW t \in Seq(S), NEW q \in 1 .. Len(s),
         Enumerates(t, s, h, q)
  PROVE  \E u \in Seq(S) : Enumerates(u, s, h, q - 1) /\ IsLonger(t, u, s, h, q)
<1> USE DEF IsLonger
<1>0. q \in 1 .. q /\ \A i \in 1 .. q - 1 : i \in 1 .. q /\ s[i] # s[q]
  BY DEF Distinct
<1>a. ASSUME NEW m \in 1 .. Len(t), NEW n \in 1 .. Len(t), NEW i \in 1 .. q, NEW j \in 1 .. q,
             m < n, t[m] = s[i], t[n] = s[j]
      PROVE  i < j
  BY <1>a DEF Enumerates
<1>1. CASE matches(s[q], h)
  <2>1. PICK l \in 1 .. Len(t) : t[l] = s[q]
    BY <1>1 DEF Enumerates
  <2>2. l = Len(t)
    <3>1. ASSUME l # Len(t) PROVE FALSE
      <4>1. l < Len(t) /\ Len(t) \in 1 .. Len(t)
        BY <3>1
      <4>2. PICK j \in 1 .. q : t[Len(t)] = s[j]
        BY <4>1 DEF Enumerates
      <4>3. q < j
        BY <1>0, <1>a, <2>1, <4>1, <4>2
      <4> QED
        BY <4>3
    <3> QED
      BY <3>1
  <2>3. PICK u : u = SubSeq(t, 1, Len(t) - 1)
    OBVIOUS
  <2>4. /\ u \in Seq(S) /\ Len(u) = Len(t) - 1
        /\ \A n \in 1 .. Len(u) : n \in 1 .. Len(t) /\ n < l /\ u[n] = t[n]
    BY <2>1, <2>2, <2>3
  <2>5. t = Append(u, s[q])
    BY <2>1, <2>2, <2>4
  <2>6. ASSUME NEW n \in 1 .. Len(u)
        PROVE  \E i \in 1 .. q - 1 : u[n] = s[i] /\ matches(s[i], h)
    <3>1. PICK i \in 1 .. q : t[n] = s[i] /\ matches(s[i], h)
      BY <2>4 DEF Enumerates
    <3>2. i < q
      BY <1>0, <1>a, <2>1, <2>4, <3>1
    <3> QED
      BY <2>4, <3>1, <3>2
  <2>7. ASSUME NEW i \in 1 .. q - 1, matches(s[i], h)
        PROVE  \E n \in 1 .. Len(u) : u[n] = s[i]
    <3>1. PICK n \in 1 .. Len(t) : t[n] = s[i]
      BY <2>7 DEF Enumerates
    <3>2. n # l
      BY <1>0, <2>1, <3>1
    <3> QED
      BY <2>2, <2>4, <3>1, <3>2
  <2>8. ASSUME NEW m \in 1 .. Len(u), NEW n \in 1 .. Len(u),
               NEW i \in 1 .. q - 1, NEW j \in 1 .. q - 1,
               m < n, u[m] = s[i], u[n] = s[j]
        PROVE  i < j
    BY <1>0, <1>a, <2>4, <2>8
  <2> QED
    BY <1>1, <2>4, <2>5, <2>6, <2>7, <2>8 DEF Enumerates
<1>2. CASE ~matches(s[q], h)
  <2>1. \A n \in 1 .. Len(t) : \E i \in 1 .. q - 1 : t[n] = s[i] /\ matches(s[i], h)
    <3> TAKE n \in 1 .. Len(t)
    <3>1. PICK i \in 1 .. q : t[n] = s[i] /\ matches(s[i], h)
      BY DEF Enumerates
    <3> QED
      BY <1>2, <3>1
  <2>2. Enumerates(t, s, h, q - 1)
    BY <1>0, <2>1 DEF Enumerates
  <2> QED
    BY <1>2, <2>2
<1> QED
  BY <1>1, <1>2

(* Only the filter's result lists them so. *)
LEMMA OfHostUnique ==
  ASSUME NEW S, NEW s \in Seq(S), Distinct(s), NEW h
  PROVE  \A q \in 0 .. Len(s), t \in Seq(S) : Enumerates(t, s, h, q) => t = OfHost(s, h)[q]
<1> DEFINE F == OfHost(s, h)
<1>1. /\ F[0] = <<>>
      /\ \A n \in 1 .. Len(s) :
           F[n] = IF matches(s[n], h) THEN Append(F[n - 1], s[n]) ELSE F[n - 1]
  BY OfHostSteps
<1> HIDE DEF F
<1> DEFINE Only(q) == \A t \in Seq(S) : Enumerates(t, s, h, q) => t = F[q]
<1> DEFINE Wrong == {q \in Nat : q <= Len(s) /\ ~Only(q)}
<1>2. Only(0)
  <2> TAKE t \in Seq(S)
  <2> HAVE Enumerates(t, s, h, 0)
  <2>1. ~ \E n \in 1 .. Len(t) : TRUE
    BY DEF Enumerates
  <2>2. Len(t) = 0
    BY <2>1
  <2> QED
    BY <1>1, <2>2
<1> HIDE DEF Only
<1>3. Wrong = {}
  <2> SUFFICES ASSUME Wrong # {} PROVE FALSE
    OBVIOUS
  <2>1. PICK q \in Wrong : \A y \in Wrong : q <= y
    BY LeastNumber
  <2>2. q # 0
    BY <1>2
  <2>3. q - 1 \in Nat /\ q - 1 \notin Wrong
    BY <2>1, <2>2
  <2>4. q \in 1 .. Len(s) /\ Only(q - 1)
    BY <2>1, <2>2, <2>3
  <2>5. ASSUME NEW t \in Seq(S), Enumerates(t, s, h, q) PROVE t = F[q]
    <3>1. PICK u \in Seq(S) : Enumerates(u, s, h, q - 1) /\ IsLonger(t, u, s, h, q)
      BY <2>4, <2>5, EnumerateOneLess
    <3>2. u = F[q - 1]
      BY <2>4, <3>1 DEF Only
    <3> QED
      BY <1>1, <2>4, <3>1, <3>2 DEF IsLonger
  <2> QED
    BY <2>5 DEF Only
<1> QED
  BY <1>3 DEF Only, F

LEMMA PrefixIs ==
  ASSUME NEW S, NEW s \in Seq(S), NEW t \in Seq(S)
  PROVE  IsPrefix(s, t) <=> Len(s) <= Len(t) /\ \A n \in 1 .. Len(s) : s[n] = t[n]
<1>1. CASE Len(s) <= Len(t)
  <2>1. /\ SubSeq(s, 1, Len(s)) = [n \in 1 .. Len(s) |-> s[n]]
        /\ SubSeq(t, 1, Len(s)) = [n \in 1 .. Len(s) |-> t[n]]
    BY <1>1
  <2> QED
    BY <1>1, <2>1 DEF IsPrefix
<1>2. CASE ~(Len(s) <= Len(t))
  BY <1>2 DEF IsPrefix
<1> QED
  BY <1>1, <1>2

(* What passes of a part of a list is the beginning of what passes of all. *)
LEMMA OfHostGrows ==
  ASSUME NEW S, NEW s \in Seq(S), NEW h, NEW q \in 0 .. Len(s)
  PROVE  IsPrefix(OfHost(s, h)[q], OfHost(s, h)[Len(s)])
<1> DEFINE F == OfHost(s, h)
<1>1. /\ \A n \in 1 .. Len(s) :
           F[n] = IF matches(s[n], h) THEN Append(F[n - 1], s[n]) ELSE F[n - 1]
      /\ \A n \in 0 .. Len(s) : F[n] \in Seq(S)
  BY OfHostSteps
<1> HIDE DEF F
<1> DEFINE Wrong == {r \in Nat : q <= r /\ r <= Len(s) /\ ~IsPrefix(F[q], F[r])}
<1>2. \A t \in Seq(S) : IsPrefix(t, t)
  BY DEF IsPrefix
<1>3. Wrong = {}
  <2> SUFFICES ASSUME Wrong # {} PROVE FALSE
    OBVIOUS
  <2>1. PICK r \in Wrong : \A y \in Wrong : r <= y
    BY LeastNumber
  <2>2. r # q
    BY <1>1, <1>2, <2>1
  <2>3. r - 1 \in Nat /\ r - 1 \notin Wrong
    BY <2>1, <2>2
  <2>4. /\ r \in 1 .. Len(s) /\ IsPrefix(F[q], F[r - 1])
        /\ F[q] \in Seq(S) /\ F[r - 1] \in Seq(S) /\ s[r] \in S
    BY <1>1, <2>1, <2>2, <2>3
  <2>5. F[r] = F[r - 1] \/ F[r] = Append(F[r - 1], s[r])
    BY <1>1, <2>4
  <2>6. IsPrefix(F[q], F[r])
    <3>1. /\ Len(F[q]) <= Len(F[r - 1])
          /\ \A n \in 1 .. Len(F[q]) : F[q][n] = F[r - 1][n]
      BY <2>4, PrefixIs
    <3>2. PICK a \in Seq(S), b \in Seq(S) : a = F[r - 1] /\ b = F[r]
      BY <1>1, <2>4
    <3>3. b = a \/ b = Append(a, s[r])
      BY <2>5, <3>2
    <3>4. Len(a) <= Len(b) /\ \A n \in 1 .. Len(a) : a[n] = b[n]
      <4>1. PICK x \in S : x = s[r]
        BY <2>4
      <4>2. Len(Append(a, x)) = Len(a) + 1 /\ \A n \in 1 .. Len(a) : Append(a, x)[n] = a[n]
        OBVIOUS
      <4>3. CASE b = a
        BY <4>3
      <4>4. CASE b = Append(a, x)
        BY <4>2, <4>4
      <4> QED
        BY <3>3, <4>1, <4>3, <4>4
    <3>5. Len(F[q]) <= Len(b) /\ \A n \in 1 .. Len(F[q]) : F[q][n] = b[n]
      <4>1. Len(F[q]) \in Nat /\ Len(a) \in Nat /\ Len(b) \in Nat
        BY <2>4
      <4> QED
        BY <3>1, <3>2, <3>4, <4>1
    <3> QED
      BY <2>4, <3>2, <3>5, PrefixIs
  <2> QED
    BY <2>1, <2>6
<1>4. Len(s) \notin Wrong
  BY <1>3
<1> QED
  BY <1>4 DEF F

LEMMA OneOfHost ==
  ASSUME NEW S, NEW e \in S, NEW h
  PROVE  OfHost(<<e>>, h)[Len(<<e>>)] = IF matches(e, h) THEN <<e>> ELSE <<>>
<1>1. <<e>> \in Seq(S) /\ Len(<<e>>) = 1 /\ <<e>>[1] = e
  OBVIOUS
<1>2. PICK s \in Seq(S) : s = <<e>>
  BY <1>1
<1>3. Len(s) = 1 /\ s[1] = e /\ 1 \in 1 .. Len(s)
  BY <1>1, <1>2
<1>4. OfHost(s, h)[1] = IF matches(s[1], h) THEN Append(OfHost(s, h)[0], s[1])
                        ELSE OfHost(s, h)[0]
  BY <1>3, OfHostSteps
<1>5. OfHost(s, h)[0] = <<>>
  BY OfHostSteps
<1>6. Append(<<>>, e) = <<e>>
  OBVIOUS
<1> QED
  BY <1>2, <1>3, <1>4, <1>5, <1>6

-----------------------------------------------------------------------------
(* The log holds each cursor once, none is newer than the hub's counter,   *)
(* and the hub keeps the latest part of the log.                           *)
Unkept == Len(log) - Len(history)
HubInv ==
  /\ sequence <= Len(log) /\ Len(log) <= MaxEvents
  /\ \A i \in 1 .. Len(log) :
       \/ log[i].cursor[1] < epoch
       \/ log[i].cursor[1] = epoch /\ log[i].cursor[2] <= sequence
  /\ \A i, j \in 1 .. Len(log) : log[i].cursor = log[j].cursor => i = j
  /\ Len(history) <= Len(log)
  /\ \A i \in 1 .. Len(history) : history[i] = log[Unkept + i]
  /\ NothingForgotten => Len(history) = Len(log)

LEMMA SinceIsSuffix ==
  ASSUME StreamTypeOK, NEW c
  PROVE  \E k \in 0 .. Len(history) :
           /\ since(c) = SubSeq(history, k + 1, Len(history))
           /\ IF k = 0 THEN c \notin Cursors(history) ELSE history[k].cursor = c
<1>1. history \in Seq(EventSet) /\ DOMAIN history = 1 .. Len(history) /\ Len(history) \in Nat
  BY DEF StreamTypeOK
<1>2. CASE c \notin Cursors(history)
  <2>1. since(c) = history
    BY <1>2 DEF since
  <2>2. history = SubSeq(history, 0 + 1, Len(history))
    BY <1>1
  <2> QED
    BY <1>1, <1>2, <2>1, <2>2
<1>3. CASE c \in Cursors(history)
  <2>1. PICK k : k = IndexOf(history, c)
    OBVIOUS
  <2>2. k \in 1 .. Len(history) /\ history[k].cursor = c
    BY <1>1, <1>3, <2>1 DEF IndexOf, Cursors
  <2>3. since(c) = SubSeq(history, k + 1, Len(history))
    BY <1>3, <2>1 DEF since
  <2> QED
    BY <2>2, <2>3
<1> QED
  BY <1>2, <1>3

LEMMA SinceTyped ==
  ASSUME StreamTypeOK, NEW c
  PROVE  since(c) \in Seq(EventSet) /\ ForHost(since(c)) \in Seq(EventSet)
<1>1. history \in Seq(EventSet)
  BY DEF StreamTypeOK
<1>2. PICK k \in 0 .. Len(history) : since(c) = SubSeq(history, k + 1, Len(history))
  BY SinceIsSuffix
<1>3. since(c) \in Seq(EventSet)
  BY <1>1, <1>2
<1>4. Len(since(c)) \in 0 .. Len(since(c))
  BY <1>3
<1> QED
  BY <1>3, <1>4, OfHostSteps DEF ForHost

LEMMA NotificationTyped ==
  ASSUME StreamTypeOK, NEW e \in EventSet
  PROVE  addNotification(e) \in Seq(EventSet) /\ Len(addNotification(e)) <= NotificationLimit
<1>1. notifications \in Seq(EventSet) /\ Len(notifications) <= NotificationLimit
  BY DEF StreamTypeOK
<1>2. PICK s : s = <<e>> \o notifications
  OBVIOUS
<1>3. s \in Seq(EventSet) /\ Len(s) = Len(notifications) + 1
  BY <1>1, <1>2
<1>4. NotificationLimit \in Nat /\ NotificationLimit > 0
  BY LimitsAssumption
<1>5. \A k \in 0 .. Len(s) : SubSeq(s, 1, k) \in Seq(EventSet) /\ Len(SubSeq(s, 1, k)) = k
  BY <1>3
<1>6. CASE e.cursor \in Cursors(notifications)
  BY <1>1, <1>6 DEF addNotification
<1>7. CASE e.cursor \notin Cursors(notifications)
  <2>1. PICK k : k = IF Len(notifications) < NotificationLimit
                     THEN Len(notifications) + 1 ELSE NotificationLimit
    OBVIOUS
  <2>2. k \in 0 .. Len(s) /\ k <= NotificationLimit
    BY <1>1, <1>3, <1>4, <2>1
  <2>3. addNotification(e) = SubSeq(s, 1, k)
    BY <1>2, <1>7, <2>1 DEF addNotification
  <2> QED
    BY <1>5, <2>2, <2>3
<1> QED
  BY <1>6, <1>7

LEMMA StreamTyped == StreamTypeOK /\ HubInv /\ [StreamNext]_streamVars => StreamTypeOK'
<1> SUFFICES ASSUME StreamTypeOK, HubInv, [StreamNext]_streamVars PROVE StreamTypeOK'
  OBVIOUS
<1> USE StreamBoundsAssumption, LimitsAssumption
<1>1. ASSUME NEW h \in HostIds, NEW k \in Kinds, Publish(h, k) PROVE StreamTypeOK'
  <2> DEFINE event == [cursor |-> <<epoch, sequence + 1>>, hostId |-> h, kind |-> k]
  <2>1. /\ sequence' = sequence + 1 /\ Len(log) < MaxEvents
        /\ history' = keep(Append(history, event)) /\ log' = Append(log, event)
        /\ frames' = IF phase = "open" THEN frames \o ForHost(<<event>>) ELSE frames
        /\ UNCHANGED <<epoch, hostId, phase, cursor, notifications, fetched, received,
                       drops, switches>>
    BY <1>1 DEF Publish
  <2>2. event \in EventSet
    <3>1. sequence \in Nat /\ Len(log) \in Nat /\ MaxEvents \in Nat
      BY DEF StreamTypeOK
    <3>2. sequence + 1 \in 1 .. MaxEvents /\ epoch \in 0 .. MaxRestarts
      BY <2>1, <3>1 DEF StreamTypeOK, HubInv
    <3> QED
      BY <3>2 DEF EventSet
  <2> HIDE DEF event
  <2>3. ForHost(<<event>>) \in Seq(EventSet)
    <3>1. ForHost(<<event>>) = IF matches(event, hostId) THEN <<event>> ELSE <<>>
      BY <2>2, OneOfHost DEF ForHost
    <3>2. <<event>> \in Seq(EventSet) /\ <<>> \in Seq(EventSet)
      BY <2>2
    <3> QED
      BY <3>1, <3>2
  <2>4. sequence' \in 0 .. MaxEvents
    BY <2>1 DEF StreamTypeOK, HubInv
  <2>5. history' \in Seq(EventSet) /\ Len(history') <= HistoryLimit
    <3>1. PICK s : s = Append(history, event)
      OBVIOUS
    <3>2. s \in Seq(EventSet) /\ Len(s) = Len(history) + 1 /\ Len(history) <= HistoryLimit
      BY <2>2, <3>1 DEF StreamTypeOK
    <3>3. Tail(s) \in Seq(EventSet) /\ Len(Tail(s)) = Len(history)
      BY <3>2 DEF StreamTypeOK
    <3> QED
      BY <2>1, <3>1, <3>2, <3>3 DEF keep
  <2>6. log' \in Seq(EventSet) /\ frames' \in Seq(EventSet)
    BY <2>1, <2>2, <2>3 DEF StreamTypeOK
  <2> QED
    BY <2>1, <2>4, <2>5, <2>6 DEF StreamTypeOK
<1>2. CASE Connect
  BY <1>2, SinceTyped DEF Connect, StreamTypeOK
<1>3. CASE Receive
  <2>1. PICK e : e = Head(frames)
    OBVIOUS
  <2>2. e \in EventSet /\ Tail(frames) \in Seq(EventSet)
    BY <1>3, <2>1 DEF Receive, StreamTypeOK
  <2>3. /\ frames' = Tail(frames) /\ cursor' = e.cursor /\ received' = Append(received, e)
        /\ notifications' \in {notifications, addNotification(e)}
        /\ fetched' = [fetched EXCEPT ![e.kind] = Len(log)]
        /\ UNCHANGED <<sequence, epoch, history, hostId, phase, log, drops, switches>>
    BY <1>3, <2>1 DEF Receive
  <2>4. cursor' \in (0 .. MaxRestarts) \X (1 .. MaxEvents)
    BY <2>2, <2>3 DEF EventSet
  <2>5. received' \in Seq(EventSet)
    BY <2>2, <2>3 DEF StreamTypeOK
  <2>6. fetched' \in [Kinds -> 0 .. MaxEvents]
    <3>1. Len(log) \in 0 .. MaxEvents
      BY DEF StreamTypeOK, HubInv
    <3> QED
      BY <2>2, <2>3, <3>1 DEF EventSet, StreamTypeOK
  <2>7. notifications' \in Seq(EventSet) /\ Len(notifications') <= NotificationLimit
    BY <2>2, <2>3, NotificationTyped DEF StreamTypeOK
  <2> QED
    BY <2>2, <2>3, <2>4, <2>5, <2>6, <2>7 DEF StreamTypeOK
<1>4. CASE Drop
  BY <1>4 DEF Drop, StreamTypeOK
<1>5. CASE Retry
  BY <1>5 DEF Retry, StreamTypeOK
<1>6. ASSUME NEW h \in HostIds, SwitchHost(h) PROVE StreamTypeOK'
  BY <1>6 DEF SwitchHost, StreamTypeOK, HubInv
<1>7. CASE clearNotifications
  BY <1>7 DEF clearNotifications, StreamTypeOK
<1>8. CASE RestartGateway
  BY <1>8 DEF RestartGateway, StreamTypeOK
<1>9. CASE UNCHANGED streamVars
  BY <1>9 DEF streamVars, StreamTypeOK
<1> QED
  BY <1>1, <1>2, <1>3, <1>4, <1>5, <1>6, <1>7, <1>8, <1>9 DEF StreamNext

(* A step that leaves the hub alone, and the two that do not. *)
LEMMA HubStands ==
  ASSUME HubInv, UNCHANGED <<sequence, epoch, history, log>>
  PROVE  HubInv'
  BY DEF HubInv, Unkept, NothingForgotten

(* The cursor of the next event is new. *)
NewEvent(h, k) == [cursor |-> <<epoch, sequence + 1>>, hostId |-> h, kind |-> k]

LEMMA PublishIsNew ==
  ASSUME StreamTypeOK, HubInv, NEW h \in HostIds, NEW k \in Kinds, Publish(h, k)
  PROVE  /\ NewEvent(h, k) \in EventSet
         /\ \A i \in 1 .. Len(log) : log[i].cursor # NewEvent(h, k).cursor
         /\ Len(log') = Len(log) + 1
         /\ \A i \in 1 .. Len(log) : log'[i] = log[i]
         /\ log'[Len(log) + 1] = NewEvent(h, k)
         /\ Len(history') <= Len(history) + 1
         /\ \A i \in 1 .. Len(history') :
              history'[i] = log'[Len(log') - Len(history') + i]
         /\ NothingForgotten' => Len(history') = Len(log')
         /\ Len(history') <= Len(log')
<1> DEFINE event == NewEvent(h, k)
<1>1. /\ sequence \in Nat /\ Len(log) \in Nat /\ MaxEvents \in Nat /\ epoch \in Nat
      /\ log \in Seq(EventSet) /\ history \in Seq(EventSet) /\ Len(history) \in Nat
  BY StreamBoundsAssumption DEF StreamTypeOK
<1>2. /\ sequence' = sequence + 1 /\ Len(log) < MaxEvents /\ epoch' = epoch
      /\ history' = keep(Append(history, event)) /\ log' = Append(log, event)
  BY DEF Publish, NewEvent
<1>3. event \in EventSet
  <2>1. sequence + 1 \in 1 .. MaxEvents /\ epoch \in 0 .. MaxRestarts
    BY <1>1, <1>2 DEF StreamTypeOK, HubInv
  <2> QED
    BY <2>1 DEF NewEvent, EventSet
<1>4. ASSUME NEW i \in 1 .. Len(log), log[i].cursor = event.cursor PROVE FALSE
  <2>1. event.cursor[1] = epoch /\ event.cursor[2] = sequence + 1
    BY DEF NewEvent
  <2> QED
    BY <1>1, <1>4, <2>1 DEF HubInv
<1> HIDE DEF event
<1>5. /\ Len(log') = Len(log) + 1 /\ log'[Len(log) + 1] = event
      /\ \A i \in 1 .. Len(log) : log'[i] = log[i]
  BY <1>1, <1>2, <1>3
<1>6. PICK s : s = Append(history, event)
  OBVIOUS
<1>7. /\ s \in Seq(EventSet) /\ Len(s) = Len(history) + 1 /\ s[Len(history) + 1] = event
      /\ \A i \in 1 .. Len(history) : s[i] = history[i]
  BY <1>1, <1>3, <1>6
<1>8. \A i \in 1 .. Len(s) : s[i] = log'[Len(log') - Len(s) + i]
  <2> TAKE i \in 1 .. Len(s)
  <2>1. CASE i = Len(s)
    BY <1>1, <1>5, <1>7, <2>1
  <2>2. CASE i \in 1 .. Len(history)
    <3>1. history[i] = log[Len(log) - Len(history) + i]
      BY <2>2 DEF HubInv, Unkept
    <3>2. Len(log) - Len(history) + i \in 1 .. Len(log)
      BY <1>1, <2>2 DEF HubInv
    <3> QED
      BY <1>1, <1>5, <1>7, <2>2, <3>1, <3>2
  <2> QED
    BY <1>1, <1>7, <2>1, <2>2
<1>9. CASE Len(s) <= HistoryLimit
  <2>1. history' = s
    BY <1>2, <1>6, <1>7, <1>9, LimitsAssumption DEF keep
  <2>2. NothingForgotten' => Len(history) = Len(log)
    BY <1>1, <1>2, <1>5, LimitsAssumption DEF HubInv, NothingForgotten
  <2>3. \A i \in 1 .. Len(history') : history'[i] = log'[Len(log') - Len(history') + i]
    BY <1>8, <2>1
  <2>4. /\ Len(history') <= Len(history) + 1 /\ Len(history') <= Len(log')
        /\ NothingForgotten' => Len(history') = Len(log')
    BY <1>1, <1>5, <1>7, <2>1, <2>2 DEF HubInv
  <2> QED
    BY <1>3, <1>4, <1>5, <2>3, <2>4 DEF event
<1>10. CASE ~(Len(s) <= HistoryLimit)
  <2>1. history' = Tail(s)
    BY <1>1, <1>2, <1>6, <1>7, <1>10, LimitsAssumption DEF keep
  <2>2. Len(history') = Len(history) /\ \A i \in 1 .. Len(history) : history'[i] = s[i + 1]
    BY <1>1, <1>7, <2>1
  <2>3. ASSUME NEW i \in 1 .. Len(history')
        PROVE  history'[i] = log'[Len(log') - Len(history') + i]
    <3>1. i + 1 \in 1 .. Len(s)
      BY <1>1, <1>7, <2>2
    <3>2. s[i + 1] = log'[Len(log') - Len(s) + (i + 1)]
      BY <1>8, <3>1
    <3>3. Len(log') - Len(s) + (i + 1) = Len(log') - Len(history') + i
      BY <1>1, <1>5, <1>7, <2>2
    <3> QED
      BY <2>2, <3>2, <3>3
  <2>4. ~NothingForgotten'
    <3>1. HistoryLimit \in Nat /\ Len(history) + 1 > HistoryLimit /\ Len(history) <= Len(log)
      BY <1>1, <1>7, <1>10, LimitsAssumption DEF HubInv
    <3> QED
      BY <1>1, <1>5, <3>1 DEF NothingForgotten
  <2> QED
    BY <1>1, <1>3, <1>4, <1>5, <1>7, <2>2, <2>3, <2>4 DEF event, HubInv
<1> QED
  BY <1>1, <1>7, <1>9, <1>10, LimitsAssumption

LEMMA PublishHub ==
  ASSUME StreamTypeOK, HubInv, NEW h \in HostIds, NEW k \in Kinds, Publish(h, k)
  PROVE  HubInv'
<1>1. /\ sequence' = sequence + 1 /\ Len(log) < MaxEvents /\ epoch' = epoch
      /\ sequence \in Nat /\ Len(log) \in Nat /\ MaxEvents \in Nat /\ epoch \in Nat
  BY StreamBoundsAssumption DEF Publish, StreamTypeOK
<1>2. /\ \A i \in 1 .. Len(log) : log[i].cursor # NewEvent(h, k).cursor
      /\ Len(log') = Len(log) + 1
      /\ \A i \in 1 .. Len(log) : log'[i] = log[i]
      /\ log'[Len(log) + 1] = NewEvent(h, k)
  BY PublishIsNew
<1>3. NewEvent(h, k).cursor[1] = epoch /\ NewEvent(h, k).cursor[2] = sequence + 1
  BY DEF NewEvent
<1>4. \A i \in 1 .. Len(log') : i \in 1 .. Len(log) \/ i = Len(log) + 1
  BY <1>1, <1>2
<1>5. ASSUME NEW i \in 1 .. Len(log')
      PROVE  \/ log'[i].cursor[1] < epoch'
             \/ log'[i].cursor[1] = epoch' /\ log'[i].cursor[2] <= sequence'
  <2>1. CASE i \in 1 .. Len(log)
    <3>1. log[i] \in EventSet
      BY <2>1 DEF StreamTypeOK
    <3>2. log[i].cursor[2] \in Int
      BY <3>1 DEF EventSet
    <3> QED
      BY <1>1, <1>2, <2>1, <3>2 DEF HubInv
  <2>2. CASE i = Len(log) + 1
    BY <1>1, <1>2, <1>3, <2>2
  <2> QED
    BY <1>4, <2>1, <2>2
<1>6. \A i, j \in 1 .. Len(log') : log'[i].cursor = log'[j].cursor => i = j
  BY <1>2, <1>4 DEF HubInv
<1>7. sequence' <= Len(log') /\ Len(log') <= MaxEvents
  BY <1>1, <1>2 DEF HubInv
<1> QED
  BY <1>5, <1>6, <1>7, PublishIsNew DEF HubInv, Unkept

LEMMA RestartHub ==
  ASSUME StreamTypeOK, HubInv, RestartGateway
  PROVE  HubInv'
<1>1. epoch' = epoch + 1 /\ sequence' = 0 /\ history' = <<>> /\ log' = log
  BY DEF RestartGateway
<1>2. epoch \in Nat /\ Len(log) \in Nat /\ Len(history') = 0
  BY <1>1 DEF StreamTypeOK
<1>3. ASSUME NEW i \in 1 .. Len(log) PROVE log[i].cursor[1] < epoch'
  <2>1. log[i] \in EventSet
    BY DEF StreamTypeOK
  <2>2. log[i].cursor[1] \in Int
    BY <2>1 DEF EventSet
  <2> QED
    BY <1>1, <1>2, <2>2 DEF HubInv
<1>4. ~NothingForgotten'
  BY <1>1, <1>2 DEF NothingForgotten
<1> QED
  BY <1>1, <1>2, <1>3, <1>4 DEF HubInv, Unkept

-----------------------------------------------------------------------------
(* What the hook has handled and what is on its way are events of its host *)
(* in the order of the log, the cursor is that of the last one handled,    *)
(* and what the hub keeps is among them: all of it while the stream is     *)
(* open, and all up to the cursor at any time.                             *)
Stream == received \o frames

Located ==
  \A n \in 1 .. Len(Stream) :
    \E i \in 1 .. Len(log) : Stream[n] = log[i] /\ matches(log[i], hostId)
Ordered ==
  \A m, n \in 1 .. Len(Stream), i, j \in 1 .. Len(log) :
    m < n /\ Stream[m] = log[i] /\ Stream[n] = log[j] => i < j
CursorIsLast ==
  cursor = IF received = <<>> THEN NoCursor ELSE received[Len(received)].cursor
FramesNeedSocket == phase # "open" => frames = <<>>
Reached(i) == phase = "open" \/ \E j \in i .. Len(log) : log[j].cursor = cursor
Covered ==
  \A i \in 1 .. Len(log) :
    i > Unkept /\ matches(log[i], hostId) /\ Reached(i)
      => \E n \in 1 .. Len(Stream) : Stream[n] = log[i]

(* The lists a handled event names were fetched after it was published.    *)
Fetched ==
  \A n \in 1 .. Len(received), i \in 1 .. Len(log) :
    received[n] = log[i] => fetched[log[i].kind] >= i

StreamInv == Located /\ Ordered /\ CursorIsLast /\ FramesNeedSocket /\ Covered /\ Fetched

LEMMA StreamParts ==
  ASSUME StreamTypeOK
  PROVE  /\ Stream \in Seq(EventSet) /\ Len(Stream) = Len(received) + Len(frames)
         /\ \A n \in 1 .. Len(received) : n \in 1 .. Len(Stream) /\ Stream[n] = received[n]
         /\ \A n \in 1 .. Len(frames) :
              /\ Len(received) + n \in 1 .. Len(Stream)
              /\ Stream[Len(received) + n] = frames[n]
         /\ Len(received) \in Nat /\ Len(frames) \in Nat /\ Len(log) \in Nat
         /\ Len(history) \in Nat
  BY DEF StreamTypeOK, Stream

LEMMA LogTyped ==
  ASSUME StreamTypeOK, HubInv
  PROVE  /\ \A i \in 1 .. Len(log) : log[i] \in EventSet /\ log[i].cursor # NoCursor
         /\ \A i, j \in 1 .. Len(log) : log[i] = log[j] => i = j
<1>1. ASSUME NEW i \in 1 .. Len(log) PROVE log[i] \in EventSet /\ log[i].cursor # NoCursor
  <2>1. log[i] \in EventSet
    BY DEF StreamTypeOK
  <2>2. log[i].cursor \in Nat \X Nat
    BY <2>1, StreamBoundsAssumption DEF EventSet
  <2> QED
    BY <2>1, <2>2, NoCursorAssumption
<1> QED
  BY <1>1 DEF HubInv

(* Events that were handled are no newer than the cursor, those on their   *)
(* way are.                                                                *)
LEMMA CursorDivides ==
  ASSUME StreamTypeOK, HubInv, Located, Ordered, CursorIsLast,
         NEW j \in 1 .. Len(log), log[j].cursor = cursor
  PROVE  /\ \A n \in 1 .. Len(received), i \in 1 .. Len(log) : received[n] = log[i] => i <= j
         /\ \A n \in 1 .. Len(frames), i \in 1 .. Len(log) : frames[n] = log[i] => j < i
<1>1. received # <<>> /\ cursor = received[Len(received)].cursor
  BY LogTyped DEF CursorIsLast
<1>2. Len(received) \in 1 .. Len(received)
  BY <1>1 DEF StreamTypeOK
<1>3. received[Len(received)] = log[j]
  <2>1. PICK i \in 1 .. Len(log) : received[Len(received)] = log[i]
    BY <1>2, StreamParts DEF Located
  <2>2. i = j
    BY <1>1, <2>1 DEF HubInv
  <2> QED
    BY <2>1, <2>2
<1>4. ASSUME NEW n \in 1 .. Len(received), NEW i \in 1 .. Len(log), received[n] = log[i]
      PROVE  i <= j
  <2>1. CASE n = Len(received)
    BY <1>3, <1>4, <2>1, LogTyped
  <2>2. CASE n < Len(received)
    BY <1>2, <1>3, <1>4, <2>2, StreamParts DEF Ordered
  <2> QED
    BY <2>1, <2>2, StreamParts
<1>5. ASSUME NEW n \in 1 .. Len(frames), NEW i \in 1 .. Len(log), frames[n] = log[i]
      PROVE  j < i
  <2>1. Len(received) < Len(received) + n
    BY StreamParts
  <2> QED
    BY <1>2, <1>3, <1>5, <2>1, StreamParts DEF Ordered
<1> QED
  BY <1>4, <1>5

(* What a connection replays: the events of the host in the log from some  *)
(* place on, which is after everything the hook has handled and leaves out *)
(* nothing the hub keeps after the cursor.                                 *)
Replayed(b) ==
  LET replay == ForHost(since(cursor))
  IN  /\ \A n \in 1 .. Len(replay) :
           \E i \in b + 1 .. Len(log) : replay[n] = log[i] /\ matches(log[i], hostId)
      /\ \A i \in b + 1 .. Len(log) :
           matches(log[i], hostId) => \E n \in 1 .. Len(replay) : replay[n] = log[i]
      /\ \A m, n \in 1 .. Len(replay), i, j \in 1 .. Len(log) :
           m < n /\ replay[m] = log[i] /\ replay[n] = log[j] => i < j
      /\ b = Unkept \/ (b \in 1 .. Len(log) /\ log[b].cursor = cursor)
      /\ \A n \in 1 .. Len(received), i \in 1 .. Len(log) : received[n] = log[i] => i <= b

LEMMA ConnectReplays ==
  ASSUME StreamTypeOK, HubInv, Located, Ordered, CursorIsLast
  PROVE  \E b \in 0 .. Len(log) : Replayed(b)
<1>1. PICK k \in 0 .. Len(history) :
        /\ since(cursor) = SubSeq(history, k + 1, Len(history))
        /\ IF k = 0 THEN cursor \notin Cursors(history) ELSE history[k].cursor = cursor
  BY SinceIsSuffix
<1>2. PICK s : s = since(cursor)
  OBVIOUS
<1>0. /\ Unkept \in Int /\ Unkept >= 0 /\ Unkept + Len(history) = Len(log)
      /\ Len(log) \in Nat /\ Len(history) \in Nat
  <2>1. Len(log) \in Nat /\ Len(history) \in Nat /\ Len(history) <= Len(log)
    BY StreamParts DEF HubInv
  <2> QED
    BY <2>1 DEF Unkept
<1>3. PICK b \in 0 .. Len(log) : b = Unkept + k
  <2>1. Unkept + k \in 0 .. Len(log)
    BY <1>0
  <2> QED
    BY <2>1
<1>4. /\ s \in Seq(EventSet) /\ Len(s) = Len(log) - b
      /\ \A n \in 1 .. Len(s) : b + n \in b + 1 .. Len(log) /\ s[n] = log[b + n]
  <2>1. s \in Seq(EventSet) /\ Len(s) = Len(history) - k
        /\ \A n \in 1 .. Len(s) : k + n \in 1 .. Len(history) /\ s[n] = history[k + n]
    BY <1>1, <1>2 DEF StreamTypeOK
  <2>2. Len(s) = Len(log) - b
    BY <1>3, <2>1, StreamParts DEF Unkept
  <2>3. ASSUME NEW n \in 1 .. Len(s) PROVE b + n \in b + 1 .. Len(log) /\ s[n] = log[b + n]
    <3>1. history[k + n] = log[Unkept + (k + n)]
      BY <2>1 DEF HubInv
    <3>2. Unkept + (k + n) = b + n /\ b + n \in b + 1 .. Len(log)
      BY <1>3, <2>1, <2>2, StreamParts DEF Unkept
    <3> QED
      BY <2>1, <3>1, <3>2
  <2> QED
    BY <2>1, <2>2, <2>3
<1>5. ASSUME NEW i \in b + 1 .. Len(log)
      PROVE  i - b \in 1 .. Len(s) /\ s[i - b] = log[i] /\ i \in 1 .. Len(log)
  <2>1. i - b \in 1 .. Len(s) /\ b + (i - b) = i
    BY <1>4, StreamParts
  <2> QED
    BY <1>4, <2>1
<1>6. Distinct(s)
  <2> SUFFICES ASSUME NEW m \in 1 .. Len(s), NEW n \in 1 .. Len(s), s[m] = s[n] PROVE m = n
    BY DEF Distinct
  <2>1. b + m \in 1 .. Len(log) /\ b + n \in 1 .. Len(log) /\ log[b + m] = log[b + n]
    BY <1>4, StreamParts
  <2>2. b + m = b + n
    BY <2>1, LogTyped
  <2> QED
    BY <2>2, StreamParts
<1>7. PICK replay : replay = ForHost(since(cursor))
  OBVIOUS
<1>8. Enumerates(replay, s, hostId, Len(s))
  <2>1. Len(s) \in 0 .. Len(s)
    BY <1>4
  <2> QED
    BY <1>2, <1>4, <1>6, <1>7, <2>1, OfHostEnumerates DEF ForHost
<1>9. \A n \in 1 .. Len(replay) :
        \E i \in b + 1 .. Len(log) : replay[n] = log[i] /\ matches(log[i], hostId)
  <2>1. \A n \in 1 .. Len(replay) :
          \E i \in 1 .. Len(s) : replay[n] = s[i] /\ matches(s[i], hostId)
    BY <1>8 DEF Enumerates
  <2> TAKE n \in 1 .. Len(replay)
  <2>2. PICK i \in 1 .. Len(s) : replay[n] = s[i] /\ matches(s[i], hostId)
    BY <2>1
  <2>3. b + i \in b + 1 .. Len(log) /\ s[i] = log[b + i]
    BY <1>4
  <2> QED
    BY <2>2, <2>3
<1>10. \A i \in b + 1 .. Len(log) :
         matches(log[i], hostId) => \E n \in 1 .. Len(replay) : replay[n] = log[i]
  <2>1. \A i \in 1 .. Len(s) :
          matches(s[i], hostId) => \E n \in 1 .. Len(replay) : replay[n] = s[i]
    BY <1>8 DEF Enumerates
  <2> QED
    BY <1>5, <2>1
<1>11. ASSUME NEW m \in 1 .. Len(replay), NEW n \in 1 .. Len(replay),
              NEW i \in 1 .. Len(log), NEW j \in 1 .. Len(log),
              m < n, replay[m] = log[i], replay[n] = log[j]
       PROVE  i < j
  <2>1. i \in b + 1 .. Len(log) /\ j \in b + 1 .. Len(log)
    BY <1>5, <1>9, <1>11, LogTyped
  <2>2. \A p, q \in 1 .. Len(s) : replay[m] = s[p] /\ replay[n] = s[q] => p < q
    BY <1>8, <1>11 DEF Enumerates
  <2>3. i - b < j - b
    BY <1>5, <1>11, <2>1, <2>2
  <2> QED
    BY <2>1, <2>3, StreamParts
<1>12. b = Unkept \/ (b \in 1 .. Len(log) /\ log[b].cursor = cursor)
  <2>1. CASE k = 0
    BY <1>0, <1>3, <2>1
  <2>2. CASE k \in 1 .. Len(history)
    <3>1. history[k] = log[Unkept + k] /\ history[k].cursor = cursor
      BY <1>1, <2>2 DEF HubInv
    <3>2. b \in 1 .. Len(log)
      BY <1>0, <1>3, <2>2
    <3> QED
      BY <1>3, <3>1, <3>2
  <2> QED
    BY <2>1, <2>2, StreamParts
<1>13. ASSUME NEW n \in 1 .. Len(received), NEW i \in 1 .. Len(log), received[n] = log[i]
       PROVE  i <= b
  <2>1. received # <<>> /\ Len(received) \in 1 .. Len(received)
    BY StreamParts
  <2>2. PICK p \in 1 .. Len(log) : received[Len(received)] = log[p]
    BY <2>1, StreamParts DEF Located
  <2>3. log[p].cursor = cursor
    BY <2>1, <2>2 DEF CursorIsLast
  <2>4. i <= p
    BY <1>13, <2>3, CursorDivides
  <2>5. p <= b
    <3>1. CASE k = 0
      <4>1. ASSUME p > Unkept PROVE FALSE
        <5>1. p - Unkept \in 1 .. Len(history) /\ Unkept + (p - Unkept) = p
          BY <4>1, StreamParts DEF Unkept
        <5>2. history[p - Unkept] = log[p]
          BY <5>1 DEF HubInv
        <5>3. cursor \in Cursors(history)
          BY <2>3, <5>1, <5>2 DEF Cursors, StreamTypeOK
        <5> QED
          BY <1>1, <3>1, <5>3
      <4> QED
        BY <1>3, <3>1, <4>1, StreamParts DEF Unkept
    <3>2. CASE k # 0
      <4>1. history[k] = log[b] /\ history[k].cursor = cursor /\ b \in 1 .. Len(log)
        BY <1>1, <1>3, <3>2, StreamParts DEF HubInv, Unkept
      <4> QED
        BY <2>3, <4>1, StreamParts DEF HubInv
    <3> QED
      BY <3>1, <3>2
  <2> QED
    BY <2>4, <2>5, StreamParts
<1> QED
  BY <1>7, <1>9, <1>10, <1>11, <1>12, <1>13 DEF Replayed

(* A connection that is gone, or still to come, takes with it what was on  *)
(* its way: events newer than the cursor.                                  *)
LEMMA WithoutFrames ==
  ASSUME StreamTypeOK, HubInv, StreamInv, frames' = <<>>, phase' # "open",
         UNCHANGED <<hostId, cursor, fetched, log, received>>,
         history' = history \/ history' = <<>>
  PROVE  StreamInv'
<1>1. /\ \A n \in 1 .. Len(received) :
           /\ n \in 1 .. Len(Stream) /\ Stream[n] = received[n]
           /\ n \in 1 .. Len(Stream') /\ Stream'[n] = received[n]
      /\ Len(Stream') = Len(received)
  <2>1. received \in Seq(EventSet) /\ Stream' = received \o <<>>
    BY DEF StreamTypeOK, Stream
  <2> QED
    BY <2>1, StreamParts
<1>2. Located'
  BY <1>1 DEF StreamInv, Located
<1>3. Ordered'
  BY <1>1 DEF StreamInv, Ordered
<1>4. CursorIsLast' /\ FramesNeedSocket' /\ Fetched'
  BY DEF StreamInv, CursorIsLast, FramesNeedSocket, Fetched
<1>5. ASSUME NEW i \in 1 .. Len(log), i > Unkept', matches(log[i], hostId), Reached(i)'
      PROVE  \E n \in 1 .. Len(received) : received[n] = log[i]
  <2>1. i > Unkept
    BY <1>5, StreamParts DEF Unkept
  <2>2. PICK j \in i .. Len(log) : log[j].cursor = cursor
    BY <1>5 DEF Reached
  <2>3. PICK n \in 1 .. Len(Stream) : Stream[n] = log[i]
    BY <1>5, <2>1, <2>2 DEF StreamInv, Covered, Reached
  <2>4. CASE n \in 1 .. Len(received)
    BY <1>1, <2>3, <2>4
  <2>5. CASE n \notin 1 .. Len(received)
    <3>1. n - Len(received) \in 1 .. Len(frames) /\ Len(received) + (n - Len(received)) = n
      BY <2>5, StreamParts
    <3>2. frames[n - Len(received)] = log[i]
      BY <2>3, <3>1, StreamParts
    <3>3. j \in 1 .. Len(log)
      OBVIOUS
    <3>4. j < i
      BY <2>2, <3>1, <3>2, <3>3, CursorDivides DEF StreamInv
    <3> QED
      BY <3>4
  <2> QED
    BY <2>4, <2>5
<1>6. Covered'
  BY <1>1, <1>5 DEF Covered
<1> QED
  BY <1>2, <1>3, <1>4, <1>6 DEF StreamInv

LEMMA ConnectStream ==
  ASSUME StreamTypeOK, HubInv, StreamInv, Connect
  PROVE  StreamInv'
<1>1. /\ frames' = ForHost(since(cursor)) /\ phase' = "open" /\ frames = <<>>
      /\ UNCHANGED <<history, hostId, cursor, fetched, log, received>>
  BY DEF Connect, StreamInv, FramesNeedSocket
<1>2. PICK b \in 0 .. Len(log) : Replayed(b)
  BY ConnectReplays DEF StreamInv
<1>3. frames' \in Seq(EventSet) /\ received \in Seq(EventSet) /\ Len(frames') \in Nat
      /\ Len(received) \in Nat /\ Len(log) \in Nat
  BY <1>1, SinceTyped DEF StreamTypeOK
<1>4. /\ \A n \in 1 .. Len(frames') :
           \E i \in b + 1 .. Len(log) : frames'[n] = log[i] /\ matches(log[i], hostId)
      /\ \A i \in b + 1 .. Len(log) :
           matches(log[i], hostId) => \E n \in 1 .. Len(frames') : frames'[n] = log[i]
      /\ \A m, n \in 1 .. Len(frames'), i, j \in 1 .. Len(log) :
           m < n /\ frames'[m] = log[i] /\ frames'[n] = log[j] => i < j
      /\ b = Unkept \/ (b \in 1 .. Len(log) /\ log[b].cursor = cursor)
      /\ \A n \in 1 .. Len(received), i \in 1 .. Len(log) : received[n] = log[i] => i <= b
  BY <1>1, <1>2 DEF Replayed
<1>5. Stream = received
  BY <1>1, <1>3 DEF Stream
<1>6. /\ Len(Stream') = Len(received) + Len(frames')
      /\ \A n \in 1 .. Len(received) : n \in 1 .. Len(Stream') /\ Stream'[n] = received[n]
      /\ \A n \in 1 .. Len(frames') :
           /\ Len(received) + n \in 1 .. Len(Stream')
           /\ Stream'[Len(received) + n] = frames'[n]
  BY <1>1, <1>3 DEF Stream
<1>7. ASSUME NEW n \in 1 .. Len(Stream')
      PROVE  \/ n \in 1 .. Len(received) /\ Stream'[n] = received[n]
             \/ /\ n - Len(received) \in 1 .. Len(frames')
                /\ Stream'[n] = frames'[n - Len(received)]
  <2>1. CASE n <= Len(received)
    BY <1>3, <1>6, <2>1
  <2>2. CASE ~(n <= Len(received))
    <3>1. n - Len(received) \in 1 .. Len(frames') /\ Len(received) + (n - Len(received)) = n
      BY <1>3, <1>6, <2>2
    <3> QED
      BY <1>6, <3>1
  <2> QED
    BY <2>1, <2>2
<1>8. Located'
  <2> SUFFICES ASSUME NEW n \in 1 .. Len(Stream')
               PROVE  \E i \in 1 .. Len(log) : Stream'[n] = log[i] /\ matches(log[i], hostId)
    BY <1>1 DEF Located
  <2>1. CASE n \in 1 .. Len(received) /\ Stream'[n] = received[n]
    BY <1>5, <2>1 DEF StreamInv, Located
  <2>2. CASE /\ n - Len(received) \in 1 .. Len(frames')
             /\ Stream'[n] = frames'[n - Len(received)]
    <3>1. PICK i \in b + 1 .. Len(log) :
            frames'[n - Len(received)] = log[i] /\ matches(log[i], hostId)
      BY <1>4, <2>2
    <3>2. i \in 1 .. Len(log)
      BY <1>3
    <3> QED
      BY <2>2, <3>1, <3>2
  <2> QED
    BY <1>7, <2>1, <2>2
<1>9. Ordered'
  <2> SUFFICES ASSUME NEW m \in 1 .. Len(Stream'), NEW n \in 1 .. Len(Stream'),
                      NEW i \in 1 .. Len(log), NEW j \in 1 .. Len(log),
                      m < n, Stream'[m] = log[i], Stream'[n] = log[j]
               PROVE  i < j
    BY <1>1 DEF Ordered
  <2>1. CASE n \in 1 .. Len(received) /\ Stream'[n] = received[n]
    <3>1. m \in 1 .. Len(received) /\ Stream'[m] = received[m]
      BY <1>3, <1>6, <2>1
    <3> QED
      BY <1>5, <2>1, <3>1 DEF StreamInv, Ordered
  <2>2. CASE /\ n - Len(received) \in 1 .. Len(frames')
             /\ Stream'[n] = frames'[n - Len(received)]
    <3>1. PICK q \in b + 1 .. Len(log) : frames'[n - Len(received)] = log[q]
      BY <1>4, <2>2
    <3>2. j > b
      <4>1. q \in 1 .. Len(log) /\ q > b /\ log[q] = log[j]
        BY <1>3, <2>2, <3>1
      <4> QED
        BY <4>1, LogTyped
    <3>3. CASE m \in 1 .. Len(received) /\ Stream'[m] = received[m]
      <4>1. i <= b
        BY <1>4, <3>3
      <4> QED
        BY <1>3, <3>2, <4>1
    <3>4. CASE /\ m - Len(received) \in 1 .. Len(frames')
               /\ Stream'[m] = frames'[m - Len(received)]
      <4>1. m - Len(received) < n - Len(received)
        BY <1>3, <1>6
      <4>2. PICK x, y \in 1 .. Len(frames') : x = m - Len(received) /\ y = n - Len(received)
        BY <2>2, <3>4
      <4>3. x < y /\ frames'[x] = log[i] /\ frames'[y] = log[j]
        BY <2>2, <3>4, <4>1, <4>2
      <4> QED
        BY <1>4, <4>3
    <3> QED
      BY <1>7, <3>3, <3>4
  <2> QED
    BY <1>7, <2>1, <2>2
<1>10. Covered'
  <2> SUFFICES ASSUME NEW i \in 1 .. Len(log), i > Unkept, matches(log[i], hostId)
               PROVE  \E n \in 1 .. Len(Stream') : Stream'[n] = log[i]
    BY <1>1 DEF Covered, Unkept
  <2>1. CASE i > b
    <3>1. i \in b + 1 .. Len(log)
      BY <1>3, <2>1
    <3>2. PICK n \in 1 .. Len(frames') : frames'[n] = log[i]
      BY <1>4, <3>1
    <3> QED
      BY <1>6, <3>2
  <2>2. CASE ~(i > b)
    <3>1. i <= b /\ b # Unkept
      BY <1>3, <2>2, StreamParts DEF Unkept
    <3>2. b \in i .. Len(log) /\ log[b].cursor = cursor
      BY <1>3, <1>4, <3>1
    <3>3. Reached(i)
      BY <3>2 DEF Reached
    <3>4. PICK n \in 1 .. Len(received) : received[n] = log[i]
      BY <1>5, <3>3 DEF StreamInv, Covered
    <3> QED
      BY <1>6, <3>4
  <2> QED
    BY <2>1, <2>2
<1>11. CursorIsLast' /\ FramesNeedSocket' /\ Fetched'
  BY <1>1 DEF StreamInv, CursorIsLast, FramesNeedSocket, Fetched
<1> QED
  BY <1>8, <1>9, <1>10, <1>11 DEF StreamInv

(* The cursor of the hook is one the hub has given out. *)
LEMMA CursorKnown ==
  ASSUME StreamTypeOK, HubInv, StreamInv
  PROVE  cursor = NoCursor \/ \E i \in 1 .. Len(log) : log[i].cursor = cursor
<1>1. CASE received = <<>>
  BY <1>1 DEF StreamInv, CursorIsLast
<1>2. CASE received # <<>>
  <2>1. Len(received) \in 1 .. Len(received)
    BY <1>2 DEF StreamTypeOK
  <2>2. PICK i \in 1 .. Len(log) : received[Len(received)] = log[i]
    BY <2>1, StreamParts DEF StreamInv, Located
  <2> QED
    BY <1>2, <2>2 DEF StreamInv, CursorIsLast
<1> QED
  BY <1>1, <1>2

LEMMA PublishStream ==
  ASSUME StreamTypeOK, HubInv, StreamInv,
         NEW h \in HostIds, NEW k \in Kinds, Publish(h, k)
  PROVE  StreamInv'
<1>1. PICK e \in EventSet : e = NewEvent(h, k)
  BY PublishIsNew
<1>2. PICK l \in Nat : l = Len(log)
  BY StreamParts
<1>3. /\ \A i \in 1 .. l : log[i].cursor # e.cursor
      /\ Len(log') = l + 1
      /\ \A i \in 1 .. l : log'[i] = log[i]
      /\ log'[l + 1] = e
      /\ Len(history') <= Len(history) + 1
      /\ Len(history) \in Nat /\ Len(history') \in Nat
  <2>1. StreamTypeOK'
    BY StreamTyped DEF StreamNext
  <2>2. Len(history) \in Nat /\ Len(history') \in Nat
    <3>1. history \in Seq(EventSet) /\ history' \in Seq(EventSet)
      BY <2>1 DEF StreamTypeOK
    <3> QED
      BY <3>1
  <2> QED
    BY <1>1, <1>2, <2>2, PublishIsNew
<1>4. /\ frames' = IF phase = "open" THEN frames \o ForHost(<<e>>) ELSE frames
      /\ UNCHANGED <<hostId, phase, cursor, fetched, received>>
  BY <1>1 DEF Publish, NewEvent
<1>5. PICK t \in Seq(EventSet) : t = Stream
  BY StreamParts
<1>6. PICK u : u = Stream'
  OBVIOUS
<1>7. /\ phase = "open" /\ matches(e, hostId) => u = Append(t, e)
      /\ ~(phase = "open" /\ matches(e, hostId)) => u = t
  <2>1. ForHost(<<e>>) = IF matches(e, hostId) THEN <<e>> ELSE <<>>
    BY OneOfHost DEF ForHost
  <2>2. received \in Seq(EventSet) /\ frames \in Seq(EventSet)
    BY DEF StreamTypeOK
  <2>3. (received \o (frames \o <<e>>)) = Append(received \o frames, e)
    BY <2>2
  <2>4. frames \o <<>> = frames
    BY <2>2
  <2> QED
    BY <1>4, <1>5, <1>6, <2>1, <2>3, <2>4 DEF Stream
<1>8. /\ \A n \in 1 .. Len(t) : n \in 1 .. Len(u) /\ u[n] = t[n]
      /\ \A n \in 1 .. Len(u) :
           \/ n \in 1 .. Len(t)
           \/ n = Len(t) + 1 /\ u[n] = e /\ matches(e, hostId)
      /\ phase = "open" /\ matches(e, hostId) =>
           Len(t) + 1 \in 1 .. Len(u) /\ u[Len(t) + 1] = e
  BY <1>7
<1>9. \A n \in 1 .. Len(t) : \E i \in 1 .. l : t[n] = log[i] /\ matches(log[i], hostId)
  BY <1>2, <1>5 DEF StreamInv, Located
<1>10. \A i \in 1 .. Len(log') : i \in 1 .. l \/ i = l + 1
  BY <1>3
<1>11. cursor # e.cursor
  <2>1. e.cursor \in Nat \X Nat
    BY StreamBoundsAssumption DEF EventSet
  <2> QED
    BY <1>2, <1>3, <2>1, CursorKnown, NoCursorAssumption
<1>12. ASSUME NEW n \in 1 .. Len(t), NEW i \in 1 .. Len(log'), t[n] = log'[i]
       PROVE  i \in 1 .. l /\ t[n] = log[i]
  <2>1. PICK p \in 1 .. l : t[n] = log[p]
    BY <1>9
  <2>2. i # l + 1
    BY <1>3, <1>12, <2>1
  <2> QED
    BY <1>3, <1>10, <1>12, <2>2
<1>13. Located'
  <2> SUFFICES ASSUME NEW n \in 1 .. Len(u)
               PROVE  \E i \in 1 .. Len(log') : u[n] = log'[i] /\ matches(log'[i], hostId)
    BY <1>4, <1>6 DEF Located
  <2>1. CASE n \in 1 .. Len(t)
    <3>1. PICK i \in 1 .. l : t[n] = log[i] /\ matches(log[i], hostId)
      BY <1>9, <2>1
    <3>2. i \in 1 .. Len(log')
      BY <1>3
    <3> QED
      BY <1>3, <1>8, <2>1, <3>1, <3>2
  <2>2. CASE n = Len(t) + 1 /\ u[n] = e /\ matches(e, hostId)
    <3>1. l + 1 \in 1 .. Len(log')
      BY <1>3
    <3> QED
      BY <1>3, <2>2, <3>1
  <2> QED
    BY <1>8, <2>1, <2>2
<1>14. Ordered'
  <2> SUFFICES ASSUME NEW m \in 1 .. Len(u), NEW n \in 1 .. Len(u),
                      NEW i \in 1 .. Len(log'), NEW j \in 1 .. Len(log'),
                      m < n, u[m] = log'[i], u[n] = log'[j]
               PROVE  i < j
    BY <1>6 DEF Ordered
  <2>1. m \in 1 .. Len(t) /\ i \in 1 .. l /\ t[m] = log[i]
    <3>1. m \in 1 .. Len(t)
      BY <1>8
    <3> QED
      BY <1>8, <1>12, <3>1
  <2>2. CASE n \in 1 .. Len(t)
    <3>1. j \in 1 .. l /\ t[n] = log[j]
      BY <1>8, <1>12, <2>2
    <3> QED
      BY <1>2, <1>5, <2>1, <2>2, <3>1 DEF StreamInv, Ordered
  <2>3. CASE n = Len(t) + 1 /\ u[n] = e
    <3>1. j = l + 1
      BY <1>3, <1>10, <2>3
    <3> QED
      BY <2>1, <3>1
  <2> QED
    BY <1>8, <2>2, <2>3
<1>15. Covered'
  <2> SUFFICES ASSUME NEW i \in 1 .. Len(log'), i > Unkept', matches(log'[i], hostId),
                      Reached(i)'
               PROVE  \E n \in 1 .. Len(u) : u[n] = log'[i]
    BY <1>4, <1>6 DEF Covered
  <2>1. phase = "open" \/ \E j \in i .. l : log[j].cursor = cursor
    <3>1. CASE phase = "open"
      BY <3>1
    <3>2. CASE phase # "open"
      <4>1. PICK j \in i .. Len(log') : log'[j].cursor = cursor
        BY <1>4, <3>2 DEF Reached
      <4>2. j \in 1 .. Len(log') /\ j # l + 1
        BY <1>3, <1>11, <4>1
      <4>3. j \in i .. l /\ j \in 1 .. l
        BY <1>10, <4>2
      <4> QED
        BY <1>3, <4>1, <4>3
    <3> QED
      BY <3>1, <3>2
  <2>2. CASE i \in 1 .. l
    <3>1. i > Unkept /\ log'[i] = log[i]
      BY <1>2, <1>3, <2>2 DEF Unkept
    <3>2. PICK n \in 1 .. Len(t) : t[n] = log[i]
      BY <1>2, <1>5, <2>1, <2>2, <3>1 DEF StreamInv, Covered, Reached
    <3> QED
      BY <1>8, <3>1, <3>2
  <2>3. CASE i = l + 1
    <3>1. phase = "open"
      BY <2>1, <2>3
    <3> QED
      BY <1>3, <1>8, <2>3, <3>1
  <2> QED
    BY <1>10, <2>2, <2>3
<1>16. CursorIsLast' /\ FramesNeedSocket'
  BY <1>4 DEF StreamInv, CursorIsLast, FramesNeedSocket
<1>17. Fetched'
  <2> SUFFICES ASSUME NEW n \in 1 .. Len(received), NEW i \in 1 .. Len(log'),
                      received[n] = log'[i]
               PROVE  fetched[log'[i].kind] >= i
    BY <1>4 DEF Fetched
  <2>1. n \in 1 .. Len(t) /\ t[n] = received[n]
    BY <1>5, StreamParts
  <2>2. i \in 1 .. l /\ received[n] = log[i]
    BY <1>12, <2>1
  <2> QED
    BY <1>2, <1>3, <2>2 DEF StreamInv, Fetched
<1> QED
  BY <1>13, <1>14, <1>15, <1>16, <1>17 DEF StreamInv

LEMMA ReceiveStream ==
  ASSUME StreamTypeOK, HubInv, StreamInv, Receive
  PROVE  StreamInv'
<1>1. PICK e : e = Head(frames)
  OBVIOUS
<1>2. /\ phase = "open" /\ frames # <<>> /\ frames' = Tail(frames) /\ cursor' = e.cursor
      /\ received' = Append(received, e)
      /\ fetched' = [fetched EXCEPT ![e.kind] = Len(log)]
      /\ UNCHANGED <<history, hostId, phase, log>>
  BY <1>1 DEF Receive
<1>3. frames \in Seq(EventSet) /\ received \in Seq(EventSet) /\ e \in EventSet
  BY <1>1, <1>2 DEF StreamTypeOK
<1>4. Stream' = Stream
  <2>1. Append(received, e) \o Tail(frames) = received \o frames
    BY <1>1, <1>2, <1>3
  <2> QED
    BY <1>2, <2>1 DEF Stream
<1>5. Located' /\ Ordered'
  BY <1>2, <1>4 DEF StreamInv, Located, Ordered
<1>6. Covered'
  BY <1>2, <1>4 DEF StreamInv, Covered, Reached, Unkept
<1>7. /\ received' \in Seq(EventSet) /\ Len(received') = Len(received) + 1
      /\ received'[Len(received) + 1] = e
      /\ \A n \in 1 .. Len(received) : received'[n] = received[n]
      /\ Len(received) \in Nat
  BY <1>2, <1>3
<1>8. CursorIsLast' /\ FramesNeedSocket'
  BY <1>2, <1>7 DEF CursorIsLast, FramesNeedSocket
<1>9. Fetched'
  <2> SUFFICES ASSUME NEW n \in 1 .. Len(received'), NEW i \in 1 .. Len(log),
                      received'[n] = log[i]
               PROVE  fetched'[log[i].kind] >= i
    BY <1>2 DEF Fetched
  <2>1. fetched \in [Kinds -> 0 .. MaxEvents] /\ log[i] \in EventSet /\ Len(log) \in Nat
    BY DEF StreamTypeOK
  <2>2. log[i].kind \in Kinds
    BY <2>1 DEF EventSet
  <2>3. CASE log[i].kind = e.kind
    BY <1>2, <2>1, <2>2, <2>3
  <2>4. CASE log[i].kind # e.kind
    <3>1. n \in 1 .. Len(received) /\ received[n] = log[i]
      BY <1>7, <2>4
    <3>2. fetched[log[i].kind] >= i
      BY <3>1 DEF StreamInv, Fetched
    <3> QED
      BY <1>2, <2>1, <2>2, <2>4, <3>2
  <2> QED
    BY <2>3, <2>4
<1> QED
  BY <1>5, <1>6, <1>8, <1>9 DEF StreamInv

LEMMA SwitchStream ==
  ASSUME StreamTypeOK, HubInv, StreamInv, NEW h \in HostIds, SwitchHost(h)
  PROVE  StreamInv'
<1>1. /\ hostId' = h /\ phase' = "connecting" /\ cursor' = NoCursor
      /\ frames' = <<>> /\ received' = <<>> /\ UNCHANGED <<history, log>>
  BY DEF SwitchHost
<1>2. Stream' = <<>> /\ Len(Stream') = 0 /\ Len(received') = 0
  BY <1>1 DEF Stream
<1>3. ASSUME NEW i \in 1 .. Len(log) PROVE ~Reached(i)'
  <2> SUFFICES ASSUME NEW j \in i .. Len(log), log[j].cursor = NoCursor PROVE FALSE
    BY <1>1 DEF Reached
  <2>1. j \in 1 .. Len(log)
    BY StreamParts
  <2> QED
    BY <2>1, LogTyped
<1> QED
  BY <1>1, <1>2, <1>3 DEF StreamInv, Located, Ordered, CursorIsLast, FramesNeedSocket,
                          Covered, Fetched

LEMMA StreamStands ==
  ASSUME StreamInv, UNCHANGED <<history, hostId, phase, cursor, frames, fetched, log, received>>
  PROVE  StreamInv'
<1>1. Stream' = Stream
  BY DEF Stream
<1>2. Located' /\ Ordered'
  <2>1. Located'
    BY <1>1 DEF StreamInv, Located
  <2>2. Ordered'
    BY <1>1 DEF StreamInv, Ordered
  <2> QED
    BY <2>1, <2>2
<1>3. CursorIsLast' /\ FramesNeedSocket' /\ Fetched'
  BY DEF StreamInv, CursorIsLast, FramesNeedSocket, Fetched
<1>4. Covered'
  BY <1>1 DEF StreamInv, Covered, Reached, Unkept
<1> QED
  BY <1>2, <1>3, <1>4 DEF StreamInv

-----------------------------------------------------------------------------
(* Notifications are told apart by their cursors. *)
CursorsDiffer ==
  \A m, n \in 1 .. Len(notifications) :
    notifications[m].cursor = notifications[n].cursor => m = n

LEMMA AddedDiffer ==
  ASSUME StreamTypeOK, CursorsDiffer, NEW e \in EventSet
  PROVE  \A m, n \in 1 .. Len(addNotification(e)) :
           addNotification(e)[m].cursor = addNotification(e)[n].cursor => m = n
<1>1. PICK t \in Seq(EventSet) : t = notifications
  BY DEF StreamTypeOK
<1>2. CASE e.cursor \in Cursors(notifications)
  BY <1>2 DEF addNotification, CursorsDiffer
<1>3. CASE e.cursor \notin Cursors(notifications)
  <2>1. PICK s : s = <<e>> \o t
    OBVIOUS
  <2>2. /\ s \in Seq(EventSet) /\ Len(s) = Len(t) + 1 /\ s[1] = e
        /\ \A n \in 2 .. Len(s) : n - 1 \in 1 .. Len(t) /\ s[n] = t[n - 1]
    BY <2>1
  <2>3. PICK k \in 0 .. Len(s) : addNotification(e) = SubSeq(s, 1, k)
    <3>1. PICK k : k = IF Len(notifications) < NotificationLimit
                       THEN Len(notifications) + 1 ELSE NotificationLimit
      OBVIOUS
    <3>2. k \in 0 .. Len(s)
      BY <1>1, <2>2, <3>1, LimitsAssumption DEF StreamTypeOK
    <3> QED
      BY <1>1, <1>3, <2>1, <3>1, <3>2 DEF addNotification
  <2>4. PICK u \in Seq(EventSet) : u = addNotification(e)
    BY NotificationTyped
  <2>5. \A n \in 1 .. Len(u) : n \in 1 .. Len(s) /\ u[n] = s[n]
    BY <2>2, <2>3, <2>4
  <2>6. \A n \in 1 .. Len(t) : t[n].cursor # e.cursor
    BY <1>1, <1>3 DEF Cursors
  <2>7. \A m, n \in 1 .. Len(t) : t[m].cursor = t[n].cursor => m = n
    BY <1>1 DEF CursorsDiffer
  <2>8. ASSUME NEW m \in 1 .. Len(s), NEW n \in 1 .. Len(s), s[m].cursor = s[n].cursor
        PROVE  m = n
    <3>1. CASE m = 1 /\ n # 1
      BY <2>2, <2>6, <2>8, <3>1
    <3>2. CASE m # 1 /\ n = 1
      BY <2>2, <2>6, <2>8, <3>2
    <3>3. CASE m # 1 /\ n # 1
      <4>1. /\ m - 1 \in 1 .. Len(t) /\ s[m] = t[m - 1]
            /\ n - 1 \in 1 .. Len(t) /\ s[n] = t[n - 1]
        BY <2>2, <3>3
      <4>2. m - 1 = n - 1
        BY <2>7, <2>8, <4>1
      <4> QED
        BY <4>2
    <3> QED
      BY <3>1, <3>2, <3>3
  <2> QED
    BY <2>4, <2>5, <2>8
<1> QED
  BY <1>2, <1>3

LEMMA DifferentAreUnique ==
  ASSUME StreamTypeOK, CursorsDiffer
  PROVE  NotificationsUnique
<1>1. PICK t \in Seq(EventSet) : t = notifications
  BY DEF StreamTypeOK
<1>2. Len(t) \in Nat /\ DOMAIN t = 1 .. Len(t)
  OBVIOUS
<1> DEFINE f == [n \in 1 .. Len(t) |-> t[n].cursor]
<1>3. f \in Bijection(1 .. Len(t), Cursors(t))
  <2>1. f \in [1 .. Len(t) -> Cursors(t)]
    BY <1>2 DEF Cursors
  <2>2. \A m, n \in 1 .. Len(t) : f[m] = f[n] => m = n
    BY <1>1 DEF CursorsDiffer
  <2>3. \A c \in Cursors(t) : \E n \in 1 .. Len(t) : f[n] = c
    BY <1>2 DEF Cursors
  <2> QED
    BY <2>1, <2>2, <2>3 DEF Bijection, Injection, Surjection, IsInjective
<1>4. IsFiniteSet(1 .. Len(t)) /\ Cardinality(1 .. Len(t)) = Len(t)
  <2>1. Cardinality(1 .. Len(t)) = IF 1 > Len(t) THEN 0 ELSE Len(t) - 1 + 1
    BY <1>2, FS_Interval
  <2> QED
    BY <1>2, <2>1, FS_Interval
<1>5. Cardinality(Cursors(t)) = Len(t)
  BY <1>3, <1>4, FS_Bijection DEF ExistsBijection
<1> QED
  BY <1>1, <1>5 DEF NotificationsUnique

(* The inductive invariant. *)
StreamHolds == StreamTypeOK /\ HubInv /\ StreamInv /\ CursorsDiffer

LEMMA StreamStarts == StreamInit => StreamHolds
<1> SUFFICES ASSUME StreamInit PROVE StreamHolds
  OBVIOUS
<1> USE StreamBoundsAssumption, LimitsAssumption
<1>1. StreamTypeOK
  <2>1. <<>> \in Seq(EventSet) /\ Len(<<>>) = 0
    OBVIOUS
  <2> QED
    BY <2>1 DEF StreamInit, StreamTypeOK
<1>2. HubInv
  <2>1. Len(log) = 0 /\ Len(history) = 0 /\ MaxEvents >= 0 /\ sequence = 0
    BY DEF StreamInit
  <2> QED
    BY <2>1 DEF HubInv
<1>3. StreamInv
  <2>1. /\ Stream = <<>> /\ Len(Stream) = 0 /\ Len(log) = 0 /\ Len(received) = 0
        /\ received = <<>> /\ frames = <<>> /\ cursor = NoCursor
    BY DEF StreamInit, Stream
  <2> QED
    BY <2>1 DEF StreamInv, Located, Ordered, CursorIsLast, FramesNeedSocket, Covered, Fetched
<1>4. CursorsDiffer
  BY DEF StreamInit, CursorsDiffer
<1> QED
  BY <1>1, <1>2, <1>3, <1>4 DEF StreamHolds

LEMMA StreamKept == StreamHolds /\ [StreamNext]_streamVars => StreamHolds'
<1> SUFFICES ASSUME StreamHolds, [StreamNext]_streamVars PROVE StreamHolds'
  OBVIOUS
<1> USE DEF StreamHolds
<1>1. StreamTypeOK'
  BY StreamTyped
<1>2. ASSUME NEW h \in HostIds, NEW k \in Kinds, Publish(h, k)
      PROVE  HubInv' /\ StreamInv' /\ CursorsDiffer'
  <2>1. CursorsDiffer'
    BY <1>2 DEF Publish, CursorsDiffer
  <2> QED
    BY <1>2, <2>1, PublishHub, PublishStream
<1>3. CASE Connect
  <2>1. HubInv' /\ CursorsDiffer'
    BY <1>3, HubStands DEF Connect, CursorsDiffer
  <2> QED
    BY <1>1, <1>3, <2>1, ConnectStream
<1>4. CASE Receive
  <2>1. HubInv'
    BY <1>4, HubStands DEF Receive
  <2>2. CursorsDiffer'
    <3>1. PICK e \in EventSet : notifications' \in {notifications, addNotification(e)}
      BY <1>4 DEF Receive, StreamTypeOK
    <3> QED
      BY <3>1, AddedDiffer DEF CursorsDiffer
  <2> QED
    BY <1>1, <1>4, <2>1, <2>2, ReceiveStream
<1>5. CASE Drop
  <2>1. HubInv' /\ CursorsDiffer'
    BY <1>5, HubStands DEF Drop, CursorsDiffer
  <2>2. StreamInv'
    BY <1>5, WithoutFrames DEF Drop
  <2> QED
    BY <1>1, <2>1, <2>2
<1>6. CASE Retry
  <2>1. HubInv' /\ CursorsDiffer'
    BY <1>6, HubStands DEF Retry, CursorsDiffer
  <2>2. frames = <<>>
    BY <1>6 DEF Retry, StreamInv, FramesNeedSocket
  <2>3. StreamInv'
    BY <1>6, <2>2, WithoutFrames DEF Retry
  <2> QED
    BY <1>1, <2>1, <2>3
<1>7. ASSUME NEW h \in HostIds, SwitchHost(h)
      PROVE  HubInv' /\ StreamInv' /\ CursorsDiffer'
  <2>1. HubInv' /\ CursorsDiffer'
    BY <1>7, HubStands DEF SwitchHost, CursorsDiffer
  <2> QED
    BY <1>7, <2>1, SwitchStream
<1>8. CASE clearNotifications
  <2>1. HubInv' /\ StreamInv'
    BY <1>8, HubStands, StreamStands DEF clearNotifications
  <2>2. CursorsDiffer'
    BY <1>8 DEF clearNotifications, CursorsDiffer
  <2> QED
    BY <1>1, <2>1, <2>2
<1>9. CASE RestartGateway
  <2>1. CursorsDiffer'
    BY <1>9 DEF RestartGateway, CursorsDiffer
  <2>2. StreamInv'
    BY <1>9, WithoutFrames DEF RestartGateway
  <2> QED
    BY <1>1, <1>9, <2>1, <2>2, RestartHub
<1>10. CASE UNCHANGED streamVars
  <2>1. HubInv' /\ StreamInv' /\ CursorsDiffer'
    BY <1>10, HubStands, StreamStands DEF streamVars, CursorsDiffer
  <2> QED
    BY <1>1, <2>1
<1> QED
  BY <1>1, <1>2, <1>3, <1>4, <1>5, <1>6, <1>7, <1>8, <1>9, <1>10 DEF StreamNext

LEMMA StreamAlwaysHolds == StreamSpec => []StreamHolds
<1> QED
  BY StreamStarts, StreamKept, PTL DEF StreamSpec

-----------------------------------------------------------------------------
(* What the invariant says in the terms of the properties. *)
LEMMA HandledInOrder == StreamHolds => ReceivedInOrder
<1> SUFFICES ASSUME StreamHolds PROVE ReceivedInOrder
  OBVIOUS
<1>1. StreamTypeOK /\ HubInv /\ Located /\ Ordered
  BY DEF StreamHolds, StreamInv
<1>2. PICK s \in Seq(EventSet) : s = Stream
  BY <1>1, StreamParts
<1>3. DOMAIN log = 1 .. Len(log)
  BY <1>1 DEF StreamTypeOK
<1>4. ASSUME NEW n \in 1 .. Len(s)
      PROVE  Position(s[n]) \in 1 .. Len(log) /\ log[Position(s[n])] = s[n]
  <2>1. \E i \in DOMAIN log : log[i] = s[n]
    BY <1>1, <1>2, <1>3 DEF Located
  <2> QED
    BY <1>3, <2>1 DEF Position
<1>5. \A m, n \in 1 .. Len(s) : m < n => Position(s[m]) < Position(s[n])
  BY <1>1, <1>2, <1>4 DEF Ordered
<1>6. DOMAIN s = 1 .. Len(s)
  OBVIOUS
<1> QED
  BY <1>2, <1>5, <1>6 DEF ReceivedInOrder, Stream

(* The log and what the hub keeps of it hold no event twice. *)
LEMMA LogDistinct ==
  ASSUME StreamTypeOK, HubInv
  PROVE  Distinct(log) /\ Distinct(history)
<1>1. Distinct(log)
  BY LogTyped DEF Distinct
<1>2. Distinct(history)
  <2> SUFFICES ASSUME NEW m \in 1 .. Len(history), NEW n \in 1 .. Len(history),
                      history[m] = history[n]
               PROVE  m = n
    BY DEF Distinct
  <2>1. Len(log) \in Nat /\ Len(history) \in Nat /\ Len(history) <= Len(log)
    BY StreamParts DEF HubInv
  <2>2. Unkept + m \in 1 .. Len(log) /\ Unkept + n \in 1 .. Len(log)
    BY <2>1 DEF Unkept
  <2>3. log[Unkept + m] = log[Unkept + n]
    BY DEF HubInv
  <2>4. Unkept + m = Unkept + n
    BY <2>2, <2>3, LogTyped
  <2> QED
    BY <2>1, <2>4 DEF Unkept
<1> QED
  BY <1>1, <1>2

LEMMA KeptArrive == StreamHolds => KeptEventsArrive
<1> SUFFICES ASSUME StreamHolds, phase = "open"
             PROVE  Cursors(ForHost(history)) \subseteq Cursors(Stream)
  BY DEF KeptEventsArrive, Stream
<1>1. StreamTypeOK /\ HubInv /\ Covered
  BY DEF StreamHolds, StreamInv
<1>2. history \in Seq(EventSet) /\ Len(history) \in 0 .. Len(history)
  <2>1. history \in Seq(EventSet)
    BY <1>1 DEF StreamTypeOK
  <2> QED
    BY <2>1
<1>3. PICK kept \in Seq(EventSet) : kept = ForHost(history)
  BY <1>2, OfHostSteps DEF ForHost
<1>4. Enumerates(kept, history, hostId, Len(history))
  BY <1>1, <1>2, <1>3, LogDistinct, OfHostEnumerates DEF ForHost
<1>5. ASSUME NEW n \in 1 .. Len(kept) PROVE \E m \in 1 .. Len(Stream) : Stream[m] = kept[n]
  <2>1. PICK i \in 1 .. Len(history) : kept[n] = history[i] /\ matches(history[i], hostId)
    BY <1>4 DEF Enumerates
  <2>2. history[i] = log[Unkept + i]
    BY <1>1 DEF HubInv
  <2>3. Unkept + i \in 1 .. Len(log) /\ Unkept + i > Unkept
    BY <1>1, StreamParts DEF HubInv, Unkept
  <2> QED
    BY <1>1, <2>1, <2>2, <2>3 DEF Covered, Reached
<1>6. DOMAIN kept = 1 .. Len(kept) /\ DOMAIN Stream = 1 .. Len(Stream)
  BY <1>1, StreamParts
<1> QED
  BY <1>3, <1>5, <1>6 DEF Cursors

LEMMA Fresh == StreamHolds => ListsAreFresh
<1> SUFFICES ASSUME StreamHolds, NothingForgotten, phase = "open", frames = <<>>,
                    NEW k \in Kinds, NEW i \in DOMAIN log,
                    log[i].hostId = hostId, log[i].kind = k
             PROVE  fetched[k] >= i
  BY DEF ListsAreFresh, FreshLists, CaughtUp
<1>1. StreamTypeOK /\ HubInv /\ Covered /\ Fetched
  BY DEF StreamHolds, StreamInv
<1>2. i \in 1 .. Len(log) /\ i > Unkept
  <2>1. log \in Seq(EventSet) /\ Len(history) = Len(log)
    BY <1>1 DEF StreamTypeOK, HubInv
  <2> QED
    BY <2>1 DEF Unkept
<1>3. Stream = received
  BY <1>1 DEF Stream, StreamTypeOK
<1>4. PICK n \in 1 .. Len(received) : received[n] = log[i]
  BY <1>1, <1>2, <1>3 DEF Covered, Reached, matches
<1> QED
  BY <1>1, <1>2, <1>4 DEF Fetched

(* What was handled is the host's part of the log up to the cursor. *)
LEMMA HandledUpTo ==
  ASSUME StreamHolds, NothingForgotten
  PROVE  \E q \in 0 .. Len(log) : Enumerates(received, log, hostId, q)
<1>1. StreamTypeOK /\ HubInv /\ Located /\ Ordered /\ CursorIsLast /\ Covered
  BY DEF StreamHolds, StreamInv
<1>2. Len(history) = Len(log) /\ Len(log) \in Nat
  BY <1>1, StreamParts DEF HubInv
<1>3. PICK r \in Seq(EventSet) : r = received
  BY <1>1 DEF StreamTypeOK
<1>4. \A n \in 1 .. Len(r) : n \in 1 .. Len(Stream) /\ Stream[n] = r[n]
  BY <1>1, <1>3, StreamParts
<1>5. CASE Len(r) = 0
  <2>1. Enumerates(r, log, hostId, 0)
    BY <1>5 DEF Enumerates
  <2> QED
    BY <1>2, <1>3, <2>1
<1>6. CASE Len(r) # 0
  <2>1. Len(r) \in 1 .. Len(r) /\ r # <<>>
    BY <1>6
  <2>2. PICK q \in 1 .. Len(log) : r[Len(r)] = log[q]
    BY <1>1, <1>4, <2>1 DEF Located
  <2>3. log[q].cursor = cursor
    BY <1>1, <1>3, <2>1, <2>2 DEF CursorIsLast
  <2>4. ASSUME NEW n \in 1 .. Len(r)
        PROVE  \E i \in 1 .. q : r[n] = log[i] /\ matches(log[i], hostId)
    <3>1. PICK i \in 1 .. Len(log) : r[n] = log[i] /\ matches(log[i], hostId)
      BY <1>1, <1>4 DEF Located
    <3>2. i <= q
      BY <1>1, <1>3, <2>3, <3>1, CursorDivides
    <3> QED
      BY <1>2, <3>1, <3>2
  <2>5. ASSUME NEW i \in 1 .. q, matches(log[i], hostId)
        PROVE  \E n \in 1 .. Len(r) : r[n] = log[i]
    <3>1. i \in 1 .. Len(log) /\ i > Unkept /\ q \in i .. Len(log)
      BY <1>2 DEF Unkept
    <3>2. PICK n \in 1 .. Len(Stream) : Stream[n] = log[i]
      BY <1>1, <2>3, <2>5, <3>1 DEF Covered, Reached
    <3>3. CASE n \in 1 .. Len(r)
      BY <1>4, <3>2, <3>3
    <3>4. CASE n \notin 1 .. Len(r)
      <4>1. n - Len(r) \in 1 .. Len(frames) /\ Len(r) + (n - Len(r)) = n
        BY <1>1, <1>3, <3>4, StreamParts
      <4>2. frames[n - Len(r)] = log[i]
        BY <1>1, <1>3, <3>2, <4>1, StreamParts
      <4>3. q < i
        BY <1>1, <2>3, <3>1, <4>1, <4>2, CursorDivides
      <4> QED
        BY <4>3
    <3> QED
      BY <3>3, <3>4
  <2>6. ASSUME NEW m \in 1 .. Len(r), NEW n \in 1 .. Len(r),
               NEW i \in 1 .. q, NEW j \in 1 .. q,
               m < n, r[m] = log[i], r[n] = log[j]
        PROVE  i < j
    <3>1. i \in 1 .. Len(log) /\ j \in 1 .. Len(log)
      BY <1>2
    <3> QED
      BY <1>1, <1>4, <2>6, <3>1 DEF Ordered
  <2>7. Enumerates(r, log, hostId, q)
    BY <2>4, <2>5, <2>6 DEF Enumerates
  <2> QED
    BY <1>2, <1>3, <2>7
<1> QED
  BY <1>5, <1>6

LEMMA OpenIsAll ==
  ASSUME StreamHolds, NothingForgotten, phase = "open"
  PROVE  Enumerates(Stream, log, hostId, Len(log))
<1>1. StreamTypeOK /\ HubInv /\ Located /\ Ordered /\ Covered
  BY DEF StreamHolds, StreamInv
<1>2. \A i \in 1 .. Len(log) : i > Unkept
  BY <1>1, StreamParts DEF HubInv, Unkept
<1>3. \A i \in 1 .. Len(log) :
        matches(log[i], hostId) => \E n \in 1 .. Len(Stream) : Stream[n] = log[i]
  BY <1>1, <1>2 DEF Covered, Reached
<1> QED
  BY <1>1, <1>3 DEF Located, Ordered, Enumerates

LEMMA IsTheLog == StreamHolds => StreamIsTheLog
<1> SUFFICES ASSUME StreamHolds, NothingForgotten
             PROVE  /\ phase = "open" => Stream = ForHost(log)
                    /\ IsPrefix(received, ForHost(log))
  BY DEF StreamIsTheLog, Stream
<1>1. StreamTypeOK /\ HubInv
  BY DEF StreamHolds
<1>2. /\ log \in Seq(EventSet) /\ received \in Seq(EventSet) /\ Stream \in Seq(EventSet)
      /\ Distinct(log) /\ Len(log) \in 0 .. Len(log)
  <2>1. log \in Seq(EventSet) /\ received \in Seq(EventSet)
    BY <1>1 DEF StreamTypeOK
  <2> QED
    BY <1>1, <2>1, StreamParts, LogDistinct
<1>3. ASSUME phase = "open" PROVE Stream = ForHost(log)
  BY <1>2, <1>3, OpenIsAll, OfHostUnique DEF ForHost
<1>4. PICK q \in 0 .. Len(log) : Enumerates(received, log, hostId, q)
  BY HandledUpTo
<1>5. received = OfHost(log, hostId)[q]
  BY <1>2, <1>4, OfHostUnique
<1>6. IsPrefix(received, ForHost(log))
  BY <1>2, <1>5, OfHostGrows DEF ForHost
<1> QED
  BY <1>3, <1>6

-----------------------------------------------------------------------------
(* The event path from the hub to the hook stays in its types. *)
THEOREM StreamTypeCorrect == StreamSpec => []StreamTypeOK
<1>1. StreamHolds => StreamTypeOK
  BY DEF StreamHolds
<1> QED
  BY <1>1, StreamAlwaysHolds, PTL

(* A host's events are handled in the order they were published and none   *)
(* twice, an open stream loses none that the hub keeps, and the centre     *)
(* shows none twice, whatever breaks, restarts or is selected in between.  *)
THEOREM StreamsNeverLoseOrRepeat == StreamSpec => []NothingLostOrRepeated
<1>1. StreamHolds => NothingLostOrRepeated
  BY HandledInOrder, KeptArrive, DifferentAreUnique DEF StreamHolds, NothingLostOrRepeated
<1> QED
  BY <1>1, StreamAlwaysHolds, PTL

(* As long as the hub forgets nothing, an open stream is the host's part   *)
(* of the log, and what was handled is the beginning of it.                *)
THEOREM StreamsAreTheLog == StreamSpec => []StreamIsTheLog
  BY IsTheLog, StreamAlwaysHolds, PTL

(* As long as the hub forgets nothing, a hook that has caught up shows no  *)
(* list older than the last event about it.                                *)
THEOREM ListsStayFresh == StreamSpec => []ListsAreFresh
  BY Fresh, StreamAlwaysHolds, PTL
=============================================================================
