----------------------------- MODULE EventStream -----------------------------
(***************************************************************************)
(* The event path from the gateway to the notification centre: EventHub    *)
(* (apps/gateway/src/services/events.ts), the /api/v1/stream route         *)
(* (app.ts), the renderer's useRemoteEventStream hook (state/events.ts)    *)
(* with its reconnects, and the notifications of the UI store.             *)
(*                                                                         *)
(* One renderer watches one host at a time.  Its socket delivers frames in *)
(* order and may break at any moment, taking the frames in flight with it; *)
(* the hook then reconnects with the cursor of the last event it saw.      *)
(* Another host may be selected at any time: the hook starts over, without *)
(* a cursor.  The gateway may restart and forgets its history.             *)
(***************************************************************************)
EXTENDS Integers, Sequences, SequencesExt, FiniteSets

CONSTANTS
  HostIds,           \* registered hosts
  Kinds,             \* resource kinds with a query of their own
  HistoryLimit,      \* events the hub keeps (500)
  NotificationLimit, \* notifications the store keeps (50)
  NoCursor,
  MaxEvents,         \* bound: events published
  MaxDrops,          \* bound: connections that break or are refused
  MaxRestarts,       \* bound: gateway restarts
  MaxSwitches        \* bound: selections of another host

ASSUME LimitsAssumption == HistoryLimit \in Nat \ {0} /\ NotificationLimit \in Nat \ {0}
ASSUME StreamBoundsAssumption == {MaxEvents, MaxDrops, MaxRestarts, MaxSwitches} \subseteq Nat
ASSUME NoCursorAssumption == NoCursor \notin Nat \X Nat

VARIABLES
  sequence,       \* EventHub.sequence
  epoch,          \* the process that stamps cursors: Date.now() sets its apart
  history,        \* EventHub.history
  hostId,         \* the host the hook was called with
  phase,          \* the hook: "connecting", "open", or "waiting" for its timer
  cursor,         \* the hook's cursor
  frames,         \* frames sent and not yet received
  notifications,  \* the UI store's, newest first
  fetched,        \* fetched[k]: events published when query k last ran
  log,            \* every event ever published
  received,       \* events the hook has handled since hostId was selected
  drops, switches

streamVars == <<sequence, epoch, history, hostId, phase, cursor, frames, notifications,
                fetched, log, received, drops, switches>>

(* The stream route's filter and the hook's isEventForHost() agree.  *)
matches(event, h) == event.hostId = h

(* OfHost(events, h)[n]: those of the first n events that the filter passes. *)
OfHost(events, h) ==
  LET upTo[n \in 0 .. Len(events)] ==
        IF n = 0 THEN <<>>
        ELSE IF matches(events[n], h) THEN Append(upTo[n - 1], events[n]) ELSE upTo[n - 1]
  IN  upTo

ForHost(events) == OfHost(events, hostId)[Len(events)]

Cursors(events) == {events[i].cursor : i \in DOMAIN events}

StreamInit ==
  /\ sequence = 0 /\ epoch = 0 /\ history = <<>> /\ log = <<>>
  /\ hostId \in HostIds
  /\ phase = "connecting" /\ cursor = NoCursor /\ frames = <<>> /\ received = <<>>
  /\ notifications = <<>>
  /\ fetched = [k \in Kinds |-> 0]
  /\ drops = 0 /\ switches = 0

-----------------------------------------------------------------------------
(* EventHub. *)

keep(events) == IF Len(events) > HistoryLimit THEN Tail(events) ELSE events

IndexOf(events, c) ==
  IF c \in Cursors(events) THEN CHOOSE i \in DOMAIN events : events[i].cursor = c ELSE 0

(* Fault: the replay repeats the event of the cursor. *)
since_Inclusive(c) ==
  IF c \in Cursors(history)
  THEN SubSeq(history, IndexOf(history, c), Len(history)) ELSE history

(* An unknown cursor, or none, replays all there is. *)
since(c) ==
  IF c \notin Cursors(history) THEN history
  ELSE SubSeq(history, IndexOf(history, c) + 1, Len(history))

(* publish(): stamp, keep, and send to the listener of an open stream. *)
Publish(h, k) ==
  LET event == [cursor |-> <<epoch, sequence + 1>>, hostId |-> h, kind |-> k]
  IN  /\ Len(log) < MaxEvents
      /\ sequence' = sequence + 1
      /\ history' = keep(Append(history, event))
      /\ log' = Append(log, event)
      /\ frames' = IF phase = "open" THEN frames \o ForHost(<<event>>) ELSE frames
      /\ UNCHANGED <<epoch, hostId, phase, cursor, notifications, fetched, received,
                     drops, switches>>

-----------------------------------------------------------------------------
(* The stream route and the hook. *)

(* Fault: a stream starts with the next event. *)
Connect_NoReplay ==
  /\ phase = "connecting"
  /\ phase' = "open"
  /\ UNCHANGED <<sequence, epoch, history, hostId, cursor, frames, notifications, fetched,
                 log, received, drops, switches>>

(* The gateway accepts: it replays and subscribes without an await between. *)
Connect ==
  /\ phase = "connecting"
  /\ phase' = "open"
  /\ frames' = ForHost(since(cursor))
  /\ UNCHANGED <<sequence, epoch, history, hostId, cursor, notifications, fetched, log,
                 received, drops, switches>>

(* addNotification(): newest first, once per cursor, at most the limit. *)
addNotification(event) ==
  IF event.cursor \in Cursors(notifications) THEN notifications
  ELSE SubSeq(<<event>> \o notifications, 1,
              IF Len(notifications) < NotificationLimit
              THEN Len(notifications) + 1 ELSE NotificationLimit)

(* onmessage: remember the cursor, notify unless the user has turned that    *)
(* off, and refetch what the event names.                                    *)
Receive ==
  LET event == Head(frames)
  IN  /\ phase = "open"
      /\ frames # <<>>
      /\ frames' = Tail(frames)
      /\ cursor' = event.cursor
      /\ received' = Append(received, event)
      /\ notifications' \in {notifications, addNotification(event)}
      /\ fetched' = [fetched EXCEPT ![event.kind] = Len(log)]
      /\ UNCHANGED <<sequence, epoch, history, hostId, phase, log, drops, switches>>

(* Fault: a close is final. *)
Drop_Final ==
  /\ phase \in {"connecting", "open"}
  /\ drops < MaxDrops
  /\ drops' = drops + 1
  /\ phase' = "closed"
  /\ frames' = <<>>
  /\ UNCHANGED <<sequence, epoch, history, hostId, cursor, notifications, fetched, log,
                 received, switches>>

(* The socket breaks, or never opens: no ticket, refused, unreachable. *)
Drop ==
  /\ phase \in {"connecting", "open"}
  /\ drops < MaxDrops
  /\ drops' = drops + 1
  /\ phase' = "waiting"
  /\ frames' = <<>>
  /\ UNCHANGED <<sequence, epoch, history, hostId, cursor, notifications, fetched, log,
                 received, switches>>

(* Fault: every attempt starts without a cursor. *)
Retry_Afresh ==
  /\ phase = "waiting"
  /\ phase' = "connecting"
  /\ cursor' = NoCursor
  /\ UNCHANGED <<sequence, epoch, history, hostId, frames, notifications, fetched, log,
                 received, drops, switches>>

(* The retry timer fires. *)
Retry ==
  /\ phase = "waiting"
  /\ phase' = "connecting"
  /\ UNCHANGED <<sequence, epoch, history, hostId, cursor, frames, notifications, fetched,
                 log, received, drops, switches>>

(* Another host is selected: the effect is torn down and runs again, and the *)
(* queries of the new host are fetched.                                      *)
SwitchHost(h) ==
  /\ h # hostId
  /\ switches < MaxSwitches
  /\ switches' = switches + 1
  /\ hostId' = h
  /\ phase' = "connecting" /\ cursor' = NoCursor /\ frames' = <<>> /\ received' = <<>>
  /\ fetched' = [k \in Kinds |-> Len(log)]
  /\ UNCHANGED <<sequence, epoch, history, notifications, log, drops>>

clearNotifications ==
  /\ notifications # <<>>
  /\ notifications' = <<>>
  /\ UNCHANGED <<sequence, epoch, history, hostId, phase, cursor, frames, fetched, log,
                 received, drops, switches>>

(* The gateway starts anew, with an empty hub. *)
RestartGateway ==
  /\ epoch < MaxRestarts
  /\ epoch' = epoch + 1
  /\ sequence' = 0 /\ history' = <<>>
  /\ phase' = "waiting"
  /\ frames' = <<>>
  /\ UNCHANGED <<hostId, cursor, notifications, fetched, log, received, drops, switches>>

StreamNext ==
  \/ \E h \in HostIds, k \in Kinds : Publish(h, k)
  \/ Connect
  \/ Receive
  \/ Drop
  \/ Retry
  \/ \E h \in HostIds : SwitchHost(h)
  \/ clearNotifications
  \/ RestartGateway

StreamSpec == StreamInit /\ [][StreamNext]_streamVars

(* Timers fire, a gateway that is up answers a connection attempt, and an    *)
(* open socket delivers.                                                     *)
FairStream == StreamSpec /\ WF_streamVars(Connect) /\ WF_streamVars(Receive) /\ WF_streamVars(Retry)

-----------------------------------------------------------------------------
EventSet == [cursor : (0 .. MaxRestarts) \X (1 .. MaxEvents), hostId : HostIds, kind : Kinds]

StreamTypeOK ==
  /\ sequence \in 0 .. MaxEvents /\ epoch \in 0 .. MaxRestarts
  /\ history \in Seq(EventSet) /\ Len(history) <= HistoryLimit
  /\ hostId \in HostIds
  /\ phase \in {"connecting", "open", "waiting"}
  /\ cursor \in {NoCursor} \cup ((0 .. MaxRestarts) \X (1 .. MaxEvents))
  /\ \A s \in {frames, log, received} : s \in Seq(EventSet)
  /\ notifications \in Seq(EventSet) /\ Len(notifications) <= NotificationLimit
  /\ fetched \in [Kinds -> 0 .. MaxEvents]
  /\ drops \in 0 .. MaxDrops /\ switches \in 0 .. MaxSwitches

Position(event) == CHOOSE i \in DOMAIN log : log[i] = event

(* While a host stays selected its events are handled in the order they were *)
(* published and none twice, across breaks, evictions and restarts.          *)
ReceivedInOrder ==
  LET stream == received \o frames
  IN  \A i, j \in DOMAIN stream : i < j => Position(stream[i]) < Position(stream[j])

(* On an open stream nothing is lost that the hub still keeps: every such    *)
(* event of the host was handled or is on its way, whatever broke before.    *)
KeptEventsArrive ==
  phase = "open" => Cursors(ForHost(history)) \subseteq Cursors(received \o frames)

(* The hub has never let go of an event. *)
NothingForgotten == epoch = 0 /\ Len(log) <= HistoryLimit

(* As long as the hub forgets nothing, an open stream is the host's log,     *)
(* whatever broke or was selected before.                                    *)
StreamIsTheLog ==
  NothingForgotten => /\ phase = "open" => received \o frames = ForHost(log)
                      /\ IsPrefix(received, ForHost(log))

(* The notification centre shows no event twice, whatever is replayed.       *)
NotificationsUnique ==
  Cardinality(Cursors(notifications)) = Len(notifications)

(* What the hook handles and what it shows: in order, nothing twice, and     *)
(* nothing lost that is still kept.                                          *)
NothingLostOrRepeated == ReceivedInOrder /\ KeptEventsArrive /\ NotificationsUnique

CaughtUp == phase = "open" /\ frames = <<>>

FreshLists ==
  CaughtUp => \A k \in Kinds : \A i \in DOMAIN log :
                log[i].hostId = hostId /\ log[i].kind = k => fetched[k] >= i

(* As long as the hub forgets nothing, every list shown is as new as the     *)
(* last event about it once the hook has caught up.                          *)
ListsAreFresh == NothingForgotten => FreshLists

(* Liveness: when breaks, restarts and host switches come to an end, the     *)
(* hook catches up with its host and stays so once events stop.              *)
CatchesUp == <>[](CaughtUp /\ Cursors(ForHost(history)) \subseteq Cursors(received))

(* architecture.md:133-134: a failed stream resumes from its cursor when     *)
(* possible; otherwise the client requests a fresh snapshot.  Either way it  *)
(* does not go on with lists older than the events it missed.                *)
GapMeansSnapshot == FreshLists
=============================================================================
