------------------------------ MODULE Dashboard ------------------------------
(* The dashboard's live stream of queries (internal/dashboard): the handler  *)
(* records an event per query, one goroutine fans events out to the          *)
(* channels of the connected viewers, and each viewer has a loop that reads  *)
(* and a goroutine that writes.  The fan-out holds the server's read lock,   *)
(* so clients are added, removed and dropped at shutdown only between two    *)
(* events.                                                                   *)
EXTENDS Naturals, FiniteSets

CONSTANTS
  Viewers,
  MaxWebSocketClients,
  BroadcastCap,  \* capacity of broadcastChan; 1000 in the code
  SendCap        \* capacity of a viewer's channel; 256 in the code

VARIABLES
  hub,     \* broadcastChan and whether it is closed, the clients, the fan-out
  viewer   \* per viewer: its loop, its channel, its writer and its socket

NewServer == [events |-> 0, closed |-> FALSE, clients |-> {}, loop |-> "range", left |-> {}]
noViewer == [phase |-> "idle", send |-> 0, sendClosed |-> FALSE, writes |-> FALSE, open |-> FALSE]
noViewers == [v \in Viewers |-> noViewer]

\* s.mu can be taken for writing.
unlocked == hub.loop # "fan"

\* RecordQuery: dropped when the channel is full.  The send on the channel Stop
\* has closed panics in the handler, which recovers.
RecordQuery(h) == IF h.closed \/ h.events >= BroadcastCap THEN h ELSE [h EXCEPT !.events = @ + 1]

\* handleWebSocket: a viewer over the limit is kept but gets no events.
AddClient(v) ==
  /\ unlocked /\ viewer[v].phase = "idle"
  /\ hub' = IF Cardinality(hub.clients) >= MaxWebSocketClients THEN hub ELSE [hub EXCEPT !.clients = @ \cup {v}]
  /\ viewer' = [viewer EXCEPT ![v] = [noViewer EXCEPT !.phase = "read", !.writes = TRUE, !.open = TRUE]]

\* broadcastLoop takes an event, or ends with the closed channel drained.
Broadcast ==
  /\ hub.loop = "range" /\ (hub.events > 0 \/ hub.closed)
  /\ hub' = IF hub.events = 0 THEN [hub EXCEPT !.loop = "done"]
            ELSE IF hub.clients = {} THEN [hub EXCEPT !.events = @ - 1]
            ELSE [hub EXCEPT !.events = @ - 1, !.loop = "fan", !.left = hub.clients]
  /\ UNCHANGED viewer

fanned(v) == IF viewer[v].sendClosed THEN "panic" ELSE IF hub.left = {v} THEN "range" ELSE "fan"

\* The event for one viewer: skipped when its channel is full, a panic when it
\* is closed.
FanOut(v) ==
  /\ hub.loop = "fan" /\ v \in hub.left
  /\ hub' = [hub EXCEPT !.left = @ \ {v}, !.loop = fanned(v)]
  /\ viewer' = [viewer EXCEPT ![v].send = IF @ < SendCap THEN @ + 1 ELSE @]

\* The write goroutine of ClientLoop: an event, or the signal to end.  A write
\* fails on a closed socket, or because the viewer is gone.
WriteLoop(v) ==
  /\ viewer[v].writes
  /\ \/ /\ viewer[v].phase # "read"
        /\ viewer' = [viewer EXCEPT ![v].writes = FALSE]
     \/ /\ viewer[v].send > 0
        /\ \E sent \in {viewer[v].open, FALSE} :
             viewer' = [viewer EXCEPT ![v].send = @ - 1, ![v].writes = sent]
  /\ UNCHANGED hub

\* The read loop ends: the viewer leaves, is idle too long, or was closed.
\* The deferred calls follow one by one.
ViewerEnds(v) ==
  /\ viewer[v].phase = "read"
  /\ viewer' = [viewer EXCEPT ![v].phase = "signalled"]
  /\ UNCHANGED hub

\* RemoveClient, then the channel and the socket are closed.
deferred(v) ==
  \/ /\ unlocked /\ viewer[v].phase = "signalled"
     /\ hub' = [hub EXCEPT !.clients = @ \ {v}]
     /\ viewer' = [viewer EXCEPT ![v].phase = "removed"]
  \/ /\ viewer[v].phase = "removed"
     /\ viewer' = [viewer EXCEPT ![v].phase = "gone", ![v].sendClosed = TRUE, ![v].open = FALSE, ![v].send = 0]
     /\ UNCHANGED hub

\* Mutant: Stop waits for the fan-out without closing what it ranges over.
leavesOpen ==
  /\ unlocked
  /\ hub' = [hub EXCEPT !.clients = {}]
  /\ viewer' = [v \in Viewers |-> IF v \in hub.clients THEN [viewer[v] EXCEPT !.open = FALSE] ELSE viewer[v]]

\* Stop up to its wait for the fan-out.
StopHub ==
  /\ unlocked
  /\ hub' = [hub EXCEPT !.closed = TRUE, !.clients = {}]
  /\ viewer' = [v \in Viewers |-> IF v \in hub.clients THEN [viewer[v] EXCEPT !.open = FALSE] ELSE viewer[v]]
=============================================================================
