----------------------------- MODULE Transports -----------------------------
(* The listeners that carry queries to the handler, and the process around   *)
(* them: the UDP reader with its rate limiter and workers, the TCP and DoT   *)
(* accept loops with their queues and workers, DoQ and XoT with a goroutine  *)
(* per connection, the DNS stateful operations (DSO) sessions that live on   *)
(* DoT connections, start-up in order and shutdown on a signal.  The query   *)
(* stream (Dashboard) and the accounts behind the API (Auth) run beside it.  *)
(*                                                                           *)
(* A client is a connection, or over UDP one datagram.  A worker is not      *)
(* named: a busy one is a connection in a phase a worker holds.  Time is a   *)
(* clock of small ticks; read deadlines are connections whose read fails.    *)
(* A client sends a few messages and falls silent, or goes on for as long as *)
(* it likes.                                                                 *)
EXTENDS Dashboard, Auth

CONSTANTS
  Scenarios,      \* the configurations and clients to check
  Clients,        \* a bound: scenarios number theirs 1..n
  MaxConnections, \* the global cap of TCP, DoT and DoQ
  MaxPerIP,       \* the cap for one address
  MaxPipeline,    \* messages of one TCP connection handled at a time
  MaxStreams,     \* streams of one DoQ connection open at a time
  MaxSessions,    \* DSO sessions
  Inactivity,     \* ticks after which a silent DSO session may be swept
  Window,         \* ticks of the UDP rate window
  MaxEntries      \* addresses the limiter tracks

VARIABLES
  scenario,  \* constant through a behaviour
  main,      \* the main goroutine: where it is and at which server
  server,    \* per kind: state, serve loop, channel, workers, slots taken
  conn,      \* per client: phase, socket, message held back, messages in flight
  limiter,   \* rateLimiter.entries: address -> [count, start]
  dso,       \* Manager.sessions, the adapter's sessions, LastActivity, sweeper
  loops,     \* per background component: where its goroutine is, whether it was told to end
  now,
  heard,     \* history: when a message of a connection was last read
  let        \* history: when a datagram was let through

stream == <<hub, viewer>>
beside == <<stream, auth>>
vars == <<scenario, main, server, conn, limiter, dso, loops, now, heard, let, beside>>

Kinds == {"udp", "tcp", "tls", "doq", "xot"}
Pooled == {"udp", "tcp", "tls"}
Capped == {"tcp", "tls", "doq"}
clients == DOMAIN scenario.clients
kind(c) == scenario.clients[c].kind
addr(c) == scenario.clients[c].ip
addrs == {scenario.clients[c].ip : c \in clients}
of(k) == {c \in clients : kind(c) = k}
in(k, phases) == {c \in of(k) : conn[c].phase \in phases}
alive == main.at \notin {"exited", "panic"}
up(k) == server[k].state = "up"
stopped(k) == server[k].state = "stopped"

\* A worker has taken the connection and not come back for the next.
Worked == {"handshake", "reading", "full", "ending", "removing", "closed", "freed"}
\* The accept loop has taken the connection and it has not ended.
Accepted == Worked \cup {"handing", "queued"}

\* The memory and the sockets of a process that does not run.
noServers == [k \in Kinds |-> [state |-> "off", loop |-> "off", reader |-> "off", queue |-> <<>>, workers |-> 0,
                              sem |-> 0, ip |-> [a \in addrs |-> 0]]]
noConns == [c \in Clients |-> [phase |-> "idle", open |-> FALSE, held |-> <<>>, flight |-> {}, sent |-> 0, talks |-> c \in scenario.talkers]]
noLimiter == [a \in {} |-> 0]
noSweep == [left |-> {}, since |-> 0, hit |-> {}]
noSessions == [table |-> {}, adapter |-> {}, last |-> [c \in Clients |-> 0], sweeps |-> TRUE, sweep |-> noSweep]
\* Components with a goroutine of their own that waits for work or to be told to end.
Background == {"upstream", "metrics", "cluster", "transfer", "mdns", "security", "cache", "audit"}
idleLoops == [b \in Background |-> [at |-> IF b \in scenario.background THEN "waits" ELSE "gone", told |-> FALSE]]
noTimes == [c \in Clients |-> 0]
noLet == [c \in {} |-> 0]

Init ==
  /\ scenario \in Scenarios
  /\ main = [at |-> "start", i |-> 1, failed |-> FALSE]
  /\ server = noServers /\ conn = noConns /\ limiter = noLimiter /\ dso = noSessions /\ loops = idleLoops
  /\ now = 0 /\ heard = noTimes /\ let = noLet
  /\ hub = NewServer /\ viewer = noViewers
  /\ InitAuth(scenario.accounts)

\* The process is gone and with it everything it held.
Dies(how) ==
  /\ main' = [main EXCEPT !.at = how]
  /\ server' = noServers /\ conn' = noConns /\ limiter' = noLimiter /\ dso' = noSessions /\ loops' = idleLoops
  /\ heard' = noTimes /\ let' = noLet
  /\ hub' = NewServer /\ viewer' = noViewers
  /\ Forgets(scenario.accounts)
  /\ UNCHANGED <<scenario, now>>

-----------------------------------------------------------------------------
(* The UDP rate limiter: a count per address and a window that starts with   *)
(* the first datagram counted in it.                                         *)

rateWindowExpiredAt(start, t) == t >= start + Window

\* Mutant: reaping forgets sources that are still in their window.
reapsAll(e, t) == [a \in {} |-> 0]

\* Prune, and what Allow does when the table is full.
reap(e, t) == [a \in {b \in DOMAIN e : ~rateWindowExpiredAt(e[b].start, t)} |-> e[a]]

fresh(e, a) == a \notin DOMAIN e \/ rateWindowExpiredAt(e[a].start, now)
\* The entries a new window for the address is put into.
room(e, a) == IF a \notin DOMAIN e /\ Cardinality(DOMAIN e) >= MaxEntries THEN reap(e, now) ELSE e

Allow(e, a) ==
  IF fresh(e, a)
  THEN a \in DOMAIN e \/ Cardinality(DOMAIN room(e, a)) < MaxEntries
  ELSE e[a].count < scenario.maxCount

counted(e, a) ==
  IF ~fresh(e, a) THEN [e EXCEPT ![a].count = @ + 1]
  ELSE IF ~Allow(e, a) THEN room(e, a)
  ELSE [b \in DOMAIN room(e, a) \cup {a} |-> IF b = a THEN [count |-> 1, start |-> now] ELSE e[b]]

-----------------------------------------------------------------------------
(* DSO sessions: one for each connection, made by its first DSO message.     *)

\* Mutant: only DSO messages count as activity.
dsoOnly(d, c) == d

Touch(d, c) == IF c \in d.adapter THEN [d EXCEPT !.last[c] = now] ELSE d

\* A plain TCP connection is refused, a full table answers SERVFAIL.
sessionFor(d, c) ==
  IF c \in d.adapter THEN "session"
  ELSE IF kind(c) # "tls" THEN "abort"
  ELSE IF Cardinality(d.table) >= MaxSessions THEN "servfail" ELSE "create"

CreateSession(d, c) == [d EXCEPT !.table = @ \cup {c}, !.adapter = @ \cup {c}, !.last[c] = now]

\* sessionsMu, which a sweep holds; Touch does without it.
sessionsMu == dso.sweep.left = {}

\* The adapter's entry goes first, the manager's after it.
ConnClosed(d, c) == [d EXCEPT !.adapter = @ \ {c}]

\* Mutant: the session of a connection that ended stays in the table.
keepsSession(d, c) == d

RemoveSession(d, c) == [d EXCEPT !.table = @ \ {c}]

\* The first TLV of a message is its primary one.
badTLV(m, i) == m.tlvs[i] \in {"cut", "short keepalive", "retry delay"} \/ (i = 1 /\ m.tlvs[i] = "padding")
unknownPrimary(m) == m.tlvs # <<>> /\ m.tlvs[1] = "unknown"
extractTLVs(m) == m.zeroCounts
fatal(m) ==
  \/ m.qr
  \/ ~extractTLVs(m)
  \/ ~unknownPrimary(m) /\ \E i \in DOMAIN m.tlvs : badTLV(m, i)

HandleDSORequest(d, c, m) == IF m.qr THEN d ELSE [d EXCEPT !.last[c] = now]

sessionExpiredAt(d, c, t) == t >= d.last[c] + Inactivity

-----------------------------------------------------------------------------
(* startServers: the configured servers in order, stopAll on the first that  *)
(* does not start.                                                           *)

Order == <<"udp", "tcp", "tls", "doq", "xot">>

\* Listen and the start of Serve.
pool(k) == IF k \in Pooled THEN scenario.workers ELSE 0
readerOf(k) == IF k = "udp" THEN "run" ELSE "off"
started(k) == [server[k] EXCEPT !.state = "up", !.loop = "run", !.workers = pool(k), !.reader = readerOf(k)]

Start ==
  /\ main.at = "start" /\ main.i <= Len(Order)
  /\ \E k \in {Order[main.i]} :
       /\ k # scenario.fails
       /\ server' = IF k \in scenario.kinds THEN [server EXCEPT ![k] = started(k)] ELSE server
  /\ main' = [main EXCEPT !.i = @ + 1]
  /\ UNCHANGED <<scenario, conn, limiter, dso, loops, now, heard, let, beside>>

StartFails ==
  /\ main.at = "start" /\ main.i <= Len(Order) /\ Order[main.i] = scenario.fails
  /\ main' = [at |-> "stop", i |-> 1, failed |-> TRUE]
  /\ UNCHANGED <<scenario, server, conn, limiter, dso, loops, now, heard, let, beside>>

Started ==
  /\ main.at = "start" /\ main.i > Len(Order)
  /\ main' = [main EXCEPT !.at = "serve"]
  /\ UNCHANGED <<scenario, server, conn, limiter, dso, loops, now, heard, let, beside>>

\* SIGINT or SIGTERM.
Signal ==
  /\ main.at = "serve"
  /\ main' = [main EXCEPT !.at = "stop", !.i = 1]
  /\ UNCHANGED <<scenario, server, conn, limiter, dso, loops, now, heard, let, beside>>

-----------------------------------------------------------------------------
(* Clients.                                                                  *)

\* The clients of one address are alike, so they come in the order of their numbers.
Dial(c) ==
  /\ alive /\ up(kind(c)) /\ conn[c].phase = "idle"
  /\ \A d \in clients : d < c /\ addr(d) = addr(c) => conn[d].phase # "idle"
  /\ conn' = [conn EXCEPT ![c].phase = "backlog", ![c].open = TRUE]
  /\ UNCHANGED <<scenario, main, server, limiter, dso, loops, now, heard, let, beside>>

\* A client that went on sending will send no more than it still has to.
Quiets(c) ==
  /\ alive /\ conn[c].talks
  /\ conn' = [conn EXCEPT ![c].talks = FALSE]
  /\ UNCHANGED <<scenario, main, server, limiter, dso, loops, now, heard, let, beside>>

-----------------------------------------------------------------------------
(* Accept loops and the UDP reader.                                          *)

reset(cs, lost) == [c \in Clients |-> IF c \in lost THEN [cs[c] EXCEPT !.phase = "gone", !.open = FALSE] ELSE cs[c]]
within(k, c) == server[k].sem < MaxConnections /\ server[k].ip[addr(c)] < MaxPerIP
taking(k, c) == [server EXCEPT ![k].sem = @ + 1, ![k].ip[addr(c)] = @ + 1]
closing(c) == reset(conn, {c})
ready(k) == alive /\ server[k].loop = "run" /\ in(k, {"handing"}) = {}

\* TCPServer.Serve and TLSServer.Serve up to the channel: both caps.
AcceptTCP(c) ==
  /\ kind(c) \in {"tcp", "tls"} /\ ready(kind(c)) /\ conn[c].phase = "backlog"
  /\ \E ok \in {within(kind(c), c)} :
       /\ server' = IF ok THEN taking(kind(c), c) ELSE server
       /\ conn' = IF ok THEN [conn EXCEPT ![c].phase = "handing"] ELSE closing(c)
  /\ UNCHANGED <<scenario, main, limiter, dso, loops, now, heard, let, beside>>

\* DoQServer.acceptLoop: both caps, then a goroutine for the connection.
AcceptDoQ(c) ==
  /\ kind(c) = "doq" /\ ready("doq") /\ conn[c].phase = "backlog"
  /\ \E ok \in {within("doq", c)} :
       /\ server' = IF ok THEN taking("doq", c) ELSE server
       /\ conn' = IF ok THEN [conn EXCEPT ![c].phase = "reading"] ELSE closing(c)
  /\ UNCHANGED <<scenario, main, limiter, dso, loops, now, heard, let, beside>>

\* XoTServer.AcceptLoop: the connection is there, closed is not yet looked at.
AcceptXoT(c) ==
  /\ kind(c) = "xot" /\ ready("xot") /\ conn[c].phase = "backlog"
  /\ conn' = [conn EXCEPT ![c].phase = "handing"]
  /\ UNCHANGED <<scenario, main, server, limiter, dso, loops, now, heard, let, beside>>

AdmitXoT(c) ==
  /\ alive /\ kind(c) = "xot" /\ conn[c].phase = "handing"
  /\ conn' = IF stopped("xot") THEN closing(c) ELSE [conn EXCEPT ![c].phase = "reading"]
  /\ server' = IF stopped("xot") THEN [server EXCEPT !["xot"].loop = "returned"] ELSE server
  /\ UNCHANGED <<scenario, main, limiter, dso, loops, now, heard, let, beside>>

\* UDPServer.reader: a datagram, and whether its address is within its rate.
ReadUDP(c) ==
  /\ kind(c) = "udp" /\ alive /\ server["udp"].reader = "run" /\ in("udp", {"handing"}) = {}
  /\ conn[c].phase = "backlog"
  /\ limiter' = counted(limiter, addr(c))
  /\ \E ok \in {Allow(limiter, addr(c))} :
       /\ conn' = IF ok THEN [conn EXCEPT ![c].phase = "handing"] ELSE closing(c)
       /\ let' = IF ok THEN [d \in DOMAIN let \cup {c} |-> IF d = c THEN now ELSE let[d]] ELSE let
  /\ UNCHANGED <<scenario, main, server, dso, loops, now, heard, beside>>

\* The send on the channel, which panics once it is closed.
afterSend(k) == IF server[k].loop = "closing" THEN "panic" ELSE main.at

Hand(c) ==
  /\ alive /\ kind(c) \in Pooled /\ conn[c].phase = "handing"
  /\ Len(server[kind(c)].queue) < 2 * scenario.workers
  /\ main' = [main EXCEPT !.at = afterSend(kind(c))]
  /\ server' = [server EXCEPT ![kind(c)].queue = Append(@, c)]
  /\ conn' = [conn EXCEPT ![c].phase = "queued"]
  /\ UNCHANGED <<scenario, limiter, dso, loops, now, heard, let, beside>>

\* decrementIPConn.
decrementIPConn(s, c) == [s EXCEPT ![kind(c)].ip[addr(c)] = IF @ <= 1 THEN 0 ELSE @ - 1]
released(s, c) == [s EXCEPT ![kind(c)].sem = @ - 1]

\* Mutant: the slot of a connection dropped at shutdown is not returned.
keepsSlot(c) == IF kind(c) = "udp" THEN server ELSE released(server, c)

\* What the loop returns when it gives up handing the connection over.
handBack(c) == IF kind(c) = "udp" THEN server ELSE released(decrementIPConn(server, c), c)

\* The other branch of the send: the server's context is done.
Drop(c) ==
  /\ alive /\ kind(c) \in Pooled /\ conn[c].phase = "handing" /\ stopped(kind(c))
  /\ server' = IF kind(c) = "udp" THEN [handBack(c) EXCEPT !["udp"].reader = "returned"] ELSE handBack(c)
  /\ conn' = closing(c)
  /\ UNCHANGED <<scenario, main, limiter, dso, loops, now, heard, let, beside>>

\* The reader finds its context done, at the top of its loop or by the closed socket.
ReaderReturns ==
  /\ alive /\ stopped("udp") /\ server["udp"].reader = "run" /\ in("udp", {"handing"}) = {}
  /\ server' = [server EXCEPT !["udp"].reader = "returned"]
  /\ UNCHANGED <<scenario, main, conn, limiter, dso, loops, now, heard, let, beside>>

\* UDPServer.Serve waits for the reader before it closes the channel.
readerDone == server["udp"].reader = "returned"

\* Accept fails for good: channels are closed, loops without workers return.
LoopEnds(k) ==
  /\ alive /\ stopped(k) /\ server[k].loop = "run"
  /\ IF k = "udp" THEN readerDone ELSE in(k, {"handing"}) = {}
  /\ server' = [server EXCEPT ![k].loop = IF k \in Pooled THEN "closing" ELSE "returned"]
  /\ UNCHANGED <<scenario, main, conn, limiter, dso, loops, now, heard, let, beside>>

\* A worker finds the closed channel empty.
WorkerExits(k) ==
  /\ alive /\ k \in Pooled /\ server[k].loop = "closing" /\ server[k].queue = <<>>
  /\ Cardinality(in(k, Worked)) < server[k].workers
  /\ server' = [server EXCEPT ![k].workers = @ - 1]
  /\ UNCHANGED <<scenario, main, conn, limiter, dso, loops, now, heard, let, beside>>

-----------------------------------------------------------------------------
(* A worker, or the goroutine of a DoQ or XoT connection.                    *)

message(n, m) == [n |-> n, m |-> m, step |-> "new"]

\* A worker takes the connection; a datagram is its one message.
Take(c) ==
  /\ alive /\ kind(c) \in Pooled /\ conn[c].phase = "queued" /\ Head(server[kind(c)].queue) = c
  /\ Cardinality(in(kind(c), Worked)) < server[kind(c)].workers
  /\ server' = [server EXCEPT ![kind(c)].queue = Tail(@)]
  /\ \E m \in scenario.msgs :
       conn' = [conn EXCEPT ![c].phase = IF kind(c) = "udp" THEN "ending" ELSE IF kind(c) = "tls" THEN "handshake" ELSE "reading",
                            ![c].flight = IF kind(c) = "udp" THEN {message(1, m)} ELSE @]
  /\ UNCHANGED <<scenario, main, limiter, dso, loops, now, heard, let, beside>>

\* The DoT handshake succeeds, or fails or times out.
Handshake(c) ==
  /\ alive /\ conn[c].phase = "handshake"
  /\ \E next \in {"reading", "ending"} : conn' = [conn EXCEPT ![c].phase = next]
  /\ UNCHANGED <<scenario, main, server, limiter, dso, loops, now, heard, let, beside>>

\* The goroutine that reads is free: DoT and XoT handle a message before the next.
reads(c) == alive /\ conn[c].phase = "reading" /\ (kind(c) \in {"tls", "xot"} => conn[c].flight = {})

\* The transports that know of DSO sessions.
stateful(c) == kind(c) \in {"tcp", "tls"} /\ scenario.dso

\* The next message: TCP holds it back while the pipeline is full.
Read(c) ==
  /\ reads(c) /\ conn[c].open /\ (conn[c].talks \/ conn[c].sent < scenario.sends[c])
  /\ kind(c) = "doq" => Cardinality(conn[c].flight) < MaxStreams
  /\ \E m \in scenario.msgs, n \in {conn[c].sent + (IF conn[c].talks THEN 0 ELSE 1)} :
       LET new == message(n, m)
           full == kind(c) = "tcp" /\ Cardinality(conn[c].flight) >= MaxPipeline
       IN /\ conn' = [conn EXCEPT ![c].sent = n, ![c].phase = IF full THEN "full" ELSE "reading",
                                  ![c].held = IF full THEN <<new>> ELSE <<>>,
                                  ![c].flight = IF full THEN @ ELSE @ \cup {new}]
          /\ heard' = IF stateful(c) /\ m.op # "junk" THEN [heard EXCEPT ![c] = now] ELSE heard
  /\ UNCHANGED <<scenario, main, server, limiter, dso, loops, now, let, beside>>

\* pipeSem has a slot again.
Pipeline(c) ==
  /\ alive /\ conn[c].phase = "full" /\ Cardinality(conn[c].flight) < MaxPipeline
  /\ conn' = [conn EXCEPT ![c].phase = "reading", ![c].held = <<>>, ![c].flight = @ \cup {Head(conn[c].held)}]
  /\ UNCHANGED <<scenario, main, server, limiter, dso, loops, now, heard, let, beside>>

\* The client leaves, is silent until the deadline or sends a bad length; or
\* the socket was closed under the reader.
ReadFails(c) ==
  /\ reads(c)
  /\ conn' = [conn EXCEPT ![c].phase = "ending"]
  /\ UNCHANGED <<scenario, main, server, limiter, dso, loops, now, heard, let, beside>>

\* The deferred calls: wait for the pipeline, end the session, close.  A DoQ
\* connection does not wait for its streams.
End(c) ==
  /\ alive /\ conn[c].phase = "ending" /\ (kind(c) # "doq" => conn[c].flight = {})
  /\ dso' = ConnClosed(dso, c)
  /\ conn' = IF c \in dso.adapter THEN [conn EXCEPT ![c].phase = "removing"]
             ELSE [conn EXCEPT ![c].phase = IF kind(c) \in Capped THEN "closed" ELSE "gone", ![c].open = FALSE]
  /\ UNCHANGED <<scenario, main, server, limiter, loops, now, heard, let, beside>>

\* RemoveSession closes the connection with the session.
Removed(c) ==
  /\ alive /\ conn[c].phase = "removing" /\ sessionsMu
  /\ dso' = RemoveSession(dso, c)
  /\ conn' = [conn EXCEPT ![c].phase = "closed", ![c].open = FALSE]
  /\ UNCHANGED <<scenario, main, server, limiter, loops, now, heard, let, beside>>

\* The first count is returned: TCP and DoT the address's, DoQ the global one.
ReleaseFirst(c) ==
  /\ alive /\ conn[c].phase = "closed"
  /\ server' = IF kind(c) = "doq" THEN released(server, c) ELSE decrementIPConn(server, c)
  /\ conn' = [conn EXCEPT ![c].phase = "freed"]
  /\ UNCHANGED <<scenario, main, limiter, dso, loops, now, heard, let, beside>>

ReleaseSecond(c) ==
  /\ alive /\ conn[c].phase = "freed"
  /\ server' = IF kind(c) = "doq" THEN decrementIPConn(server, c) ELSE released(server, c)
  /\ conn' = [conn EXCEPT ![c].phase = "gone"]
  /\ UNCHANGED <<scenario, main, limiter, dso, loops, now, heard, let, beside>>

-----------------------------------------------------------------------------
(* One message.                                                              *)

done(c, x) == [conn EXCEPT ![c].flight = @ \ {x}]
goesOn(c, x, s) == [conn EXCEPT ![c].flight = (@ \ {x}) \cup {[x EXCEPT !.step = s]}]
aborted(c, x) == [done(c, x) EXCEPT ![c].open = FALSE]

\* The events are followed in the scenarios that have viewers.
recorded == IF scenario.viewers = {} THEN hub ELSE RecordQuery(hub)

\* A message that does not unpack is dropped, over UDP with its datagram.
Garbage(c, x) ==
  /\ alive /\ kind(c) \in Pooled /\ x.step = "new" /\ x.m.op = "junk"
  /\ conn' = done(c, x)
  /\ UNCHANGED <<scenario, main, server, limiter, dso, loops, now, heard, let, beside>>

\* Everything but DSO over TCP and DoT goes to the handler.
Query(c, x) ==
  /\ alive /\ kind(c) \in Pooled /\ x.step = "new" /\ x.m.op # "junk"
  /\ x.m.op = "query" \/ kind(c) = "udp"
  /\ conn' = goesOn(c, x, "serve")
  /\ dso' = IF stateful(c) THEN Touch(dso, c) ELSE dso
  /\ UNCHANGED <<scenario, main, server, limiter, loops, now, heard, let, beside>>

\* The handler has answered, or the panic it recovered from; the write may
\* fail on a closed socket, which changes nothing here.
Answer(c, x) ==
  /\ alive /\ kind(c) \in Pooled /\ x.step = "serve"
  /\ conn' = done(c, x)
  /\ hub' = recorded
  /\ UNCHANGED <<scenario, main, server, limiter, dso, loops, now, heard, let, viewer, auth>>

\* A DoQ stream: its read fails with the connection, or its query is served.
HandleStream(c, x) ==
  /\ alive /\ kind(c) = "doq" /\ x.step = "new"
  /\ conn' = IF conn[c].open THEN goesOn(c, x, "serve") ELSE done(c, x)
  /\ UNCHANGED <<scenario, main, server, limiter, dso, loops, now, heard, let, beside>>

\* The adapter drops what does not unpack; the stream is closed either way.
ServeDoQ(c, x) ==
  /\ alive /\ kind(c) = "doq" /\ x.step = "serve"
  /\ conn' = done(c, x)
  /\ hub' = recorded
  /\ UNCHANGED <<scenario, main, server, limiter, dso, loops, now, heard, let, viewer, auth>>

\* XoT answers every message itself: a transfer, NOTIMP, or FORMERR.
HandleTransfer(c, x) ==
  /\ alive /\ kind(c) = "xot"
  /\ conn' = done(c, x)
  /\ UNCHANGED <<scenario, main, server, limiter, dso, loops, now, heard, let, beside>>

\* handleDSO up to the session: NOTIMP without a manager, SERVFAIL when the
\* table is full, the connection closed when it may have no session.
HandleDSO(c, x) ==
  /\ alive /\ x.step = "new" /\ x.m.op = "dso" /\ kind(c) \in {"tcp", "tls"}
  /\ \E s \in {IF scenario.dso THEN sessionFor(dso, c) ELSE "notimp"} :
       /\ s \in {"create", "servfail"} => sessionsMu
       /\ conn' = IF s \in {"session", "create"} THEN goesOn(c, x, "session")
                  ELSE IF s = "abort" THEN aborted(c, x) ELSE done(c, x)
       /\ dso' = IF s = "create" THEN CreateSession(dso, c) ELSE IF s = "session" THEN Touch(dso, c) ELSE dso
  /\ UNCHANGED <<scenario, main, server, limiter, loops, now, heard, let, beside>>

\* HandleDSORequest and the reply, or the forced close of a fatal error.
AnswerDSO(c, x) ==
  /\ alive /\ x.step = "session"
  /\ dso' = HandleDSORequest(dso, c, x.m)
  /\ conn' = IF fatal(x.m) THEN aborted(c, x) ELSE done(c, x)
  /\ UNCHANGED <<scenario, main, server, limiter, loops, now, heard, let, beside>>

-----------------------------------------------------------------------------
(* Timers.                                                                   *)

Tick ==
  /\ alive /\ now < scenario.ticks
  /\ now' = now + 1
  /\ UNCHANGED <<scenario, main, server, conn, limiter, dso, loops, heard, let, beside>>

\* UDPServer.pruner.
Prune ==
  /\ alive /\ up("udp") /\ reap(limiter, now) # limiter
  /\ limiter' = reap(limiter, now)
  /\ UNCHANGED <<scenario, main, server, conn, dso, loops, now, heard, let, beside>>

shut(cs) == [c \in Clients |-> IF c \in cs THEN [conn[c] EXCEPT !.open = FALSE] ELSE conn[c]]

\* cleanupExpiredSessions takes the time and the lock, and goes through the table.
\* LastActivity is read without the session's own lock; the comparison reads one
\* word of it, the old or the new.  A sweep that would close nothing is left out.
SweepStarts ==
  /\ alive /\ dso.sweeps /\ sessionsMu
  /\ \E c \in dso.table : sessionExpiredAt(dso, c, now)
  /\ dso' = [dso EXCEPT !.sweep = [left |-> dso.table, since |-> now, hit |-> {}]]
  /\ UNCHANGED <<scenario, main, server, conn, limiter, loops, now, heard, let, beside>>

\* The sweep is through with a session, and with the last one over.
passed(c) == IF dso.sweep.left = {c} THEN noSweep ELSE [dso.sweep EXCEPT !.left = @ \ {c}, !.hit = {}]

SweepTests(c) ==
  /\ alive /\ c \in dso.sweep.left /\ dso.sweep.hit = {}
  /\ dso' = [dso EXCEPT !.sweep = IF sessionExpiredAt(dso, c, dso.sweep.since) THEN [@ EXCEPT !.hit = {c}] ELSE passed(c)]
  /\ UNCHANGED <<scenario, main, server, conn, limiter, loops, now, heard, let, beside>>

SweepCloses(c) ==
  /\ alive /\ c \in dso.sweep.hit
  /\ dso' = [dso EXCEPT !.table = @ \ {c}, !.sweep = passed(c)]
  /\ conn' = shut({c})
  /\ UNCHANGED <<scenario, main, server, limiter, loops, now, heard, let, beside>>

-----------------------------------------------------------------------------
(* stopAll and the rest of the shutdown goroutine.                           *)

\* DoQ and XoT are waited for; UDP, TCP and DoT are not.
AllStages ==
  <<"udp", "tcp", "tls", "doq", "doq wait", "xot", "xot wait", "upstream", "metrics", "dashboard", "dashboard wait", "api",
    "cluster", "transfer", "mdns", "dso", "security", "tokens", "cache", "audit">>

waitFor == [doq |-> "doq wait", xot |-> "xot wait"]

\* What is not configured is not there to be stopped.
configured(s) ==
  s.kinds \cup {waitFor[k] : k \in s.kinds \cap DOMAIN waitFor} \cup s.background
  \cup (IF s.dso THEN {"dso"} ELSE {}) \cup {"dashboard", "dashboard wait", "api", "tokens"}
stagesOf == [s \in Scenarios |-> SelectSeq(AllStages, LAMBDA g : g \in configured(s))]
Stages == stagesOf[scenario]
stage == Stages[main.i]
stopping(g) == main.at = "stop" /\ main.i <= Len(Stages) /\ stage = g
ended(k) == server[k].loop # "run" /\ \A c \in of(k) : conn[c].phase \in {"idle", "gone"} /\ conn[c].flight = {}
next == main' = [main EXCEPT !.i = @ + 1]

\* Stop or Close of one server: the listener's backlog is reset; DoQ closes the
\* socket under its connections.
StopServer ==
  /\ \E k \in Kinds :
       /\ stopping(k)
       /\ server' = [server EXCEPT ![k].state = IF @ = "up" THEN "stopped" ELSE @]
       /\ conn' = reset(IF k = "doq" THEN shut(of("doq")) ELSE conn, in(k, {"backlog"}))
  /\ next
  /\ UNCHANGED <<scenario, limiter, dso, loops, now, heard, let, beside>>

WaitServer ==
  /\ \E k \in DOMAIN waitFor : stopping(waitFor[k]) /\ ended(k)
  /\ next
  /\ UNCHANGED <<scenario, server, conn, limiter, dso, loops, now, heard, let, beside>>

\* A goroutine in the background wakes for its ticker or a message, and is done
\* with it in the time its own timeouts leave it.  One that finds the signal to
\* end beside its work and takes the work is one that was told a moment later.
Wakes(b) ==
  /\ alive /\ loops[b].at = "waits" /\ ~loops[b].told
  /\ loops' = [loops EXCEPT ![b].at = "works"]
  /\ UNCHANGED <<scenario, main, server, conn, limiter, dso, now, heard, let, beside>>

Rests(b) ==
  /\ alive /\ loops[b].at = "works"
  /\ loops' = [loops EXCEPT ![b].at = "waits"]
  /\ UNCHANGED <<scenario, main, server, conn, limiter, dso, now, heard, let, beside>>

Returns(b) ==
  /\ alive /\ loops[b].at = "waits" /\ loops[b].told
  /\ loops' = [loops EXCEPT ![b].at = "gone"]
  /\ UNCHANGED <<scenario, main, server, conn, limiter, dso, now, heard, let, beside>>

\* The Stop of a component tells its goroutine to end and waits for it, but for
\* the cleanup of the filters.
StopLoop ==
  /\ \E b \in Background : stopping(b) /\ ~loops[b].told /\ loops' = [loops EXCEPT ![b].told = TRUE]
  /\ UNCHANGED <<scenario, main, server, conn, limiter, dso, now, heard, let, beside>>

WaitLoop ==
  /\ \E b \in Background : stopping(b) /\ loops[b].told /\ (b = "security" \/ loops[b].at = "gone")
  /\ next
  /\ UNCHANGED <<scenario, server, conn, limiter, dso, loops, now, heard, let, beside>>

\* The dashboard is stopped after the servers: a failed start does not get here.
StopDashboard ==
  /\ ~main.failed /\ stopping("dashboard")
  /\ StopHub
  /\ next
  /\ UNCHANGED <<scenario, server, conn, limiter, dso, loops, now, heard, let, auth>>

WaitDashboard ==
  /\ stopping("dashboard wait") /\ hub.loop = "done"
  /\ next
  /\ UNCHANGED <<scenario, server, conn, limiter, dso, loops, now, heard, let, beside>>

\* No more requests to the API; those in progress are waited for five seconds.
StopAPI ==
  /\ stopping("api")
  /\ next
  /\ UNCHANGED <<scenario, server, conn, limiter, dso, loops, now, heard, let, beside>>

\* Manager.Stop of the DSO sessions.
StopDSO ==
  /\ stopping("dso") /\ sessionsMu
  /\ dso' = [dso EXCEPT !.sweeps = FALSE, !.table = {}]
  /\ conn' = shut(dso.table)
  /\ next
  /\ UNCHANGED <<scenario, server, limiter, loops, now, heard, let, beside>>

\* Login sessions are saved when a file is configured.
SaveTokens ==
  /\ stopping("tokens")
  /\ IF scenario.persists THEN SaveTokensSigned ELSE UNCHANGED auth
  /\ next
  /\ UNCHANGED <<scenario, server, conn, limiter, dso, loops, now, heard, let, stream>>

\* The shutdown goroutine is done, or start-up has failed and been undone.
Exit ==
  /\ main.at = "stop" /\ (main.i > Len(Stages) \/ (main.failed /\ stage \notin Kinds \cup {"doq wait", "xot wait"}))
  /\ Dies("exited")

\* shutdown_timeout is over first; a failed start has no such timer.
TimesOut ==
  /\ main.at = "stop" /\ ~main.failed
  /\ Dies("exited")

\* The server is started again.
Restart ==
  /\ main.at = "exited" /\ past.starts < scenario.starts
  /\ main' = [at |-> "start", i |-> 1, failed |-> FALSE]
  /\ Reloads(scenario.accounts, now)
  /\ UNCHANGED <<scenario, server, conn, limiter, dso, loops, now, heard, let, stream>>

Over == ~alive /\ UNCHANGED vars

-----------------------------------------------------------------------------
(* The dashboard's viewers beside the servers.                               *)

quiet == UNCHANGED <<scenario, main, server, conn, limiter, dso, loops, now, heard, let>>
View(v) == alive /\ v \in scenario.viewers /\ AddClient(v) /\ quiet /\ UNCHANGED auth
\* A panic of the fan-out is not recovered and ends the process.
Fans ==
  /\ alive /\ (Broadcast \/ \E v \in Viewers : FanOut(v))
  /\ main' = [main EXCEPT !.at = IF hub'.loop = "panic" THEN "panic" ELSE @]
  /\ UNCHANGED <<scenario, server, conn, limiter, dso, loops, now, heard, let, auth>>

Watches(v) == alive /\ (WriteLoop(v) \/ ViewerEnds(v) \/ deferred(v)) /\ quiet /\ UNCHANGED auth

-----------------------------------------------------------------------------
(* Requests to the API about accounts and sessions.                          *)

\* The API is up before the servers start and until its stage of the shutdown.
apiUp == alive /\ (main.at = "stop" => main.failed \/ \E i \in main.i..Len(Stages) : Stages[i] = "api")
asked(c) == scenario.calls[c][call[c].n]

Call(c) ==
  /\ apiUp /\ call[c].n < Len(scenario.calls[c])
  /\ Request(c, scenario.calls[c][call[c].n + 1])
  /\ quiet /\ UNCHANGED stream

Handles(c) ==
  /\ alive /\ call[c].at # "idle"
  /\ handlesCall(c, asked(c), scenario.cap, now)
  /\ quiet /\ UNCHANGED stream

CleansUp == apiUp /\ Cleanup(now) /\ quiet /\ UNCHANGED stream

-----------------------------------------------------------------------------
accepts(c) == AcceptTCP(c) \/ AcceptDoQ(c) \/ AcceptXoT(c) \/ AdmitXoT(c) \/ ReadUDP(c) \/ Hand(c) \/ Drop(c)
works(c) == Take(c) \/ Handshake(c) \/ Pipeline(c) \/ ReadFails(c) \/ End(c) \/ Removed(c) \/ ReleaseFirst(c) \/ ReleaseSecond(c)
handles(c) == \E x \in conn[c].flight : Garbage(c, x) \/ Query(c, x) \/ Answer(c, x) \/ HandleDSO(c, x) \/ AnswerDSO(c, x)
                                  \/ HandleStream(c, x) \/ ServeDoQ(c, x) \/ HandleTransfer(c, x)
serves(k) == LoopEnds(k) \/ WorkerExits(k)
sweeps(c) == SweepTests(c) \/ SweepCloses(c)
obeys == \E b \in Background : loops[b].told /\ (Rests(b) \/ Returns(b))
runs == Start \/ StartFails \/ Started \/ StopServer \/ WaitServer \/ StopLoop \/ WaitLoop \/ StopDashboard \/ WaitDashboard \/ StopAPI \/ StopDSO \/ SaveTokens \/ Exit

Next ==
  \/ \E c \in clients : Dial(c) \/ Quiets(c) \/ Read(c) \/ accepts(c) \/ works(c) \/ handles(c) \/ sweeps(c)
  \/ \E b \in Background : Wakes(b) \/ Rests(b) \/ Returns(b)
  \/ \E k \in Kinds : serves(k)
  \/ ReaderReturns \/ runs \/ Signal \/ TimesOut
  \/ Fans \/ \E v \in Viewers : View(v) \/ Watches(v)
  \/ CleansUp \/ \E c \in Callers : Call(c) \/ Handles(c)
  \/ Tick \/ Prune \/ SweepStarts
  \/ Restart
  \/ Over

\* Goroutines run, handlers return, deadlines pass; neither the clients, the
\* viewers, the signal nor the shutdown timer is relied on.
Fairness ==
  /\ \A c \in Clients :
       WF_vars(c \in clients /\ accepts(c)) /\ WF_vars(c \in clients /\ works(c)) /\ WF_vars(c \in clients /\ handles(c))
  /\ \A k \in Kinds : WF_vars(serves(k))
  /\ WF_vars(ReaderReturns) /\ WF_vars(runs) /\ WF_vars(Fans)
  /\ WF_vars(\E c \in clients : sweeps(c)) /\ WF_vars(obeys)

Spec == Init /\ [][Next]_vars /\ Fairness

-----------------------------------------------------------------------------
(* Properties.                                                               *)

holds(k, phases, a) == Cardinality({c \in in(k, phases) : addr(c) = a})
SemHeld(k) == IF k = "doq" THEN Accepted \ {"freed"} ELSE Accepted
IPHeld(k) == IF k = "doq" THEN Accepted ELSE Accepted \ {"freed"}

(* The counts the caps are checked against are the connections the server    *)
(* really holds, in every interleaving of the accept loop, the workers that  *)
(* return slots one count at a time and a shutdown that drops the connection *)
(* in hand, so that no slot leaks and no count runs over its cap.            *)
SlotsAccounted ==
  \A k \in Capped :
    /\ server[k].sem = Cardinality(in(k, SemHeld(k))) /\ server[k].sem <= MaxConnections
    /\ \A a \in addrs : server[k].ip[a] = holds(k, IPHeld(k), a) /\ server[k].ip[a] <= MaxPerIP

(* A DSO session in the manager's table is the adapter's session of a DoT    *)
(* connection a worker still holds, or is about to be removed by that        *)
(* worker, so a session never outlives its connection and the table's cap    *)
(* counts live clients only; a session the sweeper or Stop has taken out has *)
(* had its connection closed.                                                *)
SessionsBound ==
  /\ dso.table \subseteq dso.adapter \cup in("tls", {"removing"})
  /\ dso.adapter \subseteq in("tls", {"reading", "ending"})
  /\ Cardinality(dso.table) <= MaxSessions
  /\ \A c \in dso.adapter \ dso.table : ~conn[c].open

(* The sweeper picks a session to close only when its connection, which      *)
(* carries ordinary queries too, had delivered no message for the whole      *)
(* inactivity timeout when the sweep began, or one whose Touch is still to   *)
(* come.  cleanupExpiredSessions closes on this test and does not repeat it, *)
(* so a Touch between the two comes too late.                                *)
SweepSparesActive ==
  [][\A c \in dso'.sweep.hit \ dso.sweep.hit :
       \/ dso.sweep.since >= heard[c] + Inactivity
       \/ \E x \in conn[c].flight : x.step = "new" /\ x.m.op # "junk"]_vars

(* The limiter's windows start at each address's first datagram, so an       *)
(* address gets fewer than twice its count through in any stretch of time as *)
(* long as the window, however full the table is and whenever entries are    *)
(* pruned or reaped.                                                         *)
RateHeld ==
  \A a \in addrs, t \in 0..now :
    Cardinality({c \in DOMAIN let : addr(c) = a /\ let[c] >= t /\ let[c] < t + Window}) < 2 * scenario.maxCount

(* A login session is counted exactly once against its account's limit and   *)
(* belongs to an account that exists, whatever logins, validations that find *)
(* it expired, log-outs and deletions meet between two locks; one that has   *)
(* ended is not live again, after a restart either, unless the process that  *)
(* ended it stopped without saving.  Where there are accounts one of them is *)
(* an administrator's, though two administrators delete each other; a set-up *)
(* that removes the default account and is then refused its own leaves none  *)
(* at all, and the next set-up starts afresh.                                *)
LoginsAccounted ==
  /\ scenario.cap > 0 =>
       \A u \in Names : store.active[u] = Cardinality(tokensOf(store, u)) /\ store.active[u] <= scenario.cap
  /\ \A t \in store.tokens : t.user \in DOMAIN store.users /\ t.id \notin past.ended
  /\ admins(store) # {} \/ DOMAIN store.users = {}

\* A client still sends on a connection XoTServer.Close waits for.
heldByClient == stopping("xot wait") /\ \E c \in of("xot") : conn[c].talks /\ conn[c].phase \in Accepted
\* A server has something to do for a client that has fallen silent.
unfinished == \E c \in clients : ~conn[c].talks /\ (conn[c].phase \in Accepted \/ conn[c].flight # {})

(* Again and again the servers are done with every connection and datagram   *)
(* they took of clients that have fallen silent, and have handled their      *)
(* messages.  A stopping process exits though the shutdown timer may never   *)
(* fire: no stage of the shutdown waits for ever, but for XoT's while a      *)
(* client goes on sending.  None of it ends in a panic that nothing          *)
(* recovers: the UDP reader is done before Serve closes the channel of the   *)
(* workers, and a viewer is out of the broadcast set before its channel is   *)
(* closed.                                                                   *)
EverythingEnds ==
  /\ [](main.at # "panic")
  /\ []<>(~unfinished \/ main.at = "exited")
  /\ []<>(main.at # "stop" \/ heldByClient)
=============================================================================
