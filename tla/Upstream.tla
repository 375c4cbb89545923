------------------------------ MODULE Upstream ------------------------------
(***************************************************************************)
(* Forwarding to upstream servers (internal/upstream): the client with its *)
(* pools of TCP connections, the load balancer with its anycast groups and *)
(* circuit breakers, and the health checks of both.                        *)
(*                                                                         *)
(* A process is a goroutine: one of those that run queries, or the probe   *)
(* of one address in checkHealth.  A message is the number of the query it *)
(* answers.  Packing a query never fails here; buffers are left out.       *)
(***************************************************************************)
EXTENDS Integers, Sequences, SequencesExt, FiniteSets, FiniteSetsExt

CONSTANTS
  Scenarios,       \* a set of configurations and bounds
  failLimit,       \* failures that make a server unhealthy
  successLimit,    \* successes that make an anycast backend healthy again
  failureLimit     \* failures that open a circuit breaker

VARIABLES
  scenario,  \* the configuration, who queries, and bounds
  server,    \* health of a standalone server or of a client's server
  backend,   \* health of an anycast backend
  breaker,   \* circuit breaker of an address
  rr,        \* roundRobinIndex
  pool,      \* TCP connections kept for an address
  conns,     \* every connection the pools know or a process uses
  proc,      \* what a process is doing
  caller,    \* who waits for a worker's result, and whether it ever got another query's
  checker,   \* the health check loop
  closed,    \* Close has run
  up,        \* the addresses that answer
  budget     \* queries, faults and outages that may still happen

vars == <<scenario, server, backend, breaker, rr, pool, conns, proc, caller, checker, closed, up, budget>>

Servers == ToSet(scenario.servers)
Backends == UNION {ToSet(g) : g \in scenario.groups}
Address == Servers \cup Backends
maxIdle == scenario.maxIdle
maxTotal == scenario.maxTotal
Client == scenario.mode = "client"
Worker == scenario.workers   \* goroutines that call Query or QueryContext
Process == Worker \cup Address
Probes == Address
withBudget(f) == budget[f] > 0 /\ budget' = [budget EXCEPT ![f] = @ - 1]

-----------------------------------------------------------------------------
\* Health.  Counters stop where no comparison can tell them apart.

capped(n, limit) == IF n < limit THEN n + 1 ELSE n
markFailure(s) == [s EXCEPT !.fails = capped(@, failLimit),
                            !.healthy = @ /\ s.fails + 1 < failLimit]
measuredOnly(s, latency) == [s EXCEPT !.fails = 0, !.latency = latency]
markSuccess(s, latency) == [s EXCEPT !.fails = 0, !.healthy = TRUE, !.latency = latency]
backendFailure(b) == [b EXCEPT !.fails = capped(@, failLimit), !.succ = 0,
                               !.healthy = @ /\ b.fails + 1 < failLimit]
backendSuccess(b) == [b EXCEPT !.fails = 0, !.succ = capped(@, successLimit),
                               !.healthy = @ \/ b.succ + 1 >= successLimit]

\* Two latencies tell the servers of the strategy "fastest" apart.
latencies == IF scenario.strategy = "fastest" THEN {1, 2} ELSE {1}

-----------------------------------------------------------------------------
\* Circuit breakers

recordSuccess(cb) == [state |-> "closed", failures |-> 0]
recordFailure(cb) == [state |-> IF cb.failures + 1 >= failureLimit THEN "open" ELSE cb.state,
                      failures |-> capped(cb.failures, failureLimit)]
\* What shouldAllow may return with the state it leaves: an open breaker allows once its
\* reset timeout has passed.
shouldAllow(cb) ==
  IF cb.state = "open" THEN {<<FALSE, cb>>, <<TRUE, [cb EXCEPT !.state = "half-open"]>>}
  ELSE {<<TRUE, cb>>}

-----------------------------------------------------------------------------
\* Selection.  Each strategy gives the address and the new roundRobinIndex.

healthyServers == SelectSeq(scenario.servers, LAMBDA a : server[a].healthy)
bumped == rr + 1
selectRandom ==
  IF healthyServers = <<>> THEN <<scenario.servers[1], rr>>
  ELSE <<healthyServers[(bumped % Len(healthyServers)) + 1], bumped>>
selectRoundRobin ==
  LET n == Len(scenario.servers)
      from(i) == scenario.servers[((bumped + i) % n) + 1]
      found == {i \in 0..(n - 1) : server[from(i)].healthy}
  IN <<from(IF found = {} THEN 0 ELSE Min(found)), bumped>>
selectFastest ==
  LET measured == SelectSeq(healthyServers, LAMBDA a : server[a].latency > 0)
      best == {i \in DOMAIN measured : \A j \in DOMAIN measured :
                 server[measured[i]].latency <= server[measured[j]].latency}
  IN <<IF measured # <<>> THEN measured[Min(best)]
       ELSE IF healthyServers # <<>> THEN healthyServers[1] ELSE scenario.servers[1], rr>>
selectServer ==
  CASE scenario.strategy = "round_robin" -> selectRoundRobin
    [] scenario.strategy = "fastest" -> selectFastest
    [] OTHER -> selectRandom

\* No weight is zero: AddBackend replaces it, so each of them can be drawn.
weightedSelect(healthy) == ToSet(healthy)

\* The backends that SelectBackend may return: the first healthy one of the region and
\* zone, then of the region, then any healthy one by weight, then the first.
SelectBackend(group) ==
  LET healthy == SelectSeq(group, LAMBDA b : backend[b].healthy)
      inRegion == SelectSeq(healthy, LAMBDA b : scenario.at[b].region = scenario.region)
      inZone == SelectSeq(inRegion, LAMBDA b : scenario.zone = "" \/ scenario.at[b].zone = scenario.zone)
  IN IF scenario.region # "" /\ inZone # <<>> THEN {inZone[1]}
     ELSE IF scenario.region # "" /\ inRegion # <<>> THEN {inRegion[1]}
     ELSE IF healthy # <<>> THEN weightedSelect(healthy)
     ELSE {group[1]}

\* Groups are looked at in any order.
selectAnycastTarget ==
  LET alive == {g \in scenario.groups : \E b \in ToSet(g) : backend[b].healthy}
  IN UNION {SelectBackend(g) : g \in IF alive # {} THEN alive ELSE scenario.groups}
selectStandaloneTarget == {selectServer}
selectTarget ==
  IF scenario.groups # {} THEN {<<b, rr>> : b \in selectAnycastTarget} ELSE selectStandaloneTarget

-----------------------------------------------------------------------------
\* The pool of TCP connections

NewProc == [pc |-> "idle", addr |-> "", id |-> 0, answer |-> 0, conn |-> 0, pooled |-> FALSE, second |-> FALSE,
            result |-> [ok |-> FALSE, wrong |-> FALSE]]
at(p, pc) == proc[p].pc = pc
goes(p, pc) == proc' = [proc EXCEPT ![p].pc = pc]
addrOf(p) == proc[p].addr
fresh == CHOOSE i \in 1..(Cardinality(DOMAIN conns) + 1) : i \notin DOMAIN conns
opened(cs, i, pooled, a) ==
  [x \in DOMAIN cs \cup {i} |-> IF x = i THEN [pooled |-> pooled, addr |-> a, asked |-> <<>>, stream |-> <<>>]
                                ELSE cs[x]]
dropped(cs, ids) == [x \in DOMAIN cs \ ids |-> cs[x]]

\* A pooled connection that is closed leaves the count, once.
keepsCount(pl, n) == pl
closeConn(pl, n) == [pl EXCEPT !.active = @ - n]

closeAll(pl) == [closeConn(pl, Len(pl.idle)) EXCEPT !.idle = <<>>, !.closed = TRUE]

\* pool.get.  The last k idle connections have been idle for too long and are closed;
\* the next one is taken, or found dead and the call fails.  With none left a new one is
\* dialled, outside the count when the pool is full.
idleRest(pl, k) == SubSeq(pl.idle, 1, Len(pl.idle) - k)
expired(pl, k) == closeConn([pl EXCEPT !.idle = idleRest(pl, k)], k)
takes(p, pl, k) ==
  /\ k < Len(pl.idle)
  /\ pool' = [pool EXCEPT ![addrOf(p)] = [expired(pl, k) EXCEPT !.idle = Front(idleRest(pl, k))]]
  /\ proc' = [proc EXCEPT ![p].pc = "send", ![p].conn = Last(idleRest(pl, k))]
dials(p, pl) ==
  \E pooled \in {pl.active < maxTotal} :
    /\ pool' = [pool EXCEPT ![addrOf(p)] = IF pooled THEN [pl EXCEPT !.active = @ + 1] ELSE pl]
    /\ proc' = [proc EXCEPT ![p].pc = "dial", ![p].pooled = pooled]
get(p) ==
  LET pl == pool[addrOf(p)]
      n == Len(pl.idle)
  IN /\ at(p, "get")
     /\ \/ pl.closed /\ goes(p, "tcpFailed") /\ UNCHANGED <<pool, conns, budget>>
        \/ ~pl.closed /\ n = 0 /\ dials(p, pl) /\ UNCHANGED <<conns, budget>>
        \/ ~pl.closed /\ takes(p, pl, 0) /\ UNCHANGED <<conns, budget>>
        \/ \E k \in 1..n :
             /\ ~pl.closed /\ withBudget("faults")
             /\ conns' = dropped(conns, {pl.idle[i] : i \in (n - k + 1)..n})
             /\ \/ takes(p, pl, k)
                \/ k = n /\ dials(p, expired(pl, n))
                \/ pool' = [pool EXCEPT ![addrOf(p)] = expired(pl, k)] /\ goes(p, "tcpFailed")
     /\ UNCHANGED <<scenario, server, backend, breaker, rr, caller, checker, closed, up>>

dial(p) ==
  LET a == addrOf(p)
      i == fresh
  IN /\ at(p, "dial")
     /\ \/ /\ a \in up
           /\ conns' = opened(conns, i, proc[p].pooled, a)
           /\ proc' = [proc EXCEPT ![p].pc = "send", ![p].conn = i]
           /\ UNCHANGED <<pool, budget>>
        \/ /\ IF a \in up THEN withBudget("faults") ELSE UNCHANGED budget
           /\ pool' = IF proc[p].pooled THEN [pool EXCEPT ![a] = closeConn(@, 1)] ELSE pool
           /\ goes(p, "tcpFailed")
           /\ UNCHANGED conns
     /\ UNCHANGED <<scenario, server, backend, breaker, rr, caller, checker, closed, up>>

\* close: after an error on the connection.
closes(p) ==
  LET i == proc[p].conn
      a == addrOf(p)
  IN /\ pool' = IF conns[i].pooled THEN [pool EXCEPT ![a] = closeConn(@, 1)] ELSE pool
     /\ conns' = dropped(conns, {i})

\* put: back to the idle ones, unless the pool is closed, has enough of them or the
\* connection was never counted.
put(p) ==
  LET i == proc[p].conn
      a == addrOf(p)
      keeps == conns[i].pooled /\ ~pool[a].closed /\ Len(pool[a].idle) < maxIdle
  IN IF keeps THEN pool' = [pool EXCEPT ![a].idle = Append(@, i)] /\ UNCHANGED conns
     ELSE closes(p)

\* The deadline cannot be set and the connection goes back unused; the query cannot be
\* written; or the server has it.
send(p) ==
  /\ at(p, "send")
  /\ \/ withBudget("faults") /\ put(p) /\ goes(p, "tcpFailed")
     \/ withBudget("faults") /\ closes(p) /\ goes(p, "tcpFailed")
     \/ /\ conns' = [conns EXCEPT ![proc[p].conn].asked = Append(@, proc[p].id)]
        /\ goes(p, "read") /\ UNCHANGED <<pool, budget>>
  /\ UNCHANGED <<scenario, server, backend, breaker, rr, caller, checker, closed, up>>

\* The server answers the oldest question of a connection.
answers(i) ==
  /\ conns[i].asked # <<>> /\ conns[i].addr \in up
  /\ conns' = [conns EXCEPT ![i].asked = Tail(@), ![i].stream = Append(@, Head(conns[i].asked))]
  /\ UNCHANGED <<scenario, server, backend, breaker, rr, pool, proc, caller, checker, closed, up, budget>>

\* No answer comes in time or it breaks off: the connection cannot be used again.
keepsBroken(p) ==
  /\ IF addrOf(p) \in up THEN withBudget("faults") ELSE UNCHANGED budget
  /\ put(p) /\ goes(p, "tcpFailed") /\ UNCHANGED server
readFails(p) ==
  /\ IF addrOf(p) \in up THEN withBudget("faults") ELSE UNCHANGED budget
  /\ closes(p) /\ goes(p, "tcpFailed") /\ UNCHANGED server

\* A whole message is read.  If it cannot be parsed the connection is still in order.
read(p) ==
  LET i == proc[p].conn
  IN /\ at(p, "read")
     /\ \/ readFails(p)
        \/ /\ conns[i].stream # <<>>
           /\ conns' = [conns EXCEPT ![i].stream = Tail(@)]
           /\ \/ /\ proc' = [proc EXCEPT ![p].pc = "put", ![p].answer = Head(conns[i].stream)]
                 /\ \E l \in latencies : server' = [server EXCEPT ![addrOf(p)] = markSuccess(@, l)]
                 /\ UNCHANGED budget
              \/ withBudget("faults") /\ goes(p, "putFailed") /\ UNCHANGED server
           /\ UNCHANGED pool
     /\ UNCHANGED <<scenario, backend, breaker, rr, caller, checker, closed, up>>

\* The deferred put of queryTCPBuf.
putBack(p) ==
  /\ at(p, "put") \/ at(p, "putFailed")
  /\ put(p)
  /\ goes(p, IF at(p, "put") THEN "succeeded" ELSE "tcpFailed")
  /\ UNCHANGED <<scenario, server, backend, breaker, rr, caller, checker, closed, up, budget>>

-----------------------------------------------------------------------------
\* The client: Query and the probe of checkHealth.

\* queryUDP: an answer, a truncated one, or none.
queryUDP(p) ==
  LET a == addrOf(p)
  IN /\ at(p, "udp") /\ Client
     /\ \/ /\ a \in up
           /\ \E l \in latencies : server' = [server EXCEPT ![a] = markSuccess(@, l)]
           /\ \/ proc' = [proc EXCEPT ![p].pc = "succeeded", ![p].answer = proc[p].id]
              \/ scenario.truncates /\ goes(p, "get")
           /\ UNCHANGED budget
        \/ /\ IF a \in up THEN withBudget("faults") ELSE UNCHANGED budget
           /\ server' = [server EXCEPT ![a] = markFailure(@)]
           /\ goes(p, "get")
     /\ UNCHANGED <<scenario, backend, breaker, rr, pool, conns, caller, checker, closed, up>>

\* The deferred markFailure of queryTCPBuf, then the one of Query.
tcpFailed(p) ==
  /\ at(p, "tcpFailed") /\ Client
  /\ server' = [server EXCEPT ![addrOf(p)] = markFailure(@)]
  /\ goes(p, IF p \in Worker THEN "queryFailed" ELSE "failed")
  /\ UNCHANGED <<scenario, backend, breaker, rr, pool, conns, caller, checker, closed, up, budget>>
queryFailed(p) ==
  /\ at(p, "queryFailed")
  /\ server' = [server EXCEPT ![addrOf(p)] = markFailure(@)]
  /\ goes(p, "failed")
  /\ UNCHANGED <<scenario, backend, breaker, rr, pool, conns, caller, checker, closed, up, budget>>

clientSelects(p) ==
  /\ at(p, "select") /\ Client
  /\ LET s == selectServer
     IN proc' = [proc EXCEPT ![p].pc = "udp", ![p].addr = s[1]] /\ rr' = s[2]
  /\ UNCHANGED <<scenario, server, backend, breaker, pool, conns, caller, checker, closed, up, budget>>

-----------------------------------------------------------------------------
\* The load balancer: a target, then one other target.

\* A goroutine ends; what a query found is in its channel.
ends(p, result) == proc' = [proc EXCEPT ![p] = IF p \in Worker THEN [NewProc EXCEPT !.pc = "result", !.result = result]
                                               ELSE NewProc]

allowed(p, a, nextPc) ==
  \E r \in shouldAllow(breaker[a]) :
    /\ breaker' = [breaker EXCEPT ![a] = r[2]]
    /\ proc' = [proc EXCEPT ![p].pc = IF r[1] THEN nextPc ELSE "failed", ![p].addr = a]

lbSelects(p) ==
  /\ at(p, "select") /\ ~Client
  /\ \E t \in selectTarget : allowed(p, t[1], "udp") /\ rr' = t[2]
  /\ UNCHANGED <<scenario, server, backend, pool, conns, caller, checker, closed, up, budget>>

\* queryUDP and queryTCP of the balancer mark a standalone server's successes only.
heard(a) == IF a \in Servers THEN {[server EXCEPT ![a] = markSuccess(@, l)] : l \in latencies} ELSE {server}
exchange(p, nextPc) ==
  LET a == addrOf(p)
  IN \/ /\ a \in up /\ server' \in heard(a)
        /\ proc' = [proc EXCEPT ![p].pc = "succeeded", ![p].answer = proc[p].id]
        /\ UNCHANGED budget
     \/ /\ IF a \in up THEN withBudget("faults") ELSE UNCHANGED budget
        /\ goes(p, nextPc) /\ UNCHANGED server
truncated(p) ==
  /\ addrOf(p) \in up /\ scenario.truncates
  /\ server' \in heard(addrOf(p)) /\ goes(p, "tcp") /\ UNCHANGED budget
lbExchange(p) ==
  /\ ~Client
  /\ \/ at(p, "udp") /\ (exchange(p, "tcp") \/ truncated(p))
     \/ at(p, "tcp") /\ exchange(p, "lbFailed")
  /\ UNCHANGED <<scenario, backend, breaker, rr, pool, conns, caller, checker, closed, up>>

\* Both exchanges failed: the breaker and a standalone server are told, by the second
\* target the breaker only.  A probe tells the server or the backend.
lbFailed(p) ==
  LET a == addrOf(p)
      probe == p \in Probes
      first == ~probe /\ ~proc[p].second
  IN /\ at(p, "lbFailed")
     /\ breaker' = IF probe THEN breaker ELSE [breaker EXCEPT ![a] = recordFailure(@)]
     /\ server' = IF a \in Servers /\ (probe \/ first) THEN [server EXCEPT ![a] = markFailure(@)] ELSE server
     /\ backend' = IF probe /\ a \in Backends THEN [backend EXCEPT ![a] = backendFailure(@)] ELSE backend
     /\ goes(p, IF first THEN "failover" ELSE "failed")
     /\ UNCHANGED <<scenario, rr, pool, conns, caller, checker, closed, up, budget>>

failover(p) ==
  /\ at(p, "failover")
  /\ \E t \in selectTarget :
       /\ rr' = t[2]
       /\ IF t[1] = addrOf(p) THEN goes(p, "failed") /\ UNCHANGED breaker
          ELSE \E r \in shouldAllow(breaker[t[1]]) :
                 /\ breaker' = [breaker EXCEPT ![t[1]] = r[2]]
                 /\ proc' = [proc EXCEPT ![p].pc = IF r[1] THEN "udp" ELSE "failed",
                                         ![p].addr = t[1], ![p].second = TRUE]
  /\ UNCHANGED <<scenario, server, backend, pool, conns, caller, checker, closed, up, budget>>

\* An answer: the breaker of a query's target closes, a probe's backend is told.
succeeds(p) ==
  LET a == addrOf(p)
  IN /\ at(p, "succeeded")
     /\ breaker' = IF Client \/ p \in Probes THEN breaker ELSE [breaker EXCEPT ![a] = recordSuccess(@)]
     /\ backend' = IF p \in Probes /\ a \in Backends THEN [backend EXCEPT ![a] = backendSuccess(@)] ELSE backend
     /\ ends(p, [ok |-> TRUE, wrong |-> proc[p].answer # proc[p].id])
     /\ UNCHANGED <<scenario, server, rr, pool, conns, caller, checker, closed, up, budget>>
fails(p) ==
  /\ at(p, "failed")
  /\ ends(p, [ok |-> FALSE, wrong |-> FALSE])
  /\ UNCHANGED <<scenario, server, backend, breaker, rr, pool, conns, caller, checker, closed, up, budget>>

-----------------------------------------------------------------------------
\* QueryContext: the result goes through a channel with room for it, so that the
\* goroutine ends even if nobody waits any more.

Query(p) ==
  /\ caller[p].pc = "idle" /\ at(p, "idle") /\ withBudget("queries")
  /\ proc' = [proc EXCEPT ![p] = [NewProc EXCEPT !.pc = "select", !.id = budget.queries]]
  /\ caller' = [caller EXCEPT ![p].pc = "waits"]
  /\ UNCHANGED <<scenario, server, backend, breaker, rr, pool, conns, checker, closed, up>>

receives(p) ==
  /\ caller[p].pc = "waits" /\ at(p, "result")
  /\ caller' = [caller EXCEPT ![p] = [pc |-> "idle", wrong |-> @.wrong \/ proc[p].result.wrong]]
  /\ proc' = [proc EXCEPT ![p] = NewProc]
  /\ UNCHANGED <<scenario, server, backend, breaker, rr, pool, conns, checker, closed, up, budget>>
\* The context ends first; what the goroutine finds is left in the channel.
abandons(p) ==
  /\ scenario.contexts /\ caller[p].pc = "waits" /\ ~at(p, "result")
  /\ caller' = [caller EXCEPT ![p].pc = "left"]
  /\ UNCHANGED <<scenario, server, backend, breaker, rr, pool, conns, proc, checker, closed, up, budget>>
discarded(p) ==
  /\ caller[p].pc = "left" /\ at(p, "result")
  /\ caller' = [caller EXCEPT ![p].pc = "idle"]
  /\ proc' = [proc EXCEPT ![p] = NewProc]
  /\ UNCHANGED <<scenario, server, backend, breaker, rr, pool, conns, checker, closed, up, budget>>

-----------------------------------------------------------------------------
\* Health checks: all addresses at once, and the next round when all have ended.

tick ==
  /\ checker = "waits" /\ scenario.checks
  /\ checker' = "checks"
  /\ proc' = [p \in Process |-> IF p \in Probes THEN [NewProc EXCEPT !.pc = "udp", !.addr = p] ELSE proc[p]]
  /\ UNCHANGED <<scenario, server, backend, breaker, rr, pool, conns, caller, closed, up, budget>>
checked ==
  /\ checker = "checks" /\ \A p \in Probes : at(p, "idle")
  /\ checker' = "waits"
  /\ UNCHANGED <<scenario, server, backend, breaker, rr, pool, conns, proc, caller, closed, up, budget>>

\* Close: the loop ends, then the pools close what is idle.
Close ==
  /\ scenario.closes /\ ~closed /\ checker = "waits"
  /\ closed' = TRUE /\ checker' = "ended"
  /\ conns' = dropped(conns, UNION {ToSet(pool[a].idle) : a \in Address})
  /\ pool' = [a \in Address |-> closeAll(pool[a])]
  /\ UNCHANGED <<scenario, server, backend, breaker, rr, proc, caller, up, budget>>

\* The network: an address stops answering and answers again.
outage(a) ==
  /\ withBudget("outages")
  /\ up' = IF a \in up THEN up \ {a} ELSE up \cup {a}
  /\ UNCHANGED <<scenario, server, backend, breaker, rr, pool, conns, proc, caller, checker, closed>>

-----------------------------------------------------------------------------
NewServer == [healthy |-> TRUE, fails |-> 0, latency |-> 0]
newTCPConnPool == [idle |-> <<>>, active |-> 0, closed |-> FALSE]
NewBreaker == [state |-> "closed", failures |-> 0]
NewBackend == [healthy |-> TRUE, fails |-> 0, succ |-> 0]

Init ==
  /\ scenario \in Scenarios
  /\ server = [a \in Servers |-> NewServer]
  /\ backend = [b \in Backends |-> NewBackend]
  /\ breaker = [a \in Address |-> NewBreaker]
  /\ rr = 0
  /\ pool = [a \in Address |-> newTCPConnPool]
  /\ conns = <<>>
  /\ proc = [p \in Process |-> NewProc]
  /\ caller = [p \in Worker |-> [pc |-> "idle", wrong |-> FALSE]]
  /\ checker = "waits" /\ closed = FALSE
  /\ up = Address
  /\ budget = scenario.budget

step(p) ==
  \/ get(p) \/ dial(p) \/ send(p) \/ read(p) \/ putBack(p)
  \/ queryUDP(p) \/ tcpFailed(p) \/ queryFailed(p) \/ clientSelects(p)
  \/ lbSelects(p) \/ lbExchange(p) \/ lbFailed(p) \/ failover(p)
  \/ succeeds(p) \/ fails(p)
waits(p) == receives(p) \/ discarded(p)

Next ==
  \/ \E p \in Process : step(p)
  \/ \E p \in Worker : Query(p) \/ waits(p) \/ abandons(p)
  \/ \E i \in DOMAIN conns : answers(i)
  \/ tick \/ checked \/ Close
  \/ \E a \in Address : outage(a)

\* Goroutines go on, the ticker ticks, and a server that is up answers.
Fairness ==
  /\ WF_vars(\E p \in Process : step(p))
  /\ WF_vars(\E p \in Worker : waits(p))
  /\ WF_vars(tick \/ checked)
  /\ WF_vars(\E i \in DOMAIN conns : answers(i))
Spec == Init /\ [][Next]_vars /\ Fairness

-----------------------------------------------------------------------------
inUse == {proc[p].conn : p \in {p \in Process : proc[p].pc \in {"send", "read", "put", "putFailed"}}}
dialling(a) == {p \in Process : at(p, "dial") /\ proc[p].pooled /\ addrOf(p) = a}

\* PoolAccounts: the pool's count is the number of its open connections, in use, idle or
\* being dialled, and keeps to its limit; no connection is idle and in use, or used twice;
\* after Close and the last query none is left open.
PoolAccounts ==
  /\ \A a \in Address :
       LET open == {i \in DOMAIN conns : conns[i].pooled /\ conns[i].addr = a}
           idle == ToSet(pool[a].idle)
       IN /\ pool[a].active = Cardinality(open) + Cardinality(dialling(a))
          /\ pool[a].active <= maxTotal
          /\ idle \subseteq open /\ Cardinality(idle) = Len(pool[a].idle) /\ Len(pool[a].idle) <= maxIdle
          /\ idle \cap inUse = {}
          /\ pool[a].closed => idle = {}
  /\ DOMAIN conns = inUse \cup UNION {ToSet(pool[a].idle) : a \in Address}
  /\ \A p, q \in Process : p # q /\ proc[p].pc \in {"send", "read", "put", "putFailed"}
                                 /\ proc[q].pc \in {"send", "read", "put", "putFailed"} => proc[p].conn # proc[q].conn

\* AnswersOwnQuery: what a caller receives is the answer to its own query, although
\* connections are used again after queries that failed, were abandoned or are answered late.
AnswersOwnQuery == \A p \in Worker : ~caller[p].wrong

\* HealthFollows: once outages are over, a server or backend that answers is considered
\* healthy and one that does not is considered unhealthy, whatever queries and probes
\* were under way, until the client is closed.
HealthFollows ==
  <>[](scenario.checks /\ ~closed =>
         /\ \A a \in Servers : server[a].healthy <=> a \in up
         /\ \A b \in Backends : backend[b].healthy <=> b \in up)
=============================================================================
