----------------------------- MODULE MCUpstream -----------------------------
(* Instances for Upstream: clients with one and with two servers and each    *)
(* strategy, and balancers with and without anycast groups.                  *)
EXTENDS Upstream

bounds(q, f, o) == [queries |-> q, faults |-> f, outages |-> o]
none == [a \in {"s1", "s2", "b1", "b2"} |-> [region |-> "", zone |-> ""]]
places == [none EXCEPT !["b1"] = [region |-> "eu", zone |-> "a"], !["b2"] = [region |-> "eu", zone |-> "b"]]
apart == [none EXCEPT !["b1"] = [region |-> "us", zone |-> "a"], !["b2"] = [region |-> "eu", zone |-> "b"]]

client == [mode |-> "client", strategy |-> "random", servers |-> <<"s1">>, groups |-> {}, region |-> "", zone |-> "",
           at |-> none, maxIdle |-> 1, maxTotal |-> 1,
           workers |-> {"w1"}, contexts |-> FALSE, checks |-> FALSE, closes |-> FALSE, truncates |-> FALSE,
           budget |-> bounds(3, 2, 0)]
balancer == [client EXCEPT !.mode = "balancer", !.checks = TRUE]

\* Two queries at a time share one server's pool while it is closed.
Pooled == [client EXCEPT !.workers = {"w1", "w2"}, !.contexts = TRUE, !.closes = TRUE, !.truncates = TRUE]
\* Connections that have been idle for too long are closed, one or two of them.
Expiring == [Pooled EXCEPT !.maxIdle = 2, !.maxTotal = 2, !.contexts = FALSE, !.closes = FALSE, !.budget = bounds(3, 1, 0)]
\* Two connections at a time and one place for an idle one, as in the code more
\* may be open than are kept.
Narrow == [Expiring EXCEPT !.maxIdle = 1]
\* Probes and a query share the pool, and the server stops answering and returns.
Probed == [client EXCEPT !.checks = TRUE, !.closes = TRUE, !.truncates = TRUE, !.budget = bounds(1, 1, 2)]
Strategy(s) == [client EXCEPT !.strategy = s, !.servers = <<"s1", "s2">>, !.checks = TRUE, !.budget = bounds(2, 0, 1)]
Standalone == [balancer EXCEPT !.servers = <<"s1", "s2">>, !.strategy = "round_robin", !.budget = bounds(2, 1, 1)]
Anycast == [balancer EXCEPT !.servers = <<>>, !.groups = {<<"b1", "b2">>}, !.budget = bounds(1, 1, 2)]
Regions(z, where) == [balancer EXCEPT !.servers = <<"s1">>, !.groups = {<<"b1">>, <<"b2">>}, !.region = "eu", !.zone = z,
                                      !.at = where, !.budget = bounds(2, 0, 1)]
Region(z) == [Anycast EXCEPT !.region = "eu", !.zone = z, !.at = places, !.truncates = TRUE, !.budget = bounds(2, 0, 1)]

MCScenarios ==
  {Pooled, Expiring, Narrow, Probed, Strategy("random"), Strategy("round_robin"), Strategy("fastest"), Standalone, Anycast,
   Regions("", apart), Region("b"), Region("c")}
=============================================================================
