----------------------------- MODULE MCResolver -----------------------------
(***************************************************************************)
(* Worlds for Resolver: a root, a zone c below it, and zones below c.      *)
(***************************************************************************)
EXTENDS Resolver, TLC

c1 == "c1"
c2 == "c2"
MCClient == {c1, c2}

Root == <<>>
C == <<"c">>
A == <<"a", "c">>
B == <<"b", "c">>
in(l, z) == <<l>> \o z
ns(z) == in("ns", z)
www(z) == in("www", z)
host(z) == in("host", z)
address(s) == <<s>>

Zone(apex, servers, records, stray) ==
  [apex |-> apex, servers |-> {address(s) : s \in servers},
   records |-> records, stray |-> stray]
NS(z, h) == RR(z, "NS", h)
Host(n, s) == RR(n, "A", address(s))
Alias(n, target) == RR(n, "CNAME", target)
Recased(rr) == [rr EXCEPT !.spelling = 1]

\* The zones above those of interest.  A delegation is given with its glue.
Top == Zone(Root, {"@root"}, {NS(Root, ns(Root)), NS(C, ns(C)), Host(ns(C), "@c")}, {})
Com(delegations) ==
  Zone(C, {"@c"}, {NS(C, ns(C)), Host(ns(C), "@c")} \cup delegations, {})
glued(z, s) == {NS(z, ns(z)), Host(ns(z), s)}
Simple(z, s, records) == Zone(z, {s}, glued(z, s) \cup records, {})

addressesIn(zones) == UNION {z.servers : z \in zones}
Worlds(zones, queries) ==
  [zones |-> {Top} \cup zones,
   hints |-> <<[name |-> ns(Root), addrs |-> <<address("@root")>>]>>,
   disallowed |-> {}, echo |-> [s \in addressesIn({Top} \cup zones) \cup {address("@x")} |-> "same"],
   use0x20 |-> FALSE, qmin |-> FALSE, queries |-> queries, faults |-> 0, mayFail |-> {}]
both(q) == [c \in MCClient |-> q]
each(q, r) == (c1 :> q @@ c2 :> r)
q(n, t) == Question(n, t)
faulty(w, n) == [w EXCEPT !.faults = n]
minimizing(w) == [w EXCEPT !.qmin = TRUE]

\* Two servers of one zone, of which one may be lame, lower-case or private.
TwoServers ==
  LET second == {NS(A, in("ns2", A)), Host(in("ns2", A), "@x")}
      records == glued(A, "@a") \cup second \cup {Host(www(A), "1")}
  IN Worlds({Com(glued(A, "@a") \cup second), Zone(A, {"@a"}, records, {})}, both(q(www(A), "A")))
LowerCase == [TwoServers EXCEPT !.use0x20 = TRUE, !.echo[address("@x")] = "lower"]
OtherQuestion == [TwoServers EXCEPT !.echo[address("@x")] = "other"]
Private == [TwoServers EXCEPT !.disallowed = {address("@x")}]

\* The servers of one zone are named in another one.
Gluelessly(queries) ==
  Worlds({Com(glued(A, "@a") \cup {NS(B, host(A))}),
          Simple(A, "@a", {Host(host(A), "@b")}),
          Zone(B, {"@b"}, {NS(B, host(A)), Host(www(B), "2")}, {})},
         queries)
Glueless == Gluelessly(each(q(www(B), "A"), q(host(A), "A")))
GluelessTwice == Gluelessly(both(q(www(B), "A")))
\* Each zone's servers are named in the other one.
Cycle ==
  [Worlds({Com({NS(A, ns(B)), NS(B, ns(A))}),
           Zone(A, {"@a"}, {NS(A, ns(B)), Host(ns(A), "@a")}, {}),
           Zone(B, {"@b"}, {NS(B, ns(A)), Host(ns(B), "@b")}, {})},
          both(q(www(A), "A"))) EXCEPT !.mayFail = {www(A), ns(A), ns(B)}]
RecasedGlue ==
  [Worlds({Com({NS(A, ns(A)), Recased(Host(ns(A), "@a"))}), Simple(A, "@a", {Host(www(A), "1")})},
          both(q(www(A), "A"))) EXCEPT !.mayFail = {www(A), ns(A), ns(B)}]

\* Aliases, within a zone and across zones.
Aliases(records, queries) ==
  Worlds({Com(glued(A, "@a") \cup glued(B, "@b")),
          Simple(A, "@a", records), Simple(B, "@b", {Host(www(B), "2")})}, queries)
Across == Aliases({Alias(www(A), www(B))}, each(q(www(A), "A"), q(www(B), "A")))
Twice == Aliases({Alias(www(A), www(B))}, both(q(www(A), "A")))
Within == Aliases({Alias(www(A), in("w", A)), Host(in("w", A), "1")}, both(q(www(A), "A")))
Loop == Aliases({Alias(www(A), in("w", A)), Alias(in("w", A), www(A))}, both(q(www(A), "A")))
Long == Aliases({Alias(www(A), in("w", A)), Alias(in("w", A), in("v", A)), Alias(in("v", A), in("u", A)),
                 Alias(in("u", A), www(B))}, both(q(www(A), "A")))
Dangling == Aliases({Alias(www(A), in("no", B))}, each(q(www(A), "A"), q(www(A), "CNAME")))
Renamed == Aliases({RR(A, "DNAME", B)}, each(q(www(A), "A"), q(in("no", A), "A")))

\* Names that are not there, with and without QNAME minimisation.
Deep == in("www", in("x", A))
Missing ==
  Worlds({Com(glued(A, "@a")), Simple(A, "@a", {Host(Deep, "1")})},
         each(q(Deep, "A"), q(in("y", www(A)), "A")))
NoData == Worlds({Com(glued(A, "@a")), Simple(A, "@a", {Host(Deep, "1")})},
                 each(q(Deep, "AAAA"), q(in("x", A), "A")))

\* The servers of A add records that are not theirs, and one that nobody asked for.
Stray ==
  LET foreign == {Host(host(B), "@x"), Host(in("other", A), "1")}
  IN Worlds({Com(glued(A, "@a") \cup {NS(B, ns(B)), Host(ns(B), "@b")} \cup {NS(in("d", C), host(B))}),
             Zone(A, {"@a"}, glued(A, "@a") \cup {Host(www(A), "1"), Host(in("other", A), "1")}, foreign),
             Simple(B, "@b", {Host(host(B), "@b")}),
             Zone(in("d", C), {"@b"}, {NS(in("d", C), host(B)), Host(www(in("d", C)), "4")}, {})},
            each(q(www(A), "A"), q(www(in("d", C)), "A")))

MCScenarios ==
  << faulty(TwoServers, 1), LowerCase, OtherQuestion, Private, Glueless, faulty(GluelessTwice, 1), Cycle,
     RecasedGlue, Across, faulty(Twice, 1), Within, Loop, Long, Dangling, Renamed, Stray, Missing, NoData,
     faulty(minimizing(TwoServers), 1), minimizing(Glueless), minimizing(Across), minimizing(Renamed),
     minimizing(Missing), minimizing(NoData) >>
=============================================================================
