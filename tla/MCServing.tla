----------------------------- MODULE MCServing ------------------------------
(* Scenarios for Serving: files, configurations, queries and API calls.    *)
EXTENDS Serving

\* Fields and lines of master files.
F(k, v) == [k |-> k, v |-> v]
Abs(ls) == F("name", [abs |-> TRUE, ls |-> ls])
Rel(ls) == F("name", [abs |-> FALSE, ls |-> ls])
Num(n)  == F("ttl", [n |-> n, unit |-> "s"])
Ty(t)   == F("type", t)
Txt(t)  == F("text", t)
Line(toks)   == [ind |-> FALSE, toks |-> toks]
Indent(toks) == [ind |-> TRUE, toks |-> toks]
Master(lines) == [kind |-> "file", lines |-> lines]

ex == <<"ex">>
In(l) == <<l, "ex">>

Header == <<Line(<<F("$ORIGIN", ""), Abs(ex)>>),
            Line(<<F("$TTL", ""), F("ttl", [n |-> 1, unit |-> "m"])>>),
            Line(<<Rel(<<>>), F("class", "IN"), Ty("SOA"), Abs(In("ns")), Abs(In("hm")), F("(", "")>>),
            Line(<<Num(7), Num(1), Num(1)>>),
            Line(<<Num(1), Num(5), F(")", "")>>),
            Indent(<<Ty("NS"), Abs(In("ns"))>>),
            Line(<<Rel(<<"ns">>), Ty("A"), Txt("a0")>>)>>

Small(addr) == Master(Header \o <<Line(<<Rel(<<"w">>), Num(9), Ty("A"), Txt(addr)>>)>>)

Full == Master(Header \o <<
    Line(<<Rel(<<"w">>), Ty("A"), Txt("a1")>>),
    Indent(<<Ty("A"), Txt("a2")>>),
    Line(<<Rel(<<"al">>), Ty("CNAME"), Rel(<<"al2">>)>>),
    Line(<<Rel(<<"al2">>), Ty("CNAME"), Abs(In("w"))>>),
    Line(<<Rel(<<"far">>), Ty("CNAME"), Abs(<<"o", "net">>)>>),
    Line(<<Rel(<<"l1">>), Ty("CNAME"), Rel(<<"l2">>)>>),
    Line(<<Rel(<<"l2">>), Ty("CNAME"), Rel(<<"l1">>)>>),
    Line(<<Rel(<<"*", "wild">>), Ty("A"), Txt("a3")>>),
    Line(<<Rel(<<"x", "wild">>), Ty("TXT"), Txt("t1")>>),
    Line(<<Rel(<<"sub">>), Ty("NS"), Abs(<<"ns", "sub", "ex">>)>>),
    Line(<<Abs(<<"ns", "sub", "ex">>), Ty("A"), Txt("a4")>>),
    Line(<<Rel(<<"c", "sub">>), Ty("NS"), Abs(In("ns"))>>),
    Line(<<F("$GENERATE", ""), F("range", [start |-> 1, stop |-> 2, step |-> 1]), Rel(<<"$">>), Ty("A"), Txt("$")>>),
    Line(<<F("$INCLUDE", ""), Txt("inc"), Abs(In("inc"))>>),
    Line(<<Rel(<<"dk">>), Ty("DKIM"), Txt("t2")>>)>>)

Fact(name, type, data) == [name |-> name, type |-> type, data |-> data]

FullTruth == {
    Fact(ex, "SOA", In("ns")), Fact(ex, "NS", In("ns")), Fact(In("ns"), "A", <<"a0">>),
    Fact(In("w"), "A", <<"a1">>), Fact(In("w"), "A", <<"a2">>),
    Fact(In("al"), "CNAME", In("al2")), Fact(In("al2"), "CNAME", In("w")),
    Fact(In("far"), "CNAME", <<"o", "net">>),
    Fact(In("l1"), "CNAME", In("l2")), Fact(In("l2"), "CNAME", In("l1")),
    Fact(<<"*", "wild", "ex">>, "A", <<"a3">>), Fact(<<"x", "wild", "ex">>, "TXT", <<"t1">>),
    Fact(In("sub"), "NS", <<"ns", "sub", "ex">>), Fact(<<"ns", "sub", "ex">>, "A", <<"a4">>),
    Fact(<<"c", "sub", "ex">>, "NS", In("ns")),
    Fact(In("1"), "A", <<"1">>), Fact(In("2"), "A", <<"2">>),
    Fact(<<"i", "inc", "ex">>, "A", <<"a5">>),
    Fact(In("dk"), "TXT", <<"t2">>),
    Fact(<<"k", "ex">>, "SOA", In("ns")), Fact(<<"k", "ex">>, "NS", In("ns")),
    Fact(<<"y", "k", "ex">>, "A", <<"a6">>)}

Child == Master(<<Line(<<F("$ORIGIN", ""), Abs(<<"k", "ex">>)>>)>> \o <<
    Line(<<F("$TTL", ""), Num(1)>>),
    Line(<<Rel(<<>>), Ty("SOA"), Abs(In("ns")), Abs(In("hm")), Num(1), Num(1), Num(1), Num(1), Num(1)>>),
    Line(<<Rel(<<>>), Ty("NS"), Abs(In("ns"))>>),
    Line(<<Rel(<<"y">>), Ty("A"), Txt("a6")>>)>>)

DNames == Master(Header \o <<
    Line(<<Rel(<<"d">>), Ty("DNAME"), Abs(In("t"))>>),
    Line(<<Rel(<<"h", "t">>), Ty("A"), Txt("a7")>>)>>)

Loose == Master(<<Line(<<Rel(<<"w">>), Ty("A"), Txt("a1")>>)>>)

Files == ("full" :> Full) @@ ("inc" :> Master(<<Line(<<Rel(<<"i">>), Ty("A"), Txt("a5")>>)>>))
         @@ ("child" :> Child) @@ ("dnames" :> DNames) @@ ("old" :> Small("a1")) @@ ("new" :> Small("a8"))
         @@ ("loose" :> Loose)

Disk == [zones |-> Files,
         lists |-> ("ads" :> {<<"ads", "net">>}) @@ ("more" :> {<<"o", "net">>}) @@ ("own" :> {ex}),
         policies |-> ("pol" :> <<
            [trigger |-> "qname", pat |-> <<"*", "bad", "net">>, type |-> "CNAME", data |-> Root, ttl |-> 1],
            [trigger |-> "clientip", pat |-> {"c9"}, type |-> "CNAME", data |-> <<"rpz-drop">>, ttl |-> 1],
            [trigger |-> "ip", pat |-> {"n9"}, type |-> "A", data |-> <<"wall">>, ttl |-> 1],
            [trigger |-> "malformed"]>>)]

Config == [ok |-> TRUE, zones |-> <<"old">>, views |-> <<>>,
           bl |-> [on |-> FALSE, files |-> <<>>, urls |-> <<>>], rpz |-> <<>>, geo |-> <<>>, d64 |-> <<>>,
           acl |-> <<>>, recursive |-> FALSE, unrestricted |-> FALSE, rrl |-> <<>>, authOnly |-> FALSE,
           upstream |-> "servers", dnssec |-> FALSE, allow |-> {}, requireTSIG |-> FALSE]

Query(name, type) == [name |-> name, type |-> type, opt |-> FALSE, do |-> FALSE, cd |-> FALSE,
                      cookie |-> NoCookie, proto |-> "udp", ip |-> "c1", form |-> "ok", tsig |-> FALSE,
                      serial |-> 0]

Signed(q) == [q EXCEPT !.opt = TRUE, !.do = TRUE]
From(q, ip) == [q EXCEPT !.ip = ip]

Net(name, data) == [NewResponse("NOERROR", FALSE) EXCEPT
                      !.ans = {RR(name, "A", 5, <<data>>), RR(name, "RRSIG", 5, <<"net">>)}]

World == (<<<<"o", "net">>, "A">> :> Net(<<"o", "net">>, "n1"))
         @@ (<<<<"p", "bad", "net">>, "A">> :> Net(<<"p", "bad", "net">>, "n2"))
         @@ (<<<<"q", "net">>, "A">> :> Net(<<"q", "net">>, "n9"))
         @@ (<<<<"o", "net">>, "AAAA">> :> NewResponse("NOERROR", FALSE))
         @@ (<<<<"q", "net">>, "AAAA">> :> NewResponse("NOERROR", FALSE))
         @@ (<<<<"e", "net">>, "A">> :> NewResponse("SERVFAIL", FALSE))

Scenario == [disk |-> Disk, cfgs |-> <<Config>>, reqs |-> <<>>, calls |-> <<>>, net |-> World,
             faults |-> {}, stray |-> Net(<<"s", "net">>, "n3"), verdicts |-> {"insecure"}, ticks |-> 0,
             cookies |-> FALSE, rotate |-> 2, expire |-> FALSE, serveStale |-> FALSE, keys |-> {},
             ratio |-> 1, resolver |-> FALSE, inOrder |-> FALSE, truth |-> {}, origins |-> {}]

\* One scenario for each query.
Each(s, queries) == [n \in DOMAIN queries |-> [s EXCEPT !.reqs = <<queries[n]>>]]

-----------------------------------------------------------------------------
\* The answers of the zones against the reference.
AskFull == <<
    Query(In("w"), "A"), Signed(Query(In("w"), "A")), Query(In("w"), "TXT"), Query(In("al"), "A"),
    Query(In("al2"), "CNAME"), Query(In("al"), "TXT"), Query(In("far"), "A"), Query(In("far"), "TXT"),
    Query(In("l1"), "A"), Query(<<"z", "wild", "ex">>, "A"), Query(<<"z", "wild", "ex">>, "TXT"),
    Query(<<"x", "wild", "ex">>, "A"), Query(<<"h", "sub", "ex">>, "A"), Query(<<"h", "c", "sub", "ex">>, "A"),
    Query(In("1"), "A"), Query(In("2"), "A"), Query(In("3"), "A"), Query(<<"i", "inc", "ex">>, "A"),
    Query(In("dk"), "TXT"), Query(ex, "SOA"), Query(ex, "NS"), Query(In("nope"), "A"),
    Query(<<"y", "k", "ex">>, "A"), Query(<<"n", "k", "ex">>, "A"), Query(<<"k", "ex">>, "SOA"),
    Query(<<"a", "b", "wild", "ex">>, "A")>>

Reference == [Scenario EXCEPT !.cfgs = <<[Config EXCEPT !.zones = <<"full", "child">>]>>,
                              !.truth = FullTruth, !.origins = {ex, <<"k", "ex">>}, !.keys = {"active"}]

\* Each stage that may end a request, one request at a time.
Guarded == [Config EXCEPT
    !.acl = <<[nets |-> {"c8"}, types |-> {}, action |-> "deny", target |-> Root],
              [nets |-> {"c7"}, types |-> {"A"}, action |-> "redirect", target |-> <<"o", "net">>],
              [nets |-> {}, types |-> {}, action |-> "allow", target |-> Root]>>,
    !.bl  = [on |-> TRUE, files |-> <<"ads">>, urls |-> <<>>],
    !.rpz = <<[files |-> <<"pol">>, prio |-> ("pol" :> 5)]>>,
    !.geo = <<[rules |-> (<<In("g"), "A">> :> [records |-> ("EU" :> "g1") @@ ("DE" :> "g2"), default |-> "g0"]),
               where |-> [i \in {"c1", "c2", "c7", "c8", "c9"} |->
                            [asn |-> "", country |-> IF i = "c1" THEN "FR" ELSE IF i = "c2" THEN "DE" ELSE ""]]]>>,
    !.d64 = <<[excluded |-> {}]>>,
    !.views = <<[name |-> "in", nets |-> {"c2"}, files |-> <<"dnames">>]>>]

AskGuarded == <<
    [Query(In("w"), "A") EXCEPT !.form = "empty"], [Query(In("w"), "A") EXCEPT !.form = "idna", !.opt = TRUE],
    From(Query(In("w"), "A"), "c8"), From(Query(In("w"), "A"), "c7"), From(Query(In("w"), "TXT"), "c7"),
    From(Query(In("w"), "A"), "c9"), Query(In("w"), "ANY"), [Query(In("w"), "ANY") EXCEPT !.proto = "tcp"],
    Query(ex, "AXFR"), Query(<<"x", "ads", "net">>, "A"), Query(<<"p", "bad", "net">>, "A"),
    Query(<<"q", "net">>, "A"), Query(<<"q", "net">>, "AAAA"), Query(<<"o", "net">>, "AAAA"), Query(In("g"), "A"), From(Query(In("g"), "A"), "c2"),
    From(Query(<<"h", "d", "ex">>, "A"), "c2"), From(Query(<<"q", "d", "ex">>, "A"), "c2"),
    From(Query(In("nope"), "A"), "c2"), Query(<<"no", "net">>, "A"), Query(<<"e", "net">>, "A"),
    [Signed(Query(<<"o", "net">>, "AAAA")) EXCEPT !.cd = TRUE]>>

\* Zone transfers, with the zone's own name on the blocklist.
Exported(require) == [Scenario EXCEPT
    !.cfgs = <<[Config EXCEPT !.bl = [on |-> TRUE, files |-> <<"own">>, urls |-> <<>>],
                              !.allow = {"c2"}, !.requireTSIG = require]>>]

Transfer(type, ip) == [From(Query(ex, type), ip) EXCEPT !.proto = "tcp"]

AskExported == <<
    Transfer("AXFR", "c2"), Transfer("AXFR", "c1"), From(Query(ex, "AXFR"), "c2"), Transfer("IXFR", "c2"),
    [Transfer("IXFR", "c2") EXCEPT !.serial = 7], [Transfer("AXFR", "c2") EXCEPT !.tsig = TRUE],
    [Transfer("AXFR", "c2") EXCEPT !.name = In("w")], Transfer("NOTIFY", "c2"), Transfer("UPDATE", "c2"),
    [Transfer("UPDATE", "c2") EXCEPT !.tsig = TRUE], [Transfer("UPDATE", "c2") EXCEPT !.name = In("w")]>>

Renamed == [Scenario EXCEPT !.cfgs = <<[Config EXCEPT !.zones = <<"dnames">>]>>]

Stages == [Scenario EXCEPT !.cfgs = <<Guarded>>]

\* Servers that fail, answer another query, or are missing.
AskFaulty == <<Query(<<"o", "net">>, "A"), Query(<<"o", "net">>, "AAAA"), Query(In("far"), "A")>>

Faulty == [Scenario EXCEPT !.cfgs = <<[Config EXCEPT !.zones = <<"full">>, !.d64 = <<[excluded |-> {"n1"}]>>]>>,
                           !.faults = {"fail", "nil", "id", "question"}]

Validating == [Scenario EXCEPT
    !.cfgs = <<[Config EXCEPT !.dnssec = TRUE, !.d64 = <<[excluded |-> {}]>>]>>, 
    !.verdicts = {"secure", "bogus", "indeterminate", "insecure"}]

Alone(c) == [Scenario EXCEPT !.cfgs = <<c>>, !.faults = {"fail"}]

AskAlone == <<Query(<<"o", "net">>, "A"), Query(In("w"), "A")>>

Resolving == [Scenario EXCEPT !.resolver = TRUE, !.faults = {"fail", "nil"},
                              !.cfgs = <<[Config EXCEPT !.recursive = TRUE, !.unrestricted = TRUE]>>]

-----------------------------------------------------------------------------
\* Two clients, the cache between them and its expiry; DO and not.
Shared == [Scenario EXCEPT !.reqs = <<Signed(Query(<<"o", "net">>, "A")), Signed(From(Query(<<"o", "net">>, "A"), "c2"))>>,
                           !.expire = TRUE, !.serveStale = TRUE, !.faults = {"fail"}]

\* An alias target cached by one request and asked for by the other.
Targets == [Scenario EXCEPT !.cfgs = <<[Config EXCEPT !.zones = <<"full">>, !.dnssec = TRUE]>>,
                            !.reqs = <<Query(In("far"), "A"), Query(<<"o", "net">>, "A")>>]

\* The blocklist grows while answers are cached.
Filtering == [Scenario EXCEPT
    !.cfgs = <<[Config EXCEPT !.bl.on = TRUE]>>,
    !.reqs = <<Query(<<"o", "net">>, "A"), Query(<<"o", "net">>, "A")>>,
    !.calls = <<[op |-> "bl-file", role |-> "operator", arg |-> "more"],
                [op |-> "bl-file", role |-> "admin", arg |-> "more"]>>]

\* Two overlapping reloads under traffic, the second changing everything.
Changed == [Config EXCEPT !.zones = <<"new">>, !.bl = [on |-> TRUE, files |-> <<"more">>, urls |-> <<>>],
                          !.views = <<[name |-> "v", nets |-> {"c1"}, files |-> <<"old">>]>>]

Reloading == [Scenario EXCEPT !.cfgs = <<Config, Changed>>,
                              !.reqs = <<Query(<<"o", "net">>, "A"), Query(In("w"), "A")>>]

Bare == [Config EXCEPT !.zones = <<>>]

Overlapping == [Scenario EXCEPT !.cfgs = <<Bare, Bare, Bare>>, !.reqs = <<Query(<<"no", "net">>, "A")>>]

Broken == <<[Config EXCEPT !.ok = FALSE], [Config EXCEPT !.zones = <<"loose">>],
            [Config EXCEPT !.zones = <<"gone">>], [Config EXCEPT !.upstream = "invalid"],
            [Config EXCEPT !.bl = [on |-> TRUE, files |-> <<"none">>, urls |-> <<>>]],
            [Config EXCEPT !.rpz = <<[files |-> <<"none">>, prio |-> <<>>]>>],
            [Config EXCEPT !.acl = <<[nets |-> {}, types |-> {}, action |-> "block", target |-> Root]>>]>>

Failing(n) == [Scenario EXCEPT !.cfgs = <<Config, Broken[n]>>, !.reqs = <<Query(In("w"), "A")>>]

\* The API beside a reload: its component may be replaced under it.
Call(op, arg) == [op |-> op, role |-> "admin", arg |-> arg]

Record(name, addr) == [name |-> name, raw |-> [abs |-> TRUE, ls |-> name], type |-> "A", ttl |-> 1,
                       data |-> <<Txt(addr)>>]

Administered == [Scenario EXCEPT
    !.cfgs = <<[Guarded EXCEPT !.rrl = <<[burst |-> 9, rate |-> 1, max |-> 2]>>]>>,
    !.calls = <<Call("bl-url", "more"), Call("bl-source", "more"), Call("bl-remove", "ads"), Call("bl-toggle", ""),
                Call("rpz-add", [pat |-> <<"o", "net">>, action |-> "nodata", data |-> Root]),
                Call("rpz-toggle", ""), Call("rpz-remove", [pat |-> <<"o", "net">>]),
                Call("acl", <<[nets |-> {}, types |-> {}, action |-> "deny", target |-> Root]>>),
                Call("rate", [on |-> <<FALSE>>, rate |-> 0, burst |-> 3])>>,
    !.reqs = <<Query(<<"o", "net">>, "A")>>]

Zoned == [Scenario EXCEPT
    !.calls = <<[op |-> "edit", role |-> "", arg |-> [Disk EXCEPT !.zones = ("old" :> Small("a9")) @@ @]],
                Call("zone-reload", [zone |-> ex]),
                Call("zone-create", [zone |-> <<"m">>, ns |-> In("ns")]), Call("zone-create", [zone |-> <<"m">>, ns |-> In("ns")]),
                Call("record-add", [zone |-> <<"m">>, rec |-> Record(<<"r", "m">>, "b1")]),
                Call("record-update", [zone |-> <<"m">>, rec |-> Record(<<"r", "m">>, "b2"), old |-> <<Txt("b1")>>]),
                Call("record-delete", [zone |-> <<"m">>, rec |-> Record(<<"r", "m">>, "b2")]),
                Call("zone-delete", [zone |-> <<"m">>]), Call("zone-delete", [zone |-> ex]),
                Call("zone-reload", [zone |-> ex])>>,
    !.reqs = <<Query(<<"r", "m">>, "A"), Query(In("w"), "A")>>, !.inOrder = TRUE]

Raced == [Scenario EXCEPT !.cfgs = <<[Config EXCEPT !.bl.on = TRUE], [Config EXCEPT !.bl.on = TRUE]>>,
                          !.calls = <<Call("bl-file", "more")>>, !.reqs = <<Query(<<"o", "net">>, "A")>>]

Removed == [Scenario EXCEPT !.cfgs = <<Config, Config>>, !.calls = <<Call("zone-delete", [zone |-> ex])>>,
                            !.reqs = <<Query(In("w"), "A")>>]

\* Rate limits and cookies over time.
Limited == [Scenario EXCEPT !.cfgs = <<[Config EXCEPT !.rrl = <<[burst |-> 1, rate |-> 1, max |-> 1]>>]>>,
                            !.reqs = <<Query(<<"o", "net">>, "A"), Query(<<"o", "net">>, "A"), From(Query(<<"o", "net">>, "A"), "c2")>>,
                            !.ticks = 3, !.ratio = 60, !.inOrder = TRUE]

Suppressed == [Scenario EXCEPT !.cfgs = <<[Config EXCEPT !.rrl = <<[burst |-> 2, rate |-> 0, max |-> 2]>>]>>,
                               !.reqs = <<Query(<<"o", "net">>, "A"), Query(<<"q", "net">>, "A")>>,
                               !.ratio = 60]

Biscuit(c) == [Query(In("w"), "ANY") EXCEPT !.opt = TRUE, !.cookie = c]
First == Biscuit([NoCookie EXCEPT !.k = "client"])
Echo  == Biscuit([NoCookie EXCEPT !.k = "echo"])

Baking == [Scenario EXCEPT !.cookies = TRUE, !.ticks = 5, !.reqs = <<First, First, Echo>>]

BadCookies == <<Biscuit([NoCookie EXCEPT !.k = "malformed"]), Biscuit([NoCookie EXCEPT !.k = "server"]),
                Biscuit(NoCookie), Query(In("w"), "A")>>

MCScenarios ==
    Each(Reference, AskFull) \o Each(Stages, AskGuarded) \o Each(Renamed, <<Query(<<"h", "d", "ex">>, "A")>>)
    \o Each(Faulty, AskFaulty) \o Each(Exported(FALSE), AskExported)
    \o Each(Exported(TRUE), <<Transfer("AXFR", "c2"), Transfer("IXFR", "c2")>>)
    \o Each(Validating, <<Query(<<"o", "net">>, "A"), Query(<<"o", "net">>, "AAAA")>>)
    \o Each(Alone([Config EXCEPT !.upstream = "none"]), AskAlone)
    \o Each(Alone([Config EXCEPT !.authOnly = TRUE, !.zones = <<"full">>]), AskAlone \o <<Query(In("far"), "A")>>)
    \o Each(Alone([Config EXCEPT !.recursive = TRUE]), AskAlone)
    \o Each(Resolving, AskAlone) \o Each([Scenario EXCEPT !.cookies = TRUE], BadCookies)
    \o [n \in DOMAIN Broken |-> Failing(n)]
    \o <<Shared, Targets, Filtering, Reloading, Overlapping, Administered, Raced, Zoned, Removed, Limited, Suppressed, Baking>>
=============================================================================
