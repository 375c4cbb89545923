------------------------------ MODULE Serving -------------------------------
(***************************************************************************)
(* Requests, configuration reloads and API calls at one server             *)
(* (cmd/nothingdns: pipeline.go, pipeline_stages.go, handler.go,           *)
(* authoritative.go, reload.go, main.go, security_manager.go; the handlers *)
(* of internal/api; internal/zone/manager.go).                             *)
(*                                                                         *)
(* A request runs the stages of the pipeline while it holds the read side  *)
(* of runtimeMu; a reload builds new components and swaps them in under    *)
(* the write side, one group at a time; zones change under a lock of their *)
(* own.  A scenario fixes what the environment offers: the files, the      *)
(* successive contents of the configuration file, the queries, the API     *)
(* calls, and what the upstream servers and the validator say.             *)
(***************************************************************************)
EXTENDS Policy

CONSTANT Scenarios             \* a sequence of records, see MCServing

VARIABLES
    scenario,   \* the scenario being played
    disk,       \* [zones, lists, policies]: the files
    heap,       \* every zone object made so far; the others hold indices
    h,          \* integratedHandler: [zones, static, aliased, tree, vs, vz, sec, ups, cfg]
    mgr,        \* zone.Manager: [zones, files]
    secs, upst, \* security and upstream managers made so far
    ptr,        \* reloadableState: the managers the next reload will stop
    api,        \* the API server: [sec, got, next]
    cache,      \* <<name, type, do>> to [msg, neg, fresh]
    jar, given, \* the cookie jar, the last cookie a client was given
    now,        \* the clock
    lock,       \* runtimeMu: [readers, pending]
    reqs,       \* the requests
    loads       \* the reloads

vars == <<scenario, disk, heap, h, mgr, secs, upst, ptr, api, cache, jar, given, now, lock,
          reqs, loads>>

Requests == 1..Len(scenario.reqs)
Reloads  == 1..(Len(scenario.cfgs) - 1)

NoMsg == [rcode |-> "none"]

-----------------------------------------------------------------------------
\* The managers a configuration asks for.
NewSecurityManager(cfg, d) ==
    LET bl   == LoadBlocklist(NewBlocklist(cfg.bl), d.lists)
        rpz  == LoadRPZ(NewRPZ(cfg.rpz[1]), d.policies)
        acl  == IF cfg.acl # <<>> THEN NewACLChecker(cfg.acl, TRUE)
                ELSE IF cfg.recursive /\ ~cfg.unrestricted THEN NewACLChecker(<<>>, TRUE)
                ELSE <<>>
        lim  == [i \in DOMAIN cfg.rrl |-> NewRateLimiter(cfg.rrl[1].burst, cfg.rrl[1].rate, cfg.rrl[1].max)]
    IN  [ok  |-> bl.ok /\ (cfg.rpz # <<>> => rpz.ok) /\ ValidRules(cfg.acl),
         mgr |-> [bl |-> bl.bl, rpz |-> IF cfg.rpz = <<>> THEN <<>> ELSE <<rpz.rpz>>,
                  geo |-> cfg.geo, d64 |-> cfg.d64, acl |-> acl, rl |-> lim, rrl |-> lim,
                  ver |-> 0, stopped |-> FALSE]]

NewUpstreamManager(cfg) == [servers |-> cfg.upstream = "servers", validator |-> cfg.dnssec,
                            stopped |-> FALSE]

\* Zone files load all or none; then the views'.
prepareConfiguredZoneFiles(d, files) == [i \in DOMAIN files |-> loadZoneFile(d.zones, files[i])]

AllLoaded(zs) == \A i \in DOMAIN zs : zs[i].ok

ViewFiles(cfg) == FlattenSeq([i \in DOMAIN cfg.views |-> cfg.views[i].files])

\* Every file of the configuration parses and the rules compile.
validateRuntimeAssets(cfg, d) ==
    /\ AllLoaded(prepareConfiguredZoneFiles(d, cfg.zones \o ViewFiles(cfg)))
    /\ ValidRules(cfg.acl)

loadReloadConfig(cfg, d) == cfg.ok /\ validateRuntimeAssets(cfg, d)

\* The zones of a plan are numbered from base + 1; a later one of the same
\* origin replaces an earlier one.
ByOrigin(zs, base) ==
    [o \in {zs[i].origin : i \in DOMAIN zs} |->
        base + Max({i \in DOMAIN zs : zs[i].origin = o})]

\* loaded: the zones of all the views' files, in order.
prepareReloadViews(cfg, loaded, base) ==
    LET upto(v)  == Len(ViewFiles([cfg EXCEPT !.views = SubSeq(@, 1, v)]))
        own(v)   == SubSeq(loaded, upto(v - 1) + 1, upto(v))
        index(n) == Max({v \in DOMAIN cfg.views : cfg.views[v].name = n})
    IN  [vs |-> [v \in DOMAIN cfg.views |-> [name |-> cfg.views[v].name, nets |-> cfg.views[v].nets]],
         vz |-> [n \in {cfg.views[v].name : v \in DOMAIN cfg.views} |->
                    ByOrigin(own(index(n)), base + upto(index(n) - 1))]]

-----------------------------------------------------------------------------
NewRequest == [pc |-> "new", sec |-> 0, ups |-> 0, ver |-> 0, at |-> 0, cookie |-> NoCookie,
               give |-> NoCookie, wrap |-> FALSE, todo |-> <<>>, alias |-> [k |-> "none"], resp |-> NoMsg,
               path |-> "none", by |-> "none", out |-> NoMsg]

NewReload == [pc |-> "idle", zones |-> <<>>, views |-> [vs |-> <<>>, vz |-> <<>>],
              sec |-> 0, ups |-> 0, old |-> 0]

\* Startup: the zones are loaded once and shared by the handler and the manager;
\* the provider reads the handler's own map until the first rebuild.
Init ==
    \E n \in DOMAIN Scenarios : \E s \in {Scenarios[n]} : \E cfg \in {Scenarios[n].cfgs[1]} :
    \E zs \in {prepareConfiguredZoneFiles(Scenarios[n].disk, cfg.zones)} :
    \E vzs \in {prepareConfiguredZoneFiles(Scenarios[n].disk, ViewFiles(cfg))} :
    \E views \in {prepareReloadViews(cfg, vzs, Len(cfg.zones))} :
        /\ scenario = s
        /\ disk = s.disk
        /\ heap = zs \o vzs
        /\ h = [zones |-> ByOrigin(zs, 0), static |-> <<>>, aliased |-> TRUE,
                tree |-> BuildRadixTree(ByOrigin(zs, 0)), vs |-> views.vs, vz |-> views.vz,
                sec |-> 1, ups |-> 1, cfg |-> cfg]
        /\ mgr = [zones |-> ByOrigin(zs, 0),
                  files |-> [o \in DOMAIN ByOrigin(zs, 0) |-> cfg.zones[ByOrigin(zs, 0)[o]]]]
        /\ secs = <<NewSecurityManager(cfg, s.disk).mgr>>
        /\ upst = <<NewUpstreamManager(cfg)>>
        /\ ptr = [sec |-> 1, ups |-> 1]
        /\ api = [sec |-> 1, got |-> 0, next |-> 1]
        /\ cache = <<>>
        /\ jar = NewCookieJar(s.rotate, 0)
        /\ given = NoCookie
        /\ now = 0
        /\ lock = [readers |-> {}, pending |-> 0]
        /\ reqs = [i \in 1..Len(s.reqs) |-> NewRequest]
        /\ loads = [r \in 1..(Len(s.cfgs) - 1) |-> NewReload]

-----------------------------------------------------------------------------
\* Requests.
Q(i) == scenario.reqs[i]
Sec(i) == secs[reqs[i].sec]

WireRcode(rcode) == IF rcode = "BADCOOKIE" THEN "YXRRSET" ELSE rcode

\* The request goes on at the stage pc, or is over with a reply or with none.
Goto(i, r, pc) == reqs' = [reqs EXCEPT ![i] = [r EXCEPT !.pc = pc]] /\ UNCHANGED <<lock, given>>

Done(i, r, by, out) ==
    /\ reqs' = [reqs EXCEPT ![i] = [NewRequest EXCEPT !.pc = "done", !.sec = r.sec, !.ver = r.ver,
                                    !.at = r.at, !.cookie = r.cookie, !.by = by, !.out = out]]
    /\ lock' = [lock EXCEPT !.readers = @ \ {i}]
    /\ given' = IF r.give.k # "none" /\ out # NoMsg THEN r.give ELSE given

OnWire(r, msg) == [cookieResponseWriter(r.wrap, msg) EXCEPT !.rcode = WireRcode(@)]

Write(i, r, by, msg) == Done(i, r, by, OnWire(r, msg))

Reply(i, r, by, msg) == Write(i, r, by, reply(Q(i), msg))

Refuse(i, r, by) == Write(i, r, by, sendErrorWithEDE(Q(i), "SERVFAIL"))

Pass == [k |-> "pass"]

\* The request ends with what an RPZ verdict says, or with msg where it lets pass.
Settle(i, r, by, verdict, msg) ==
    Done(i, r, IF verdict.k = "pass" THEN by ELSE "rpz",
         CASE verdict.k = "drop"    -> NoMsg
           [] verdict.k = "checked" -> OnWire(r, verdict.msg)
           [] OTHER -> OnWire(r, reply(Q(i), msg)))

ClientRule(i, sec) ==
    IF sec.rpz = <<>> THEN Pass ELSE applyRules(Q(i), ClientIPPolicy(sec.rpz[1], Q(i).ip))

\* A client that echoes its cookie sends the last one that was given.
Cookie(i) == IF Q(i).cookie.k = "echo" THEN given ELSE Q(i).cookie

\* ServeDNS takes the read lock, then the stages from setup to the rate limiter:
\* each looks at one component, the first that objects answers.
Admit(i) ==
    LET q      == Q(i)
        sec    == secs[h.sec]
        access == IF sec.acl = <<>> THEN [ok |-> TRUE, target |-> Root]
                  ELSE IsAllowed(sec.acl[1], q.ip, q.type)
        rule   == ClientRule(i, sec)
        rate   == IF sec.rl = <<>> THEN [ok |-> TRUE] ELSE AllowQuery(sec.rl[1], q.ip, now)
        asked  == scenario.cookies /\ q.opt /\ Cookie(i).k # "none"
        r      == [reqs[i] EXCEPT !.sec = h.sec, !.ups = h.ups, !.ver = sec.ver, !.cookie = Cookie(i)]
        valid  == q.form = "ok"
        open   == access.ok /\ rule.k = "pass"
    IN  /\ reqs[i].pc = "new" /\ lock.pending = 0
        /\ scenario.inOrder /\ i > 1 => reqs[i - 1].pc = "done"
        /\ secs' = IF ~valid \/ ~open \/ sec.rl = <<>> THEN secs
                   ELSE [secs EXCEPT ![h.sec].rl = <<rate.rl>>]
        /\ \/ q.form = "empty" /\ Write(i, r, "invalid", sendError("FORMERR"))
           \/ q.form = "idna" /\ Write(i, r, "invalid", sendErrorWithEDE(q, "FORMERR"))
           \/ /\ valid /\ ~access.ok /\ access.target # Root
              /\ Write(i, r, "acl", handleACLRedirect(q, access.target))
           \/ valid /\ ~access.ok /\ access.target = Root /\ Write(i, r, "acl", sendError("REFUSED"))
           \/ valid /\ access.ok /\ rule.k # "pass" /\ Settle(i, r, "rpz", rule, NoMsg)
           \/ valid /\ open /\ ~rate.ok /\ Write(i, r, "rate", sendError("REFUSED"))
           \/ /\ valid /\ open /\ rate.ok
              /\ reqs' = [reqs EXCEPT ![i] = [r EXCEPT !.pc = IF asked THEN "cookie" ELSE "transfer"]]
              /\ lock' = [lock EXCEPT !.readers = @ \cup {i}]
              /\ UNCHANGED given
        /\ UNCHANGED <<scenario, disk, heap, h, mgr, upst, ptr, api, cache, jar, now, loads>>

BadCookie(i, r) == Write(i, [r EXCEPT !.at = now], "cookie",
                         [NewResponse("BADCOOKIE", FALSE) EXCEPT !.add = {OPT(<<"cookie">>)}])

WithCookie(i, r) == Goto(i, [r EXCEPT !.wrap = TRUE], "transfer")

\* cookieStage.  GenerateServerCookie looks whether a rotation is due, rotates
\* under the write lock if it still is, reads the secret, and takes the time for
\* the stamp; ValidateServerCookie takes the time again, then reads the secrets.
\* Other requests run between any two of these.
cookieStage(i) ==
    LET r == reqs[i] IN
    /\ \/ /\ r.pc = "cookie" /\ UNCHANGED jar
          /\ Goto(i, r, IF needsRotation(jar, now) THEN "rotate" ELSE "secret")
       \/ r.pc = "rotate" /\ jar' = maybeRotate(jar, now) /\ Goto(i, r, "secret")
       \/ r.pc = "secret" /\ Goto(i, [r EXCEPT !.give = readSecret(jar, now)], "stamp") /\ UNCHANGED jar
       \/ /\ r.pc = "stamp" /\ UNCHANGED jar
          /\ \E s \in {[r EXCEPT !.give.ts = now]} :
                \/ r.cookie.k = "malformed" /\ BadCookie(i, s)
                \/ r.cookie.k = "client" /\ WithCookie(i, s)
                \/ r.cookie.k = "server" /\ Goto(i, s, "fresh")
       \/ /\ r.pc = "fresh" /\ UNCHANGED jar
          /\ IF serverCookieTimestampFresh(r.cookie.ts, now, 2 * jar.every)
             THEN Goto(i, r, "check") ELSE BadCookie(i, r)
       \/ /\ r.pc = "check" /\ UNCHANGED jar
          /\ IF matchesSecret(jar, r.cookie) THEN WithCookie(i, r) ELSE BadCookie(i, r)
    /\ UNCHANGED <<scenario, disk, heap, h, mgr, secs, upst, ptr, api, cache, now, loads>>

Untouched == <<scenario, disk, heap, h, mgr, upst, ptr, api, jar, now, loads>>

TransferTypes == {"AXFR", "IXFR", "NOTIFY", "UPDATE"}

\* The transfer servers are wired at startup, with the allow list of the first
\* configuration and the handler's map of zones.  Nothing gives them a key, so a
\* signed request is refused; HandleIXFR does not ask for requireTSIG.
transferAllowed(q) ==
    /\ q.proto = "tcp" /\ q.ip \in scenario.cfgs[1].allow
    /\ q.name \in DOMAIN h.zones /\ heap[h.zones[q.name]].soa # <<>>
    /\ ~q.tsig /\ (q.type = "AXFR" => ~scenario.cfgs[1].requireTSIG)

\* All that the messages of a transfer carry; the SOA alone for a client that
\* has the serial (the journal is ZonePrimary's).
transferRecords(q) ==
    LET z   == heap[h.zones[q.name]]
        all == UNION {Owned(z.recs[n].name, <<z.recs[n]>>) : n \in DOMAIN z.recs}
    IN  IF q.type = "IXFR" /\ z.soa[1].serial <= q.serial THEN {x \in all : x.type = "SOA"} ELSE all

\* Nothing fills the NOTIFY allow list or the update handler's keys either.
transferRefusal(q) ==
    CASE q.type = "NOTIFY" -> NewResponse("REFUSED", TRUE)
      [] q.type = "UPDATE" /\ q.name \notin DOMAIN h.zones -> NewResponse("NOTZONE", FALSE)
      [] q.type = "UPDATE" /\ q.name \in DOMAIN h.zones ->
            NewResponse(IF q.tsig THEN "NOTAUTH" ELSE "REFUSED", FALSE)
      [] OTHER -> sendError("REFUSED")

\* anyStage and transferStage.
transferStage(i) ==
    LET q == Q(i)
        r == reqs[i]
        truncated == q.type = "ANY" /\ q.proto = "udp"
        transfers == q.type \in {"AXFR", "IXFR"} /\ transferAllowed(q)
    IN  /\ r.pc = "transfer"
        /\ \/ truncated /\ Write(i, r, "any", handleANYTruncated)
           \/ /\ transfers
              /\ Write(i, r, "transfer", [NewResponse("NOERROR", TRUE) EXCEPT !.ans = transferRecords(q)])
           \/ q.type \in TransferTypes /\ ~transfers /\ Write(i, r, "refused", transferRefusal(q))
           \/ ~truncated /\ q.type \notin TransferTypes /\ Goto(i, r, "filter")
        /\ UNCHANGED <<secs, cache, Untouched>>

CacheKey(i) == <<Q(i).name, Q(i).type, Q(i).do>>

Fresh(key) == key \in DOMAIN cache /\ cache[key].fresh

\* Mutant: a cached answer is given without asking the policies.
cacheFirst(i) ==
    /\ reqs[i].pc = "filter"
    /\ \/ Fresh(CacheKey(i)) /\ Goto(i, reqs[i], "cache")
       \/ ~Fresh(CacheKey(i)) /\ IsBlocked(Sec(i).bl, Q(i).name)
          /\ Write(i, reqs[i], "blocklist", sendErrorWithEDE(Q(i), "NXDOMAIN"))
       \/ ~Fresh(CacheKey(i)) /\ ~IsBlocked(Sec(i).bl, Q(i).name) /\ Goto(i, reqs[i], "cache")
    /\ UNCHANGED <<secs, cache, Untouched>>

\* blocklistStage and rpzQnameStage.
Filter(i) ==
    LET r    == reqs[i]
        rule == IF Sec(i).rpz = <<>> THEN Pass
                ELSE applyRules(Q(i), QNAMEPolicy(Sec(i).rpz[1], Q(i).name))
        hit  == IsBlocked(Sec(i).bl, Q(i).name)
    IN  /\ r.pc = "filter"
        /\ \/ hit /\ Write(i, r, "blocklist", sendErrorWithEDE(Q(i), "NXDOMAIN"))
           \/ ~hit /\ rule.k # "pass" /\ Settle(i, r, "rpz", rule, NoMsg)
           \/ ~hit /\ rule.k = "pass" /\ Goto(i, r, "cache")
        /\ UNCHANGED <<secs, cache, Untouched>>

\* doBitStage and cacheStage.
LookInCache(i) ==
    /\ reqs[i].pc = "cache"
    /\ \/ Fresh(CacheKey(i)) /\ Reply(i, reqs[i], "cache", cache[CacheKey(i)].msg)
       \/ ~Fresh(CacheKey(i)) /\ Goto(i, reqs[i], "view")
    /\ UNCHANGED <<secs, cache, Untouched>>

Geo(i) == IF Sec(i).geo = <<>> THEN ""
          ELSE GeoResolve(Sec(i).geo[1], Q(i).name, Q(i).type, Q(i).ip)

\* What a zone's verdict means for the request; "alias" is not an answer.
FromZone(i, r, verdict) ==
    \/ /\ verdict.k = "dname"
       /\ Goto(i, [r EXCEPT !.alias = verdict, !.todo = <<>>], "target")
    \/ /\ verdict.k \in {"final", "checked"}
       /\ Settle(i, r, "zone", IF verdict.k = "final" THEN Pass
                              ELSE checkRPZResponseIP(Sec(i).rpz, Q(i), verdict.msg), verdict.msg)

\* splitHorizonStage: the zones of the client's view, in the order of the map;
\* then authoritativeStage asks the provider for the zones of the name.
LookInView(i) ==
    LET r     == reqs[i]
        view  == SelectView(h.vs, Q(i).ip)
        zones == IF view \in DOMAIN h.vz
                 THEN {h.vz[view][o] : o \in {p \in DOMAIN h.vz[view] : isSubdomain(Q(i).name, p)}}
                 ELSE {}
        verdict(z) == handleAuthoritative(heap[z], Q(i), Geo(i), scenario.keys)
        speak == {z \in zones : verdict(z).k # "alias"}
    IN  /\ r.pc = "view"
        /\ \/ \E z \in speak : FromZone(i, r, verdict(z))
           \/ /\ speak = {}
              /\ Goto(i, [r EXCEPT !.todo = FindZones(IF h.aliased THEN h.zones ELSE h.static,
                                                      mgr.zones, h.tree, Q(i).name)], "zones")
        /\ UNCHANGED <<secs, cache, Untouched>>

\* Mutant: a zone that leaves an alias to the caller is asked again.
asksAgain(i) ==
    /\ reqs[i].pc = "zones"
    /\ \/ reqs[i].todo = <<>> /\ Goto(i, reqs[i], "chase")
       \/ /\ reqs[i].todo # <<>>
          /\ \E v \in {handleAuthoritative(heap[Head(reqs[i].todo)], Q(i), Geo(i), scenario.keys)} :
                IF v.k = "alias" THEN Goto(i, reqs[i], "zones") ELSE FromZone(i, reqs[i], v)
    /\ UNCHANGED <<secs, cache, Untouched>>

\* authoritativeStage, one zone at a time; with none left the aliases are tried.
AskZone(i) ==
    LET r == reqs[i] IN
    /\ r.pc = "zones"
    /\ \/ r.todo = <<>> /\ Goto(i, r, "chase")
       \/ /\ r.todo # <<>>
          /\ \E v \in {handleAuthoritative(heap[Head(r.todo)], Q(i), Geo(i), scenario.keys)} :
                IF v.k = "alias" THEN Goto(i, [r EXCEPT !.todo = Tail(@)], "zones")
                ELSE FromZone(i, r, v)
    /\ UNCHANGED <<secs, cache, Untouched>>

\* The zones of the handler's map in some order.
MapOrders == {[n \in DOMAIN s |-> heap[h.zones[s[n]]]] : s \in SetToSeqs(DOMAIN h.zones)}

\* cnameStage: it applies when some zone covers the name.
Chase(i) ==
    LET r       == reqs[i]
        covered == FindZones(IF h.aliased THEN h.zones ELSE h.static, mgr.zones, h.tree, Q(i).name) # <<>>
    IN  /\ r.pc = "chase"
        /\ \/ ~covered /\ Goto(i, r, "forward")
           \/ /\ covered
              /\ \E zs \in MapOrders : \E c \in {chaseCNAMEInZones(zs, Q(i).name)} :
                    \/ c.loop /\ Refuse(i, r, "loop")
                    \/ /\ ~c.loop /\ c.chain # <<>>
                       /\ Goto(i, [r EXCEPT !.alias = [k |-> "cname", chain |-> c.chain, target |-> c.target]],
                               "target")
                    \/ ~c.loop /\ c.chain = <<>> /\ Goto(i, r, "forward")
        /\ UNCHANGED <<secs, cache, Untouched>>

\* The reply to an alias, once its target's records are known.
WithTarget(i, r, answers) ==
    LET q     == Q(i)
        dname == r.alias.k = "dname"
        msg   == IF dname THEN handleDNAMERecord(q, r.alias.rec, r.alias.target, answers)
                 ELSE buildCNAMEResponse(r.alias.chain, answers)
        rule  == IF dname THEN checkRPZResponseIP(Sec(i).rpz, q, msg)
                 ELSE applyRPZResponsePolicy(Sec(i).rpz, q, msg)
    IN  Settle(i, r, "zone", rule, msg)

TargetKey(i) == <<reqs[i].alias.target, Q(i).type, FALSE>>

OfType(msg, type) == {x \in msg.ans : x.type = type}

\* resolveCNAMETarget: local zones, the cache, and unless the server is
\* authoritative only the upstream servers.
ResolveTarget(i) ==
    LET r    == reqs[i]
        key  == TargetKey(i)
        held == IF Fresh(key) /\ ~cache[key].neg THEN OfType(cache[key].msg, Q(i).type) ELSE {}
    IN  /\ r.pc = "target"
        /\ \E zs \in MapOrders : \E t \in {targetInZones(zs, r.alias.target, Q(i).type)} :
              \/ t.found /\ WithTarget(i, r, t.ans)
              \/ ~t.found /\ held # {} /\ WithTarget(i, r, held)
              \/ /\ ~t.found /\ held = {} /\ (h.cfg.authOnly \/ ~upst[r.ups].servers)
                 /\ WithTarget(i, r, {})
              \/ /\ ~t.found /\ held = {} /\ ~h.cfg.authOnly /\ upst[r.ups].servers
                 /\ Goto(i, r, "targetup")
        /\ UNCHANGED <<secs, cache, Untouched>>

-----------------------------------------------------------------------------
\* What the other servers do is the environment's: an answer, none ("fail",
\* "nil"), or a message for another "id" or "question".
NotFound == NewResponse("NXDOMAIN", FALSE)

Network(name, type, do) ==
    LET m == IF <<name, type>> \in DOMAIN scenario.net THEN scenario.net[<<name, type>>] ELSE NotFound
    IN  IF do THEN m ELSE [m EXCEPT !.ans = {x \in @ : ~isDNSSECType(x.type)}]

Outcomes(name, type, do) ==
    {[k |-> "answer", msg |-> Network(name, type, do)]}
    \cup {[k |-> f, msg |-> scenario.stray] : f \in scenario.faults}

Set(key, msg, neg) == cache' = (key :> [msg |-> msg, neg |-> neg, fresh |-> TRUE]) @@ cache

\* A nil answer makes resolveCNAMETarget panic, which ServeDNS recovers from.
TargetAnswer(i) ==
    LET r == reqs[i] IN
    /\ r.pc = "targetup"
    /\ \E o \in Outcomes(r.alias.target, Q(i).type, FALSE) :
          \/ o.k = "fail" /\ WithTarget(i, r, {}) /\ UNCHANGED cache
          \/ o.k = "nil" /\ Refuse(i, r, "panic") /\ UNCHANGED cache
          \/ /\ o.k \in {"answer", "id", "question"}
             /\ IF o.msg.rcode = "NOERROR" /\ o.msg.ans # {} THEN Set(TargetKey(i), o.msg, FALSE)
                ELSE UNCHANGED cache
             /\ WithTarget(i, r, OfType(o.msg, Q(i).type))
    /\ UNCHANGED <<secs, Untouched>>

\* authoritativeOnlyStage, resolverStage, upstreamStage, noUpstreamStage.
Forward(i) ==
    LET r == reqs[i] IN
    /\ r.pc = "forward"
    /\ \/ h.cfg.authOnly /\ Write(i, r, "authonly", sendErrorWithEDE(Q(i), "REFUSED"))
       \/ ~h.cfg.authOnly /\ scenario.resolver /\ Goto(i, [r EXCEPT !.path = "resolver"], "await")
       \/ /\ ~h.cfg.authOnly /\ ~scenario.resolver /\ upst[r.ups].servers
          /\ Goto(i, [r EXCEPT !.path = "upstream"], "await")
       \/ /\ ~h.cfg.authOnly /\ ~scenario.resolver /\ ~upst[r.ups].servers
          /\ Write(i, r, "noupstream", sendErrorWithEDE(Q(i), "NXDOMAIN"))
    /\ UNCHANGED <<secs, cache, Untouched>>

\* validateDNSSECResponse: the message with its AD bit, or an error.
validateDNSSECResponse(i, msg, v) ==
    CASE ~upst[reqs[i].ups].validator -> [ok |-> TRUE, msg |-> msg]
      [] upst[reqs[i].ups].validator /\ v = "secure" -> [ok |-> TRUE, msg |-> [msg EXCEPT !.ad = TRUE]]
      [] OTHER -> [ok |-> ~(v \in {"bogus", "indeterminate"} /\ h.cfg.dnssec), msg |-> msg]

\* The stale copy of an entry, where it may be served.
Stale(key) == scenario.serveStale /\ key \in DOMAIN cache

\* withDOBit; the resolver's setting is the one it was built with.
AsksDNSSEC(i) == IF reqs[i].path = "resolver" THEN scenario.cfgs[1].dnssec
                 ELSE Q(i).do \/ upst[reqs[i].ups].validator

\* The answer of the resolver or of an upstream server up to DNS64.
Await(i) ==
    LET r == reqs[i] IN
        /\ r.pc = "await"
        /\ \E o \in Outcomes(Q(i).name, Q(i).type, AsksDNSSEC(i)) :
              \/ o.k = "fail" /\ Stale(CacheKey(i)) /\ Reply(i, r, "stale", cache[CacheKey(i)].msg)
              \/ o.k = "fail" /\ ~Stale(CacheKey(i)) /\ Refuse(i, r, "fail")
              \/ o.k \in {"nil", "id", "question"} /\ (r.path = "resolver" => o.k = "nil") /\ Refuse(i, r, "mismatch")
              \/ /\ o.k = "answer"
                 /\ \E v \in {validateDNSSECResponse(i, o.msg, x) : x \in scenario.verdicts} :
                    \E rule \in {applyRPZResponsePolicy(Sec(i).rpz, Q(i), v.msg)} :
                    \E synth \in {/\ Sec(i).d64 # <<>> /\ ~Q(i).cd /\ upst[r.ups].servers
                                  /\ ShouldSynthesize(Q(i), v.msg)} :
                       \/ ~v.ok /\ Refuse(i, r, "bogus")
                       \/ v.ok /\ rule.k # "pass" /\ Settle(i, r, "rpz", rule, NoMsg)
                       \/ /\ v.ok /\ rule.k = "pass"
                          /\ Goto(i, [r EXCEPT !.resp = v.msg], IF synth THEN "dns64" ELSE "store")
        /\ UNCHANGED <<secs, cache, Untouched>>

\* tryDNS64Synthesis: the A records of the name, validated and filtered alike.
DNS64(i) ==
    LET r == reqs[i] IN
    /\ r.pc = "dns64"
    /\ \E o \in Outcomes(Q(i).name, "A", FALSE) :
          \/ o.k \in {"fail", "nil", "id"} /\ Goto(i, r, "store")
          \/ /\ o.k \in {"answer", "question"}
             /\ \E v \in {validateDNSSECResponse(i, o.msg, x) : x \in scenario.verdicts} :
                \E rule \in {applyRPZResponsePolicy(Sec(i).rpz, Q(i), v.msg)} :
                \E m \in {SynthesizeResponse(Sec(i).d64[1], v.msg)} :
                   \/ ~v.ok /\ Refuse(i, r, "bogus")
                   \/ v.ok /\ rule.k # "pass" /\ Settle(i, r, "rpz", rule, NoMsg)
                   \/ /\ v.ok /\ rule.k = "pass" /\ v.msg.rcode = "NOERROR" /\ m.ans # {}
                      /\ Reply(i, r, "dns64", m)
                   \/ /\ v.ok /\ rule.k = "pass" /\ ~(v.msg.rcode = "NOERROR" /\ m.ans # {})
                      /\ Goto(i, r, "store")
    /\ UNCHANGED <<secs, cache, Untouched>>

\* The end of upstreamStage: the cache is written, the response limiter asked.
\* The resolver keeps a cache of its own and only replies.
Store(i) ==
    LET r    == reqs[i]
        m    == r.resp
        key  == <<Q(i).ip, Q(i).type, m.rcode>>
        rrl  == LogSuperlative(Sec(i).rrl[1], key, scenario.ratio, now)
        resp == AllowResponse(rrl, key, now)
    IN  /\ r.pc = "store"
        /\ IF r.path = "resolver" \/ m.rcode \notin {"NOERROR", "NXDOMAIN"} THEN UNCHANGED cache
           ELSE Set(CacheKey(i), m, m.rcode = "NXDOMAIN" \/ m.ans = {})
        /\ IF r.path = "resolver" \/ Sec(i).rrl = <<>>
           THEN Reply(i, r, r.path, m) /\ UNCHANGED secs
           ELSE /\ secs' = [secs EXCEPT ![r.sec].rrl = <<resp.rl>>]
                /\ \/ resp.ok /\ Reply(i, r, r.path, m)
                   \/ ~resp.ok /\ Write(i, r, "rrl", sendError("REFUSED"))
        /\ UNCHANGED Untouched

ServeDNS(i) == \/ Admit(i) \/ cookieStage(i) \/ transferStage(i) \/ Filter(i) \/ LookInCache(i) \/ LookInView(i) \/ AskZone(i)
               \/ Chase(i) \/ ResolveTarget(i) \/ TargetAnswer(i) \/ Forward(i)
               \/ Await(i) \/ DNS64(i) \/ Store(i)

-----------------------------------------------------------------------------
\* Reloads: reloadConfig, run by the main loop on SIGHUP and by the API, with
\* no lock between the two.
ReloadFrame == <<scenario, disk, cache, jar, given, now, reqs>>

NewConfig(r) == scenario.cfgs[r + 1]

Step(r, l, pc) == loads' = [loads EXCEPT ![r] = [l EXCEPT !.pc = pc]]

Abort(r) == loads' = [loads EXCEPT ![r] = [NewReload EXCEPT !.pc = "failed"]]

\* Steps 1 to 4: nothing the handler uses is touched.
Prepare(r) ==
    /\ loads[r].pc = "idle"
    /\ \E ok \in {loadReloadConfig(NewConfig(r), disk) /\ NewConfig(r).upstream # "invalid"} :
          \/ ~ok /\ Abort(r) /\ UNCHANGED <<heap, upst>>
          \/ /\ ok
             /\ \E zs \in {prepareConfiguredZoneFiles(disk, NewConfig(r).zones)} :
                \E vzs \in {prepareConfiguredZoneFiles(disk, ViewFiles(NewConfig(r)))} :
                \E views \in {prepareReloadViews(NewConfig(r), vzs, Len(heap) + Len(zs))} :
                   /\ heap' = heap \o zs \o vzs
                   /\ upst' = Append(upst, NewUpstreamManager(NewConfig(r)))
                   /\ Step(r, [NewReload EXCEPT !.zones = [n \in DOMAIN zs |-> Len(heap) + n],
                                                !.views = views, !.ups = Len(upst) + 1], "security")
    /\ UNCHANGED <<ReloadFrame, h, mgr, secs, ptr, api, lock>>

\* Step 5 up to the swap; the manager to stop is read first.
PrepareSecurity(r) ==
    /\ loads[r].pc = "security"
    /\ \E n \in {NewSecurityManager(NewConfig(r), disk)} :
          \/ /\ ~n.ok /\ Abort(r)
             /\ upst' = [upst EXCEPT ![loads[r].ups].stopped = TRUE]
             /\ UNCHANGED secs
          \/ /\ n.ok
             /\ secs' = Append(secs, n.mgr)
             /\ Step(r, [loads[r] EXCEPT !.sec = Len(secs) + 1, !.old = ptr.sec], "swapsec")
             /\ UNCHANGED upst
    /\ UNCHANGED <<ReloadFrame, heap, h, mgr, ptr, api, lock>>

LockSteps == {"swapsec", "views", "swapups", "config"}

\* Lock(): the writer announces itself, which keeps new readers out.
Announce(r) ==
    /\ loads[r].pc \in LockSteps /\ lock.pending = 0
    /\ lock' = [lock EXCEPT !.pending = r]
    /\ UNCHANGED <<ReloadFrame, heap, h, mgr, secs, upst, ptr, api, loads>>

\* Mutant: the swap does not wait for the requests in flight.
inFlight(r) == lock.pending = r

\* The critical section is entered once the readers have drained.
Exclusive(r) == lock.pending = r /\ lock.readers = {}

Locked(r) ==
    LET l == loads[r] IN
    /\ l.pc \in LockSteps /\ Exclusive(r)
    /\ lock' = [lock EXCEPT !.pending = 0]
    /\ \/ l.pc = "swapsec" /\ h' = [h EXCEPT !.sec = l.sec] /\ Step(r, l, "apisec")
       \/ l.pc = "views" /\ h' = [h EXCEPT !.vs = l.views.vs, !.vz = l.views.vz] /\ Step(r, l, "oldups")
       \/ l.pc = "swapups" /\ h' = [h EXCEPT !.ups = l.ups] /\ Step(r, l, "apiups")
       \/ l.pc = "config" /\ h' = [h EXCEPT !.cfg = NewConfig(r)] /\ Step(r, l, "pointers")
    /\ UNCHANGED <<ReloadFrame, heap, mgr, secs, upst, ptr, api>>

\* The upstream manager to stop is read before the lock is asked for again.
ReadOldUpstream(r) ==
    /\ loads[r].pc = "oldups"
    /\ Step(r, [loads[r] EXCEPT !.old = ptr.ups], "swapups")
    /\ UNCHANGED <<ReloadFrame, heap, h, mgr, secs, upst, ptr, api, lock>>

\* The API server gets the new components, the old ones are stopped.
StopOld(r) ==
    LET l == loads[r] IN
    /\ \/ /\ l.pc = "apisec"
          /\ api' = [api EXCEPT !.sec = l.sec]
          /\ secs' = [secs EXCEPT ![l.old].stopped = TRUE]
          /\ Step(r, l, "zones") /\ UNCHANGED upst
       \/ /\ l.pc = "apiups"
          /\ upst' = [upst EXCEPT ![l.old].stopped = TRUE]
          /\ Step(r, l, "config") /\ UNCHANGED <<api, secs>>
    /\ UNCHANGED <<ReloadFrame, heap, h, mgr, ptr, lock>>

\* applyConfiguredZoneFiles, zone by zone, then RebuildZoneTree.
ApplyZones(r) ==
    LET l == loads[r] IN
    /\ l.pc = "zones"
    /\ \/ /\ l.zones # <<>>
          /\ \E z \in {Head(l.zones)} : \E o \in {heap[Head(l.zones)].origin} :
                /\ h' = [h EXCEPT !.zones = (o :> z) @@ @]
                /\ mgr' = [zones |-> (o :> z) @@ mgr.zones,
                           files |-> (o :> heap[z].file) @@ mgr.files]
          /\ Step(r, [l EXCEPT !.zones = Tail(@)], "zones")
       \/ /\ l.zones = <<>>
          /\ h' = [h EXCEPT !.static = mgr.zones @@ h.zones, !.aliased = FALSE,
                            !.tree = BuildRadixTree(mgr.zones @@ h.zones)]
          /\ Step(r, l, "views") /\ UNCHANGED mgr
    /\ UNCHANGED <<ReloadFrame, heap, secs, upst, ptr, api, lock>>

\* Step 8.
UpdatePointers(r) ==
    /\ loads[r].pc = "pointers"
    /\ ptr' = [sec |-> loads[r].sec, ups |-> loads[r].ups]
    /\ Step(r, loads[r], "done")
    /\ UNCHANGED <<ReloadFrame, heap, h, mgr, secs, upst, api, lock>>

reloadConfig(r) == \/ Prepare(r) \/ PrepareSecurity(r) \/ Announce(r) \/ Locked(r)
                   \/ ReadOldUpstream(r) \/ StopOld(r) \/ ApplyZones(r) \/ UpdatePointers(r)

-----------------------------------------------------------------------------
\* The API.  A handler checks the caller's role, takes the component from the
\* server under its lock, and only then applies the change.
RoleFor(op) == IF op \in {"zone-create", "zone-delete", "record-add", "record-delete", "record-update"}
               THEN "operator" ELSE "admin"

hasRole(role, need) == role = "admin" \/ role = need

OnBlocklist(bl, c) ==
    CASE c.op = "bl-file"   -> AddFile(bl, disk.lists, c.arg)
      [] c.op = "bl-url"    -> AddURL(bl, disk.lists, c.arg)
      [] c.op = "bl-source" -> ToggleSource(bl, c.arg)
      [] c.op = "bl-remove" -> RemoveSource(bl, disk.lists, c.arg)
      [] c.op = "bl-toggle" -> ToggleBlocklist(bl)
      [] OTHER -> bl

OnRPZ(e, c) ==
    CASE c.op = "rpz-add"    -> AddQNAMERule(e, c.arg.pat, c.arg.action, c.arg.data)
      [] c.op = "rpz-remove" -> RemoveQNAMERule(e, c.arg.pat)
      [] c.op = "rpz-toggle" -> ToggleRPZ(e)
      [] OTHER -> e

OnSecurity(s, c) ==
    [s EXCEPT !.ver = @ + 1,
              !.bl  = OnBlocklist(@, c),
              !.rpz = [n \in DOMAIN @ |-> OnRPZ(@[n], c)],
              !.acl = [n \in DOMAIN @ |-> IF c.op = "acl" THEN UpdateRules(@[n], c.arg) ELSE @[n]],
              !.rl  = [n \in DOMAIN @ |-> IF c.op = "rate" THEN SetLimits(@[n], c.arg.on, c.arg.rate, c.arg.burst)
                                          ELSE @[n]]]

CreateZone(o, ns) ==
    LET at(type) == [name |-> o, raw |-> [abs |-> TRUE, ls |-> o], type |-> type, ttl |-> 3600,
                     data |-> <<[k |-> "name", v |-> [abs |-> TRUE, ls |-> ns]]>>]
    IN  [file |-> "", origin |-> o, dttl |-> 3600, ok |-> TRUE, recs |-> <<at("SOA"), at("NS")>>,
         soa |-> <<[name |-> o, ttl |-> 3600, mname |-> ns, serial |-> 1, minimum |-> 86400]>>]

\* Every change of a record counts the serial up (SerialArithmetic has its width).
IncrementSerial(z) == [z EXCEPT !.soa[1].serial = @ + 1]

AddRecord(z, rec) == IncrementSerial([z EXCEPT !.recs = Append(@, rec)])

DeleteRecord(z, rec) ==
    LET kept == SelectSeq(z.recs, LAMBDA x : ~(x.name = rec.name /\ x.type = rec.type))
    IN  IF kept = z.recs THEN z ELSE IncrementSerial([z EXCEPT !.recs = kept])

UpdateRecord(z, rec, old) ==
    LET hits == {n \in DOMAIN z.recs : /\ z.recs[n].name = rec.name /\ z.recs[n].type = rec.type
                                      /\ z.recs[n].data = old}
    IN  IF hits = {} THEN z ELSE IncrementSerial([z EXCEPT !.recs[Min(hits)] = rec])

WithoutKey(f, k) == [x \in DOMAIN f \ {k} |-> f[x]]

Managed(o) == o \in DOMAIN mgr.zones

\* A zone made by the API belongs to the manager only; a zone that exists stays.
handleCreateZone(o, ns) ==
    \/ /\ ~Managed(o)
       /\ heap' = Append(heap, CreateZone(o, ns))
       /\ mgr' = [mgr EXCEPT !.zones = (o :> Len(heap) + 1) @@ @]
       /\ UNCHANGED disk
    \/ Managed(o) /\ UNCHANGED <<disk, heap, mgr>>

\* The file of a deleted zone is removed; the handler keeps its zone.
handleDeleteZone(o) ==
    /\ mgr' = [zones |-> WithoutKey(mgr.zones, o), files |-> WithoutKey(mgr.files, o)]
    /\ disk' = IF o \in DOMAIN mgr.files THEN [disk EXCEPT !.zones = WithoutKey(@, mgr.files[o])]
               ELSE disk
    /\ UNCHANGED heap

Edited(z, c) ==
    CASE c.op = "record-add"    -> AddRecord(z, c.arg.rec)
      [] c.op = "record-delete" -> DeleteRecord(z, c.arg.rec)
      [] c.op = "record-update" -> UpdateRecord(z, c.arg.rec, c.arg.old)

\* The zone is edited in place, also where the handler holds it.
EditRecord(c) ==
    /\ heap' = IF Managed(c.arg.zone) THEN [heap EXCEPT ![mgr.zones[c.arg.zone]] = Edited(@, c)]
               ELSE heap
    /\ UNCHANGED <<disk, mgr>>

\* Manager.Reload reads the file again and replaces the manager's zone only.
handleZoneReload(o) ==
    \E again \in {IF o \in DOMAIN mgr.files THEN loadZoneFile(disk.zones, mgr.files[o]) ELSE NoZone} :
        \/ /\ again.ok
           /\ heap' = Append(heap, again)
           /\ mgr' = [zones |-> (again.origin :> Len(heap) + 1) @@ mgr.zones,
                      files |-> (again.origin :> again.file) @@ mgr.files]
           /\ UNCHANGED disk
        \/ ~again.ok /\ UNCHANGED <<disk, heap, mgr>>

OnZones(c) == \/ c.op = "zone-create" /\ handleCreateZone(c.arg.zone, c.arg.ns)
              \/ c.op = "zone-delete" /\ handleDeleteZone(c.arg.zone)
              \/ c.op \in {"record-add", "record-delete", "record-update"} /\ EditRecord(c)
              \/ c.op = "zone-reload" /\ handleZoneReload(c.arg.zone)

SecurityCalls == {"bl-file", "bl-url", "bl-source", "bl-remove", "bl-toggle",
                  "rpz-add", "rpz-remove", "rpz-toggle", "acl", "rate"}

ApiFrame == <<scenario, h, upst, ptr, cache, jar, given, now, lock, reqs, loads>>

\* The caller's role is checked; a call on the zones is carried out, one on a
\* security component takes the component first.  "edit" is the operator
\* writing the files.
CallAPI ==
    /\ api.next <= Len(scenario.calls) /\ api.got = 0
    /\ \E c \in {scenario.calls[api.next]} :
          \/ /\ c.op = "edit" /\ disk' = c.arg
             /\ api' = [api EXCEPT !.next = @ + 1] /\ UNCHANGED <<heap, mgr, secs>>
          \/ /\ c.op # "edit" /\ ~hasRole(c.role, RoleFor(c.op))
             /\ api' = [api EXCEPT !.next = @ + 1] /\ UNCHANGED <<disk, heap, mgr, secs>>
          \/ /\ c.op \in SecurityCalls /\ hasRole(c.role, RoleFor(c.op))
             /\ api' = [api EXCEPT !.got = api.sec] /\ UNCHANGED <<disk, heap, mgr, secs>>
          \/ /\ c.op \notin SecurityCalls \cup {"edit"} /\ hasRole(c.role, RoleFor(c.op)) /\ OnZones(c)
             /\ api' = [api EXCEPT !.next = @ + 1] /\ UNCHANGED secs
    /\ UNCHANGED ApiFrame

FinishCall ==
    /\ api.got # 0
    /\ secs' = [secs EXCEPT ![api.got] = OnSecurity(@, scenario.calls[api.next])]
    /\ api' = [api EXCEPT !.next = @ + 1, !.got = 0]
    /\ UNCHANGED <<disk, heap, mgr>> /\ UNCHANGED ApiFrame

-----------------------------------------------------------------------------
ClockFrame == <<scenario, disk, heap, h, mgr, upst, ptr, api, jar, given, lock, reqs, loads>>

Tick == now < scenario.ticks /\ now' = now + 1 /\ UNCHANGED <<ClockFrame, cache, secs>>

\* The cleanup goroutines of a manager that runs.
Cleanup ==
    \E s \in DOMAIN secs :
        /\ scenario.ticks > 0 /\ ~secs[s].stopped
        /\ \E n \in {[secs[s] EXCEPT !.rl  = [i \in DOMAIN @ |-> pruneStale(@[i], now)],
                                     !.rrl = [i \in DOMAIN @ |-> pruneStale(@[i], now)]]} :
              n # secs[s] /\ secs' = [secs EXCEPT ![s] = n]
        /\ UNCHANGED <<ClockFrame, cache, now>>

\* An entry's TTL runs out.
Expire ==
    \E k \in DOMAIN cache :
        /\ scenario.expire /\ cache[k].fresh
        /\ cache' = [cache EXCEPT ![k].fresh = FALSE]
        /\ UNCHANGED <<ClockFrame, secs, now>>

AllDone == /\ \A i \in Requests : reqs[i].pc = "done"
           /\ \A r \in Reloads : loads[r].pc \in {"done", "failed"}
           /\ api.next > Len(scenario.calls)

Rest == AllDone /\ UNCHANGED vars

Next == \/ \E i \in Requests : ServeDNS(i)
        \/ \E r \in Reloads : reloadConfig(r)
        \/ CallAPI \/ FinishCall \/ Tick \/ Cleanup \/ Expire \/ Rest

Fairness == /\ WF_vars(\E i \in Requests : ServeDNS(i))
            /\ WF_vars(\E r \in Reloads : reloadConfig(r))

Spec == Init /\ [][Next]_vars /\ Fairness

-----------------------------------------------------------------------------
\* The reference: scenario.truth lists the records of the zones as a reader of
\* the files would, [name, type, data]; scenario.origins are the zones' names.
Known(name) == {f \in scenario.truth : f.name = name}

Within(name) == \E o \in scenario.origins : isSubdomain(name, o)

Cuts(name) == {f.name : f \in {g \in scenario.truth : /\ g.type = "NS" /\ g.name \notin scenario.origins
                                                     /\ g.name # name /\ isSubdomain(name, g.name)}}

Wildcards(name) == {k \in 1..(Len(name) - 1) : Known(<<"*">> \o Above(name, k)) # {}}

Covered(name) ==
    IF Known(name) # {} THEN Known(name)
    ELSE IF Wildcards(name) = {} THEN {}
    ELSE {[f EXCEPT !.name = name] : f \in Known(<<"*">> \o Above(name, Min(Wildcards(name))))}

Plain(rrs) == {[name |-> x.name, type |-> x.type, data |-> x.data] : x \in rrs}

RECURSIVE Follow(_, _, _)
Follow(name, type, seen) ==
    LET want == {f \in Covered(name) : f.type = type}
        hop  == {f \in Covered(name) : f.type = "CNAME"}
        next == Follow((CHOOSE f \in hop : TRUE).data, type, seen \cup {name})
    IN  CASE ~Within(name) -> [loop |-> FALSE, ans |-> Plain(OfType(Network(name, type, FALSE), type))]
          [] Within(name) /\ name \in seen -> [loop |-> TRUE, ans |-> {}]
          [] Within(name) /\ name \notin seen /\ want # {} -> [loop |-> FALSE, ans |-> want]
          [] Within(name) /\ name \notin seen /\ want = {} /\ hop # {} ->
                [next EXCEPT !.ans = @ \cup hop]
          [] OTHER -> [loop |-> FALSE, ans |-> {}]

\* A name below cuts is answered by a referral to the one nearest the apex.
IsReferral(q, m) ==
    /\ m.rcode = "NOERROR" /\ m.ans = {}
    /\ \E cut \in Cuts(q.name) :
          /\ \A c \in Cuts(q.name) : isSubdomain(c, cut)
          /\ Plain(m.auth) = {f \in Known(cut) : f.type = "NS"}

\* Otherwise: the records of the name, of a wildcard, or of what its aliases lead
\* to; NXDOMAIN where there is none of any type; SERVFAIL for a loop.
IsAnswer(q, m) ==
    LET expected == Follow(q.name, q.type, {}) IN
    IF expected.loop THEN m.rcode = "SERVFAIL"
    ELSE /\ Plain({x \in m.ans : ~isDNSSECType(x.type)}) = expected.ans
         /\ m.rcode = IF Covered(q.name) = {} THEN "NXDOMAIN" ELSE "NOERROR"

\* What is answered for a name of a zone the server holds is what the zone's file
\* says: referrals below cuts, wildcards only for names that do not exist, aliases
\* followed within the zones and outside, and NXDOMAIN only for names with no
\* record (parser, lookups, FindZones, alias chasing and response building
\* together).  The files avoid what the README lists as deviations.
AnswersFollowZone ==
    \A i \in Requests :
        reqs[i].pc = "done" /\ scenario.truth # {} /\ Within(Q(i).name) =>
            IF Cuts(Q(i).name) # {} THEN IsReferral(Q(i), reqs[i].out) ELSE IsAnswer(Q(i), reqs[i].out)

Replied(i) == reqs[i].pc = "done" /\ reqs[i].out # NoMsg

\* No reply carries records for a client the access list or an RPZ rule for its
\* address refuses, and none but a zone transfer for a name the blocklist or an
\* RPZ rule withholds, not even when the records were cached before the policy
\* came in force.  transferStage stands before both filters: a zone goes out to
\* the clients of the transfer allow list, and to no other, whatever the filters
\* say of its name.  The policies are those of the manager the request was
\* admitted under, unless the API has changed them since.
PolicyBeforeAnswers ==
    \A i \in Requests : Replied(i) /\ reqs[i].by \notin {"acl", "rpz"} /\ reqs[i].out.ans # {} =>
        \E s \in {secs[reqs[i].sec]} :
            s.ver = reqs[i].ver =>
                /\ s.acl # <<>> => IsAllowed(s.acl[1], Q(i).ip, Q(i).type).ok
                /\ ClientRule(i, s).k = "pass"
                /\ IF reqs[i].by = "transfer" THEN Q(i).ip \in scenario.cfgs[1].allow
                   ELSE /\ ~IsBlocked(s.bl, Q(i).name)
                        /\ s.rpz # <<>> => applyRules(Q(i), QNAMEPolicy(s.rpz[1], Q(i).name)).k = "pass"

\* A component is stopped only when no request can still be using it (the promise
\* of the comment in ServeDNS, handler.go), even when reloads overlap; and when a
\* reload had no rival, everything it replaced, or made in vain, is stopped.
ReloadSafe ==
    /\ ~secs[h.sec].stopped /\ ~upst[h.ups].stopped
    /\ \A i \in lock.readers : ~secs[reqs[i].sec].stopped /\ ~upst[reqs[i].ups].stopped
    /\ Len(loads) = 1 /\ loads[1].pc \in {"done", "failed"} =>
          /\ \A s \in DOMAIN secs : s # h.sec => secs[s].stopped
          /\ \A u \in DOMAIN upst : u # h.ups => upst[u].stopped

\* A cookie is never answered with BADCOOKIE within one rotation interval of the
\* moment its secret was read, however many requests rotate the jar at once (the
\* grace maybeRotate's second look protects).  The stamp is no measure of it:
\* GenerateServerCookie takes the time after it has let go of the jar, and a
\* rotation in between ages the secret before the cookie is stamped.
CookieGrace ==
    \A i \in Requests : reqs[i].by = "cookie" =>
        \/ reqs[i].cookie.gen = 0
        \/ reqs[i].at - reqs[i].cookie.since >= scenario.rotate

\* Every request is answered (or dropped by policy) and every reload ends: no
\* request keeps the read lock, and a waiting writer does not stop the requests
\* for good.
Served == <>(/\ \A i \in Requests : reqs[i].pc = "done"
             /\ \A r \in Reloads : loads[r].pc \in {"done", "failed"})
=============================================================================
