------------------------------- MODULE Policy -------------------------------
(***************************************************************************)
(* The policies a request meets: access lists, the two rate limiters,      *)
(* split-horizon views (internal/filter), DNS cookies (internal/dnscookie),*)
(* the blocklist, RPZ, GeoDNS and DNS64.  Each is a record and operators   *)
(* that return its next value.  Addresses are model values, a network is a *)
(* set of them, time is a number of ticks.                                 *)
(***************************************************************************)
EXTENDS Authoritative

CONSTANTS EvictBatch,          \* 100 in the code
          RRLWindow,           \* 10 s in the code
          StaleAfter,          \* 5 min in the code
          AmplificationRatio,  \* 50 in the code
          IPv6                 \* the addresses that are not IPv4

-----------------------------------------------------------------------------
\* Access lists: [rules, deny]; a rule is [nets, types, action, target], and an
\* empty set of networks or of types matches everything.
validateACLAction(rule) == rule.action \in {"allow", "deny"}
                           \/ (rule.action = "redirect" /\ rule.target # Root)

ValidRules(rules) == \A i \in DOMAIN rules : validateACLAction(rules[i])

\* The checker as a sequence of at most one: none is needed to allow everything.
NewACLChecker(rules, deny) ==
    IF rules = <<>> /\ ~deny THEN <<>> ELSE <<[rules |-> rules, deny |-> deny]>>

IsAllowed(acl, ip, type) ==
    LET covers(set, x) == set = {} \/ x \in set
        hits == {i \in DOMAIN acl.rules : /\ covers(acl.rules[i].nets, ip)
                                          /\ covers(acl.rules[i].types, type)}
    IN  IF hits = {} THEN [ok |-> ~acl.deny, target |-> Root]
        ELSE LET r == acl.rules[Min(hits)]
             IN  [ok |-> r.action = "allow",
                  target |-> IF r.action = "redirect" THEN r.target ELSE Root]

\* All rules or none; the default is kept.
UpdateRules(acl, rules) == IF ValidRules(rules) THEN [acl EXCEPT !.rules = rules] ELSE acl

handleACLRedirect(q, target) ==
    IF target = Unparseable THEN sendError("SERVFAIL")
    ELSE [NewResponse("NOERROR", FALSE) EXCEPT !.ans = {RR(q.name, "CNAME", 60, target)}]

-----------------------------------------------------------------------------
\* Token buckets.  Both limiters keep a map of buckets bounded by max.
Oldest(buckets, n) ==
    CHOOSE S \in SUBSET DOMAIN buckets :
        /\ Cardinality(S) = Min({n, Cardinality(DOMAIN buckets)})
        /\ \A a \in S, b \in DOMAIN buckets \ S : buckets[a].last <= buckets[b].last

evictOldest(buckets, n) ==
    [k \in DOMAIN buckets \ Oldest(buckets, n) |-> buckets[k]]

Room(rl) == IF Cardinality(DOMAIN rl.buckets) >= rl.max
            THEN evictOldest(rl.buckets, EvictBatch) ELSE rl.buckets

NewBucket(rl, now) == [tokens |-> rl.burst - 1, last |-> now, sup |-> -1]

Refill(rl, b, now) ==
    [b EXCEPT !.tokens = Min({rl.burst, @ + rl.rate * (now - b.last)}), !.last = now]

pruneStale(rl, now) ==
    [rl EXCEPT !.buckets = [k \in {j \in DOMAIN @ : @[j].last >= now - StaleAfter} |-> @[k]]]

NewRateLimiter(burst, rate, max) ==
    [on |-> TRUE, burst |-> burst, rate |-> rate, max |-> max, buckets |-> <<>>]

\* The client-side limiter: whether the query is allowed, and the limiter after.
AllowQuery(rl, ip, now) ==
    IF ~rl.on THEN [ok |-> TRUE, rl |-> rl]
    ELSE IF ip \notin DOMAIN rl.buckets
    THEN [ok |-> TRUE, rl |-> [rl EXCEPT !.buckets = (ip :> NewBucket(rl, now)) @@ Room(rl)]]
    ELSE LET b == Refill(rl, rl.buckets[ip], now)
             n == IF b.tokens < 1 THEN b ELSE [b EXCEPT !.tokens = @ - 1]
         IN  [ok |-> b.tokens >= 1, rl |-> [rl EXCEPT !.buckets[ip] = n]]

\* What the API changes: on is <<>> where the field is left out, 0 leaves a number.
SetLimits(rl, on, rate, burst) ==
    [rl EXCEPT !.on    = IF on = <<>> THEN @ ELSE on[1],
               !.rate  = IF rate > 0 THEN rate ELSE @,
               !.burst = IF burst > 0 THEN burst ELSE @]

\* The response-side limiter, keyed by address, type and rcode.
AllowResponse(rrl, key, now) ==
    IF key \notin DOMAIN rrl.buckets
    THEN [ok |-> TRUE, rl |-> [rrl EXCEPT !.buckets = (key :> NewBucket(rrl, now)) @@ Room(rrl)]]
    ELSE LET old == rrl.buckets[key]
             b   == [Refill(rrl, old, now) EXCEPT !.sup = -1]
             n   == IF b.tokens < 1 THEN [b EXCEPT !.sup = now] ELSE [b EXCEPT !.tokens = @ - 1]
         IN  IF old.sup >= 0 /\ now - old.sup < RRLWindow
             THEN [ok |-> FALSE, rl |-> rrl]
             ELSE [ok |-> b.tokens >= 1, rl |-> [rrl EXCEPT !.buckets[key] = n]]

\* A response many times larger than its query drains the bucket.
LogSuperlative(rrl, key, ratio, now) ==
    CASE ratio < AmplificationRatio -> rrl
      [] ratio >= AmplificationRatio /\ key \notin DOMAIN rrl.buckets ->
            [rrl EXCEPT !.buckets = (key :> NewBucket(rrl, now)) @@ Room(rrl)]
      [] ratio >= AmplificationRatio /\ key \in DOMAIN rrl.buckets ->
            [rrl EXCEPT !.buckets[key] =
                IF @.tokens < ratio THEN [@ EXCEPT !.tokens = 0, !.sup = now]
                ELSE [@ EXCEPT !.tokens = @ - ratio]]

-----------------------------------------------------------------------------
\* Views: the first one whose networks contain the client.
SelectView(views, ip) ==
    LET hits == {i \in DOMAIN views : ip \in views[i].nets}
    IN  IF hits = {} THEN "" ELSE views[Min(hits)].name

-----------------------------------------------------------------------------
\* Cookies: the jar is [cur, prev, at, every], secrets are numbered from 1, prev is 0
\* while there is none.  A client sends [k, gen, ts, since] with k "none", "malformed",
\* "client" (its own cookie only) or "server" (a server cookie made with the secret
\* gen and stamped at ts; gen 0 for one this server did not make).  since is when
\* the secret was read, which no one sees.
NoCookie == [k |-> "none", gen |-> 0, ts |-> 0, since |-> 0]

NewCookieJar(every, now) == [cur |-> 1, prev |-> 0, at |-> now, every |-> every]

needsRotation(jar, now) == now - jar.at >= jar.every

rotateLocked(jar, now) == [jar EXCEPT !.prev = jar.cur, !.cur = @ + 1, !.at = now]

\* Mutant: the deadline is not looked at again under the write lock.
rotatesAgain(jar, now) == rotateLocked(jar, now)

\* The critical section of maybeRotate.
maybeRotate(jar, now) == IF needsRotation(jar, now) THEN rotateLocked(jar, now) ELSE jar

readSecret(jar, now) == [NoCookie EXCEPT !.k = "server", !.gen = jar.cur, !.since = now]

serverCookieTimestampFresh(ts, now, maxAge) == now - ts <= maxAge /\ ts - now <= 1

\* The part of ValidateServerCookie after the time: both secrets are tried.
matchesSecret(jar, c) == c.gen # 0 /\ c.gen \in {jar.cur, jar.prev}

-----------------------------------------------------------------------------
\* Blocklist: [on, files, urls, src, off]; src maps a loaded source to its
\* names.  lists says what a source holds now; a missing one fails to load.
NewBlocklist(cfg) == [on |-> cfg.on, files |-> cfg.files, urls |-> cfg.urls,
                      src |-> <<>>, off |-> {}]

loadSource(bl, lists, s) == [bl EXCEPT !.src = (s :> lists[s]) @@ @]

RECURSIVE loadSources(_, _, _)
loadSources(bl, lists, ss) ==
    IF ss = <<>> THEN [ok |-> TRUE, bl |-> bl]
    ELSE IF Head(ss) \notin DOMAIN lists THEN [ok |-> FALSE, bl |-> bl]
    ELSE loadSources(loadSource(bl, lists, Head(ss)), lists, Tail(ss))

\* A disabled list loads nothing; the first source that fails ends the loading.
LoadBlocklist(bl, lists) ==
    IF ~bl.on THEN [ok |-> TRUE, bl |-> bl]
    ELSE loadSources([bl EXCEPT !.src = <<>>], lists, bl.files \o bl.urls)

\* A source blocks a name and everything below it.
IsBlocked(bl, name) ==
    /\ bl.on
    /\ \E s \in DOMAIN bl.src \ bl.off, k \in 0..(Len(name) - 1) : Above(name, k) \in bl.src[s]

AddFile(bl, lists, f) ==
    IF f \notin DOMAIN lists THEN bl
    ELSE [loadSource(bl, lists, f) EXCEPT !.files = Append(@, f)]

AddURL(bl, lists, u) ==
    IF u \notin DOMAIN lists THEN bl
    ELSE [loadSource(bl, lists, u) EXCEPT !.urls = Append(@, u)]

ToggleSource(bl, s) ==
    IF s \notin ToSet(bl.files) \cup ToSet(bl.urls) THEN bl
    ELSE [bl EXCEPT !.off = IF s \in @ THEN @ \ {s} ELSE @ \cup {s}]

\* Removing a file reads the remaining files again, removing a URL the URLs.
RemoveSource(bl, lists, s) ==
    LET without(ss) == RemoveFirst(ss, s)
        dropped == [bl EXCEPT !.src = [t \in DOMAIN @ \ {s} |-> @[t]], !.off = @ \ {s}]
    IN  CASE s \in ToSet(bl.files) ->
                loadSources([dropped EXCEPT !.files = without(@)], lists, without(bl.files)).bl
          [] s \notin ToSet(bl.files) /\ s \in ToSet(bl.urls) ->
                loadSources([dropped EXCEPT !.urls = without(@)], lists, without(bl.urls)).bl
          [] OTHER -> bl

ToggleBlocklist(bl) == [bl EXCEPT !.on = ~@]

-----------------------------------------------------------------------------
\* RPZ: [on, files, prio, names, clients, answers]; names maps a pattern to its
\* rule [pat, action, data, ttl, prio], the others are sequences of rules whose
\* pattern is a network.
NewRPZ(cfg) == [on |-> TRUE, files |-> cfg.files, prio |-> cfg.prio,
                names |-> <<>>, clients |-> <<>>, answers |-> <<>>]

\* A line of a policy file: its trigger, pattern and what its record says.
parseAction(type, data) ==
    CASE type = "CNAME" /\ data = <<"rpz-passthru">> -> "passthru"
      [] type = "CNAME" /\ data = <<"rpz-drop">> -> "drop"
      [] type = "CNAME" /\ data = <<"rpz-tcp-only">> -> "tcp-only"
      [] type = "CNAME" /\ data = Root -> "nxdomain"
      [] type = "CNAME" /\ data = <<"*">> -> "nodata"
      [] type = "CNAME" /\ data \notin {<<"rpz-passthru">>, <<"rpz-drop">>, <<"rpz-tcp-only">>,
                                        Root, <<"*">>} -> "cname"
      [] type \in {"A", "AAAA"} -> "override"
      [] type = "TXT" /\ data \in {<<"drop">>, <<"passthru">>, <<"tcp-only">>} -> data[1]
      [] OTHER -> "nxdomain"

\* An earlier rule for the same pattern stays unless it has a larger number.
addRule(e, trigger, rule) ==
    CASE trigger \in {"qname", "nsdname"} ->
            IF rule.pat \in DOMAIN e.names /\ rule.prio >= e.names[rule.pat].prio THEN e
            ELSE [e EXCEPT !.names = (rule.pat :> rule) @@ @]
      [] trigger = "clientip" -> [e EXCEPT !.clients = Append(@, rule)]
      [] trigger \in {"ip", "nsip"} -> [e EXCEPT !.answers = Append(@, rule)]

\* A malformed line is skipped, an SOA or NS record is no policy.
parsePolicyLine(e, file, line) ==
    IF line.trigger = "malformed" \/ line.type \in {"SOA", "NS"} THEN e
    ELSE addRule(e, line.trigger,
                 [pat |-> line.pat, action |-> parseAction(line.type, line.data),
                  data |-> line.data, ttl |-> line.ttl,
                  prio |-> IF file \in DOMAIN e.prio THEN e.prio[file] ELSE 0])

RECURSIVE loadPolicies(_, _, _)
loadPolicies(e, policies, files) ==
    IF files = <<>> THEN [ok |-> TRUE, rpz |-> e]
    ELSE IF Head(files) \notin DOMAIN policies THEN [ok |-> FALSE, rpz |-> e]
    ELSE loadPolicies(FoldLeft(LAMBDA a, l : parsePolicyLine(a, Head(files), l), e,
                               policies[Head(files)]),
                      policies, Tail(files))

LoadRPZ(e, policies) ==
    IF ~e.on THEN [ok |-> TRUE, rpz |-> e]
    ELSE loadPolicies([e EXCEPT !.names = <<>>, !.clients = <<>>, !.answers = <<>>],
                      policies, e.files)

\* The rule as a sequence of at most one element.
QNAMEPolicy(e, name) ==
    LET wild(k) == <<"*">> \o Above(name, k)
        ks == {k \in 1..(Len(name) - 1) : wild(k) \in DOMAIN e.names}
    IN  CASE ~e.on -> <<>>
          [] e.on /\ name \in DOMAIN e.names -> <<e.names[name]>>
          [] e.on /\ name \notin DOMAIN e.names ->
                IF ks = {} THEN <<>> ELSE <<e.names[wild(Min(ks))]>>

\* Among the matching rules the smallest number wins, then the first.  (Between
\* two addresses with rules of the same number the code takes the first address.)
BestRule(rules, ips) ==
    LET hits == {i \in DOMAIN rules : rules[i].pat \cap ips # {}}
        best == {i \in hits : \A j \in hits : rules[i].prio <= rules[j].prio}
    IN  IF hits = {} THEN <<>> ELSE <<rules[Min(best)]>>

ClientIPPolicy(e, ip) == IF e.on THEN BestRule(e.clients, {ip}) ELSE <<>>

ResponseIPPolicy(e, ips) == IF e.on THEN BestRule(e.answers, ips) ELSE <<>>

ToggleRPZ(e) == [e EXCEPT !.on = ~@]

AddQNAMERule(e, pat, action, data) ==
    addRule(e, "qname", [pat |-> pat, action |-> action, data |-> data, ttl |-> 300, prio |-> 0])

RemoveQNAMERule(e, pat) == [e EXCEPT !.names = [n \in DOMAIN @ \ {pat} |-> @[n]]]

extractResponseIPs(msg) ==
    {r.data[1] : r \in {x \in msg.ans \cup msg.auth \cup msg.add : x.type \in {"A", "AAAA"}}}

extractNSNames(msg) == {r.data : r \in {x \in msg.auth : x.type = "NS"}}

AddressType(a) == IF a \in IPv6 THEN "AAAA" ELSE "A"

\* What a rule does to a query: a reply, silence, or nothing ("pass").
applyRPZRule(q, rule) ==
    LET answer(type) == [NewResponse("NOERROR", FALSE) EXCEPT
                            !.ans = {RR(q.name, type, rule.ttl, rule.data)}]
        echo == IF q.cookie.k = "none" THEN <<>> ELSE <<"client-cookie">>
    IN  CASE rule.action = "nxdomain" -> Checked(sendError("NXDOMAIN"))
          [] rule.action = "nodata"   -> Checked(sendError("NOERROR"))
          [] rule.action = "drop"     -> [k |-> "drop"]
          [] rule.action = "tcp-only" ->
                Checked([handleANYTruncated EXCEPT !.add = IF q.opt THEN {OPT(echo)} ELSE {}])
          [] rule.action = "override" ->
                IF rule.data = Unparseable THEN [k |-> "pass"] ELSE Checked(answer(AddressType(rule.data[1])))
          [] rule.action = "cname" ->
                IF rule.data = Unparseable THEN [k |-> "pass"] ELSE Checked(answer("CNAME"))
          [] OTHER -> [k |-> "pass"]

applyRules(q, rules) == IF rules = <<>> THEN [k |-> "pass"] ELSE applyRPZRule(q, rules[1])

\* rpz is <<>> where no engine is configured.
checkRPZResponseIP(rpz, q, msg) ==
    IF rpz = <<>> THEN [k |-> "pass"]
    ELSE applyRules(q, ResponseIPPolicy(rpz[1], extractResponseIPs(msg)))

\* Response addresses first, then the names of the name servers.
applyRPZResponsePolicy(rpz, q, msg) ==
    LET byIP  == checkRPZResponseIP(rpz, q, msg)
        hits  == {n \in extractNSNames(msg) :
                    applyRules(q, QNAMEPolicy(rpz[1], n)).k # "pass"}
    IN  IF rpz = <<>> \/ byIP.k # "pass" \/ hits = {} THEN byIP
        ELSE applyRules(q, QNAMEPolicy(rpz[1], CHOOSE n \in hits : TRUE))

-----------------------------------------------------------------------------
\* GeoDNS: rules maps [name, type] to [records, default]; where maps an address
\* to its [asn, country], "" where the database has none.
countryToContinent(c) == CASE c \in {"US", "CA"} -> "NA" [] c \in {"DE", "FR"} -> "EU" [] OTHER -> ""

GeoResolve(geo, name, type, ip) ==
    LET rec  == geo.rules[<<name, type>>]
        loc  == geo.where[ip]
        keys == SelectSeq(<<loc.asn, loc.country, countryToContinent(loc.country)>>,
                          LAMBDA k : k # "" /\ k \in DOMAIN rec.records)
    IN  IF <<name, type>> \notin DOMAIN geo.rules THEN ""
        ELSE IF keys # <<>> THEN rec.records[keys[1]] ELSE rec.default

-----------------------------------------------------------------------------
\* DNS64: synth maps an IPv4 address to the address made of it, excluded ones
\* are skipped.
ShouldSynthesize(q, msg) ==
    /\ q.type = "AAAA"
    /\ ~\E r \in msg.ans : r.type = "AAAA"
    /\ msg.rcode = "NOERROR"

SynthesizeAAAA(d64, a) == "64:" \o a

SynthesizeResponse(d64, msg) ==
    [msg EXCEPT
        !.ad = FALSE, !.auth = {}, !.add = {},
        !.ans = {r \in msg.ans : r.type \in {"CNAME", "DNAME"}}
                \cup {RR(r.name, "AAAA", r.ttl, <<SynthesizeAAAA(d64, r.data[1])>>) :
                      r \in {x \in msg.ans : x.type = "A" /\ x.data[1] \notin d64.excluded}}]
=============================================================================
