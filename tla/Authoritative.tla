---------------------------- MODULE Authoritative ---------------------------
(***************************************************************************)
(* Answering from the zones the server holds: the lookups of               *)
(* internal/zone/zone.go, the radix tree, the zone providers of            *)
(* cmd/nothingdns/zone_provider.go, handleAuthoritative and the chasing of *)
(* aliases (authoritative.go), and the building and trimming of replies    *)
(* (handler.go).                                                           *)
(*                                                                         *)
(* A query is [name, type, opt, do, cd, cookie, proto, ip]; a message is   *)
(* [rcode, aa, ad, tc, ans, auth, add] with sets of records                *)
(* [name, type, ttl, data], where data is a tuple (the labels of a name,   *)
(* or one address or text); an OPT record lists its options as data.       *)
(* "The order of a map" is a sequence of the zones, chosen by the caller.  *)
(***************************************************************************)
EXTENDS ZoneFile

CONSTANT MaxCNAMEDepth         \* 16 in the code

isSubdomain(child, parent) == IsSuffix(parent, child)

\* The name with its first k labels removed.
Above(name, k) == SubSeq(name, k + 1, Len(name))

recordTypeMatches(rec, type) == rec.type = type \/ (rec.type = "DKIM" /\ type = "TXT")

At(z, name) == SelectSeq(z.recs, LAMBDA r : r.name = name)

Lookup(z, name, type) == SelectSeq(At(z, name), LAMBDA r : recordTypeMatches(r, type))

NameExists(z, name) == At(z, name) # <<>>

\* The closest wildcard above the name, whatever lies between them.
LookupWildcard(z, name, type) ==
    LET ks   == {k \in 1..(Len(name) - Len(z.origin)) : NameExists(z, <<"*">> \o Above(name, k))}
        recs == At(z, <<"*">> \o Above(name, Min(ks)))
    IN  IF ~isSubdomain(name, z.origin) \/ ks = {} THEN [found |-> FALSE, recs |-> <<>>]
        ELSE [found |-> TRUE,
              recs  |-> IF type = "ANY" THEN recs
                        ELSE SelectSeq(recs, LAMBDA r : recordTypeMatches(r, type))]

\* Mutant: the walk starts at the name.
lowestCut(z, name) ==
    LET ks == {k \in 1..(Len(name) - Len(z.origin) - 1) : Lookup(z, Above(name, k), "NS") # <<>>}
    IN  IF ~isSubdomain(name, z.origin) \/ ks = {} THEN [found |-> FALSE, at |-> name, ns |-> <<>>]
        ELSE [found |-> TRUE, at |-> Above(name, Min(ks)),
              ns |-> Lookup(z, Above(name, Min(ks)), "NS")]

\* The cut closest to the origin strictly between it and the name.
FindDelegation(z, name) ==
    LET ks == {k \in 1..(Len(name) - Len(z.origin) - 1) : Lookup(z, Above(name, k), "NS") # <<>>}
    IN  IF ~isSubdomain(name, z.origin) \/ ks = {} THEN [found |-> FALSE, at |-> name, ns |-> <<>>]
        ELSE [found |-> TRUE, at |-> Above(name, Max(ks)),
              ns |-> Lookup(z, Above(name, Max(ks)), "NS")]

\* The most specific DNAME above the name, and the name rewritten with its
\* target as written.
FindDNAME(z, name) ==
    LET top == IF name = z.origin THEN Len(name) - 1 ELSE Len(name) - Len(z.origin)
        ks  == {k \in 1..top : Lookup(z, Above(name, k), "DNAME") # <<>>}
        rec == Lookup(z, Above(name, Min(ks)), "DNAME")[1]
    IN  IF ~isSubdomain(name, z.origin) \/ ks = {} THEN [found |-> FALSE]
        ELSE [found |-> TRUE, rec |-> [rec EXCEPT !.name = Above(name, Min(ks))],
              target |-> SubSeq(name, 1, Min(ks)) \o canonicalize(rec.data[1].v)]

FindGlue(z, name) == SelectSeq(At(z, name), LAMBDA r : r.type \in {"A", "AAAA"})

RR(name, type, ttl, data) == [name |-> name, type |-> type, ttl |-> ttl, data |-> data]

Unparseable == <<"?">>

\* The RData of a record as it goes on the wire: a name is taken as written.
parseRData(rec) ==
    LET d    == rec.data
        name == CASE rec.type \in {"NS", "CNAME", "DNAME", "PTR", "SOA"} -> 1
                  [] rec.type = "MX" -> 2
                  [] OTHER -> 0
    IN  IF name > 0
        THEN IF Len(d) < name \/ (Len(d) >= name /\ d[name].k # "name") THEN Unparseable
             ELSE canonicalize(d[name].v)
        ELSE IF d = <<>> \/ (d # <<>> /\ d[1].k # "text") THEN Unparseable ELSE <<d[1].v>>

WireType(type) == IF type = "DKIM" THEN "TXT" ELSE type

Parsed(recs) == {recs[i] : i \in {j \in DOMAIN recs : parseRData(recs[j]) # Unparseable}}

Owned(name, recs) == {RR(name, WireType(r.type), r.ttl, parseRData(r)) : r \in Parsed(recs)}

NewResponse(rcode, aa) == [rcode |-> rcode, aa |-> aa, ad |-> FALSE, tc |-> FALSE,
                           ans |-> {}, auth |-> {}, add |-> {}]

buildResponse(q, recs) == [NewResponse("NOERROR", FALSE) EXCEPT !.ans = Owned(q.name, recs)]

\* With an active ZSK the answer is signed as one set under the query name.
buildSignedResponse(q, recs, keys) ==
    LET resp == buildResponse(q, recs) IN
    IF resp.ans = {} \/ "active" \notin keys THEN resp
    ELSE [resp EXCEPT !.ans = @ \cup {RR(q.name, "RRSIG", 0, <<"active">>)}]

\* A glue record keeps its owner as written in the zone.
buildReferralResponse(z, ns, at) ==
    LET parsed  == Parsed(ns)
        inzone  == {n \in {parseRData(r) : r \in parsed} : isSubdomain(n, z.origin)}
        glue(n) == Parsed(FindGlue(z, n))
    IN  [NewResponse("NOERROR", FALSE) EXCEPT
            !.auth = {RR(at, "NS", r.ttl, parseRData(r)) : r \in parsed},
            !.add  = UNION {{RR(canonicalize(g.raw), g.type, g.ttl, parseRData(g)) : g \in glue(n)} :
                            n \in inzone}]

addSOAAuthority(resp, z) ==
    IF z.soa = <<>> THEN resp
    ELSE [resp EXCEPT !.auth = @ \cup {RR(z.origin, "SOA", z.soa[1].ttl, z.soa[1].mname)}]

buildNXDOMAINResponse(z) == addSOAAuthority(NewResponse("NXDOMAIN", TRUE), z)

buildNODATAResponse(z) == addSOAAuthority(NewResponse("NOERROR", TRUE), z)

-----------------------------------------------------------------------------
\* What one zone makes of a query: a reply that RPZ may still replace
\* ("checked"), one that it may not ("final"), an alias to be chased by the
\* caller ("alias", handleAuthoritative returns false), or a DNAME.
Checked(msg) == [k |-> "checked", msg |-> msg]

handleAuthoritative(z, q, geo, keys) ==
    LET cut   == FindDelegation(z, q.name)
        exact == Lookup(z, q.name, q.type)
        dname == FindDNAME(z, q.name)
        wild  == LookupWildcard(z, q.name, q.type)
        build(recs) == IF q.do THEN buildSignedResponse(q, recs, keys)
                       ELSE buildResponse(q, recs)
        geoRec == [type |-> q.type, ttl |-> z.dttl, data |-> <<[k |-> "text", v |-> geo]>>]
    IN  CASE cut.found -> Checked(buildReferralResponse(z, cut.ns, cut.at))
          [] ~cut.found /\ geo # "" -> Checked(buildResponse(q, <<geoRec>>))
          [] ~cut.found /\ geo = "" /\ exact # <<>> -> Checked(build(exact))
          [] ~cut.found /\ geo = "" /\ exact = <<>> ->
             CASE Lookup(z, q.name, "CNAME") # <<>> -> [k |-> "alias"]
               [] Lookup(z, q.name, "CNAME") = <<>> /\ dname.found ->
                     [k |-> "dname", rec |-> dname.rec, target |-> dname.target]
               [] Lookup(z, q.name, "CNAME") = <<>> /\ ~dname.found ->
                  CASE NameExists(z, q.name) ->
                          [k |-> "final", msg |-> buildNODATAResponse(z)]
                    [] ~NameExists(z, q.name) /\ wild.found /\ wild.recs # <<>> ->
                          Checked(build(wild.recs))
                    [] ~NameExists(z, q.name) /\ wild.found /\ wild.recs = <<>> ->
                          Checked(buildNODATAResponse(z))
                    [] ~NameExists(z, q.name) /\ ~wild.found ->
                          [k |-> "final", msg |-> buildNXDOMAINResponse(z)]

-----------------------------------------------------------------------------
\* The zones that may hold a name.  A provider maps origins to zones; the radix
\* tree offers only the deepest zone on the path of the name.
BuildRadixTree(zones) == zones

FindInTree(tree, name) ==
    LET origins == {o \in DOMAIN tree : isSubdomain(name, o)} IN
    IF origins = {} THEN {} ELSE {CHOOSE o \in origins : \A p \in origins : Len(p) <= Len(o)}

FindZones(static, mgr, tree, name) ==
    LET hits(p) == {o \in DOMAIN p : isSubdomain(name, o)}
        origins == hits(static) \cup hits(mgr) \cup FindInTree(tree, name)
        zone(o) == CASE o \in DOMAIN static -> static[o]
                     [] o \notin DOMAIN static /\ o \in DOMAIN mgr -> mgr[o]
                     [] OTHER -> tree[o]
        sorted  == SetToSortSeq(origins, LAMBDA a, b : Len(a) > Len(b))
    IN  [i \in DOMAIN sorted |-> zone(sorted[i])]

-----------------------------------------------------------------------------
qualifyAgainstOrigin(name, origin) == makeAbsolute(name, origin)

\* zs: the zones of h.zones in the order of the map.
findCNAMEInZonesLocked(zs, name) ==
    LET hits == {i \in DOMAIN zs : Lookup(zs[i], name, "CNAME") # <<>>}
        z    == zs[Min(hits)]
        rec  == Lookup(z, name, "CNAME")[1]
    IN  IF hits = {} THEN <<>>
        ELSE <<[name |-> qualifyAgainstOrigin(rec.raw, z.origin), ttl |-> rec.ttl,
                target |-> qualifyAgainstOrigin(rec.data[1].v, z.origin)]>>

RECURSIVE chaseFrom(_, _, _)
chaseFrom(zs, chain, current) ==
    LET seen == {chain[i].key : i \in DOMAIN chain}
        rec  == findCNAMEInZonesLocked(zs, current)
    IN  CASE current \in seen \/ Len(chain) >= MaxCNAMEDepth ->
                [loop |-> TRUE, chain |-> chain, target |-> current]
          [] current \notin seen /\ Len(chain) < MaxCNAMEDepth /\ rec = <<>> ->
                [loop |-> FALSE, chain |-> chain, target |-> current]
          [] current \notin seen /\ Len(chain) < MaxCNAMEDepth /\ rec # <<>> ->
                chaseFrom(zs, Append(chain, [key |-> current, rec |-> rec[1]]), rec[1].target)

chaseCNAMEInZones(zs, name) == chaseFrom(zs, <<>>, name)

\* The records of the target in the first zone that has any of the type.
targetInZones(zs, target, type) ==
    LET hits == {i \in DOMAIN zs : Lookup(zs[i], target, type) # <<>>}
        recs == Lookup(zs[Min(hits)], target, type)
    IN  IF hits = {} THEN [found |-> FALSE, ans |-> {}]
        ELSE [found |-> TRUE,
              ans   |-> {RR(target, type, r.ttl, parseRData(r)) : r \in Parsed(recs)}]

buildCNAMEResponse(chain, answers) ==
    [NewResponse("NOERROR", TRUE) EXCEPT
        !.ans = {RR(chain[i].rec.name, "CNAME", chain[i].rec.ttl, chain[i].rec.target) :
                 i \in DOMAIN chain} \cup answers]

handleDNAMERecord(q, rec, target, answers) ==
    [NewResponse("NOERROR", TRUE) EXCEPT
        !.ans = {RR(rec.name, "DNAME", rec.ttl, parseRData(rec)),
                 RR(q.name, "CNAME", rec.ttl, target)} \cup answers]

-----------------------------------------------------------------------------
OPT(options) == RR(Root, "OPT", 0, options)

HasOPT(msg) == \E r \in msg.add : r.type = "OPT"

sendError(rcode) == NewResponse(rcode, FALSE)

sendErrorWithEDE(q, rcode) ==
    [NewResponse(rcode, FALSE) EXCEPT !.add = IF q.opt THEN {OPT(<<"ede">>)} ELSE {}]

handleANYTruncated == [NewResponse("NOERROR", FALSE) EXCEPT !.tc = TRUE]

isDNSSECType(type) == type \in {"RRSIG", "NSEC", "NSEC3"}

removeDNSSECRecords(rrs, qtype) ==
    {r \in rrs : ~isDNSSECType(r.type) \/ qtype \in {r.type, "ANY"}}

scrubForClient(q, msg) ==
    [msg EXCEPT
        !.add  = IF q.opt THEN @ ELSE {r \in @ : r.type # "OPT"},
        !.ans  = IF q.do THEN @ ELSE removeDNSSECRecords(@, q.type),
        !.auth = IF q.do THEN @ ELSE removeDNSSECRecords(@, q.type)]

minimizeResponse(msg) ==
    LET nsNames == {r.data : r \in {a \in msg.auth : a.type = "NS"}} IN
    [msg EXCEPT
        !.auth = {r \in @ : r.type = "SOA" \/ (~msg.aa /\ r.type = "NS")},
        !.add  = {r \in @ : r.type = "OPT"
                            \/ (r.type \in {"A", "AAAA"} /\ r.name \in nsNames)}]

reply(q, msg) == minimizeResponse(scrubForClient(q, msg))

\* The cookie writer puts the server's cookie in the OPT record of a reply.
cookieResponseWriter(wrap, msg) ==
    IF ~wrap THEN msg
    ELSE LET old == UNION {ToSet(r.data) : r \in {a \in msg.add : a.type = "OPT"}}
         IN  [msg EXCEPT !.add = {r \in @ : r.type # "OPT"}
                                 \cup {OPT(SetToSeq((old \ {"client-cookie"}) \cup {"cookie"}))}]
=============================================================================
