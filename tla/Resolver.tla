------------------------------ MODULE Resolver ------------------------------
(***************************************************************************)
(* The iterative resolver (internal/resolver): callers that share one      *)
(* resolution, delegations followed from the root hints, aliases chased,   *)
(* addresses of nameservers looked up by resolutions of their own, and the *)
(* cache all of them use.                                                  *)
(*                                                                         *)
(* A name is a sequence of labels, the last one nearest the root; an       *)
(* address is a sequence of one string.  Letter case is kept only where    *)
(* the code depends on it: the spelling of a glue record's owner, and      *)
(* whether a server echoes the spelling of the question.                   *)
(***************************************************************************)
EXTENDS Naturals, Sequences, SequencesExt, FiniteSetsExt

CONSTANTS
  Client,             \* goroutines that call Resolve
  Scenarios,          \* a sequence of worlds with their queries and limits
  MaxDepth, MaxCNAMEDepth, maxNSRecursion,
  ShuffleModulus      \* a multiple of the number of addresses of every delegation

ASSUME LimitsAssumption == MaxDepth \in Nat \ {0} /\ MaxCNAMEDepth \in Nat /\ maxNSRecursion \in Nat

VARIABLES
  scenario,   \* the world this behaviour happens in
  caller,     \* caller[c]: what Resolve is doing for client c
  active,     \* singleflight: key -> the caller whose call is in flight
  flight,     \* flight[c]: the call that c started
  frames,     \* the running resolutions; a path names a call by its callers
  cache,      \* key -> response
  shuffleIdx, \* rotates the addresses of a delegation, modulo ShuffleModulus
  faults,     \* losses, panics and expiries that may still happen
  cancelled   \* keys whose first caller's context has expired

vars == <<scenario, caller, active, flight, frames, cache, shuffleIdx, faults, cancelled>>

World == scenario

-----------------------------------------------------------------------------
\* Messages

Question(n, t) == [name |-> n, type |-> t]
Response(rcode, q, answers, authorities, additionals) ==
  [rcode |-> rcode, question |-> q, answers |-> answers, authorities |-> authorities,
   additionals |-> additionals, partial |-> {}]
servfail(q) == Response("SERVFAIL", q, <<>>, <<>>, <<>>)

ofType(rrs, t) == SelectSeq(rrs, LAMBDA rr : rr.type = t)
isAnswer(m) == m.rcode = "NOERROR" /\ m.answers # <<>>
isNXDomain(m) == m.rcode = "NXDOMAIN"
isNODATA(m) == m.rcode = "NOERROR" /\ m.answers = <<>> /\ ofType(m.authorities, "SOA") # <<>>
isReferral(m) ==
  LET deciding == SelectSeq(m.authorities, LAMBDA rr : rr.type \in {"NS", "SOA"})
  IN m.answers = <<>> /\ deciding # <<>> /\ deciding[1].type = "NS"

inBailiwick(n, zone) == IsSuffix(zone, n)

\* The records of the first alias and of the first DNAME above a name, or none.
firstOf(s) == IF s = <<>> THEN <<>> ELSE <<s[1]>>
findCNAME(answers) == firstOf(ofType(answers, "CNAME"))
findDNAME(answers, n) ==
  LET above == SelectSeq(answers, LAMBDA rr :
                 rr.type = "DNAME" /\ rr.name # n /\ inBailiwick(n, rr.name))
  IN firstOf(above)
synthTarget(dname, n) == SubSeq(n, 1, Len(n) - Len(dname.name)) \o dname.data
RR(n, t, data) == [name |-> n, type |-> t, data |-> data, spelling |-> 0]

\* The names that the aliases of an answer lead to: the least set with n that holds the
\* target of every alias of its names.  Of several CNAMEs of one name the last one counts.
chainNames(answers, n) ==
  LET aliases == ofType(answers, "CNAME")
      effective == {aliases[i] : i \in {i \in 1..Len(aliases) :
                      \A j \in (i + 1)..Len(aliases) : aliases[j].name # aliases[i].name}}
      all == {n} \cup {rr.data : rr \in effective}
      closed == {S \in SUBSET all : n \in S /\ \A rr \in effective : rr.name \in S => rr.data \in S}
  IN {m \in all : \A S \in closed : m \in S}

keepAllAnswers(m, n) == m
pruneAnswerToChain(m, n) ==
  LET chain == chainNames(m.answers, n)
      onChain(rr) == \/ rr.name \in chain
                     \/ rr.type = "DNAME" /\ \E c \in chain : inBailiwick(c, rr.name)
  IN IF Len(m.answers) <= 1 THEN m ELSE [m EXCEPT !.answers = SelectSeq(@, onChain)]

-----------------------------------------------------------------------------
\* The servers of a world, as far as the resolver sees them.  A zone is a set of
\* records; an NS record below the apex delegates.

zonesOf(addr) == {z \in World.zones : addr \in z.servers}
ownersIn(z) == {rr.name : rr \in z.records}
enclosing(zs, n) == {z \in zs : inBailiwick(n, z.apex)}
closest(zs) == CHOOSE z \in zs : \A y \in zs : Len(y.apex) <= Len(z.apex)
cutsIn(z, n) == {m \in ownersIn(z) : /\ inBailiwick(n, m) /\ m # z.apex
                                     /\ \E rr \in z.records : rr.name = m /\ rr.type = "NS"}
at(z, n, t) == {rr \in z.records : rr.name = n /\ rr.type = t}
listOf(S) == FoldSet(LAMBDA rr, s : Append(s, rr), <<>>, S)
soaOf(z) == <<RR(z.apex, "SOA", z.apex)>>
dnamesAbove(z, n) == {rr \in z.records : rr.type = "DNAME" /\ rr.name # n /\ inBailiwick(n, rr.name)}
existsIn(z, n) == \E m \in ownersIn(z) : inBailiwick(m, n)

authoritative(z, q) ==
  LET dnames == dnamesAbove(z, q.name)
      alias == IF q.type = "CNAME" THEN {} ELSE at(z, q.name, "CNAME")
      target == IF alias = {} THEN q.name ELSE (CHOOSE rr \in alias : TRUE).data
      data == at(z, target, q.type)
  IN IF dnames # {}
       THEN LET d == CHOOSE rr \in dnames : TRUE
            IN Response("NOERROR", q, <<d, RR(q.name, "CNAME", synthTarget(d, q.name))>>, <<>>, <<>>)
     ELSE IF alias # {} \/ data # {}
       THEN Response("NOERROR", q, listOf(alias) \o listOf(data) \o listOf(z.stray), <<>>, <<>>)
     ELSE Response(IF existsIn(z, q.name) THEN "NOERROR" ELSE "NXDOMAIN", q, <<>>, soaOf(z), <<>>)

referral(z, q) ==
  LET cut == CHOOSE m \in cutsIn(z, q.name) : \A o \in cutsIn(z, q.name) : Len(m) <= Len(o)
      ns == at(z, cut, "NS")
      glue == {rr \in z.records : rr.type \in {"A", "AAAA"} /\ \E n \in ns : n.data = rr.name}
  IN Response("NOERROR", q, <<>>, listOf(ns) \o listOf({rr \in z.stray : rr.type = "NS"}),
              listOf(glue) \o listOf({rr \in z.stray : rr.type # "NS"}))

respond(addr, q) ==
  LET zs == enclosing(zonesOf(addr), q.name)
  IN IF zs = {} THEN Response("REFUSED", q, <<>>, <<>>, <<>>)
     ELSE LET z == closest(zs)
          IN IF cutsIn(z, q.name) # {} THEN referral(z, q) ELSE authoritative(z, q)

-----------------------------------------------------------------------------
\* The cache

Key(n, t) == <<n, t>>
hit(k) == k \in DOMAIN cache
store(c, k, m) == [x \in DOMAIN c \cup {k} |-> IF x = k THEN m ELSE c[x]]

synthesizeSideRecord(owner, t, m) ==
  Response("NOERROR", Question(owner, t),
           SelectSeq(m.answers, LAMBDA rr : rr.type = t /\ rr.name = owner), <<>>, <<>>)

anyOwner(n, t, m, zoneCut) ==
  {rr \in ToSet(m.answers) : rr.type \in {"A", "AAAA"} /\ ~(rr.type = t /\ rr.name = n)}
sideRecords(n, t, m, zoneCut) ==
  {rr \in ToSet(m.answers) : /\ rr.type \in {"A", "AAAA"}
                             /\ ~(rr.type = t /\ rr.name = n)
                             /\ inBailiwick(rr.name, zoneCut)}
cacheResponse(c, n, t, m, zoneCut) ==
  LET main == store(c, Key(n, t), m)
      side == {Key(rr.name, rr.type) : rr \in sideRecords(n, t, m, zoneCut)}
  IN [k \in DOMAIN main \cup side |->
        IF k \in side THEN synthesizeSideRecord(k[1], k[2], m) ELSE main[k]]
cacheNegative(c, n, t, m) == store(c, Key(n, t), m)

-----------------------------------------------------------------------------
\* Delegations: the nameservers of a zone, in order, and their addresses.

isDisallowedUpstreamIP(a) == a \in World.disallowed
uniqueNames(rrs) ==
  LET data == [i \in 1..Len(rrs) |-> rrs[i].data]
      first == SelectSeq([i \in 1..Len(rrs) |-> i],
                         LAMBDA i : \A j \in 1..(i - 1) : data[j] # data[i])
  IN [i \in 1..Len(first) |-> data[first[i]]]

rootHints ==
  [names |-> [i \in 1..Len(World.hints) |-> World.hints[i].name],
   addrs |-> [n \in {World.hints[i].name : i \in 1..Len(World.hints)} |->
                (CHOOSE h \in ToSet(World.hints) : h.name = n).addrs]]

acceptedNS(m, zoneCut) ==
  SelectSeq(ofType(m.authorities, "NS"), LAMBDA rr : inBailiwick(rr.name, zoneCut))

\* The addresses are kept by the owner's spelling and read by that of the NS
\* record, so glue in another spelling is not found.
extractDelegation(m, zoneCut) ==
  LET ns == acceptedNS(m, zoneCut)
      names == uniqueNames(ns)
      narrowing == SelectSeq(ns, LAMBDA rr : rr.name # zoneCut)
      glue(n) == SelectSeq(m.additionals, LAMBDA rr :
                   /\ rr.name = n /\ rr.spelling = 0 /\ inBailiwick(n, zoneCut)
                   /\ rr.type \in {"A", "AAAA"} /\ ~isDisallowedUpstreamIP(rr.data))
  IN [deleg |-> [names |-> names,
                 addrs |-> [n \in ToSet(names) |->
                              [i \in 1..Len(glue(n)) |-> glue(n)[i].data]]],
      cut |-> IF narrowing = <<>> THEN zoneCut ELSE narrowing[1].name]

hasAnyAddress(d) == \E n \in ToSet(d.names) : d.addrs[n] # <<>>
glueless(d) == {n \in ToSet(d.names) : d.addrs[n] = <<>>}
allAddresses(d) == FlattenSeq([i \in 1..Len(d.names) |-> d.addrs[d.names[i]]])
rotated(s, k) == SubSeq(s, k + 1, Len(s)) \o SubSeq(s, 1, k)

collectUpstreamAddrs(answers) ==
  LET usable == SelectSeq(answers, LAMBDA rr :
                  rr.type \in {"A", "AAAA"} /\ ~isDisallowedUpstreamIP(rr.data))
  IN [i \in 1..Len(usable) |-> usable[i].data]
cachedAddrs(n, t) ==
  IF hit(Key(n, t)) /\ cache[Key(n, t)].rcode = "NOERROR"
  THEN collectUpstreamAddrs(ofType(cache[Key(n, t)].answers, t)) ELSE <<>>

minimizedName(target, zoneCut) ==
  IF target = zoneCut \/ target = <<>> \/ ~inBailiwick(target, zoneCut) THEN target
  ELSE SubSeq(target, Len(target) - Len(zoneCut), Len(target))

-----------------------------------------------------------------------------
\* Frames.  A "resolve" frame is a call of resolve, a "lookup" frame the goroutine
\* that finds the addresses of one nameserver.

NoMessage == [rcode |-> "", question |-> Question(<<>>, ""), answers |-> <<>>,
              authorities |-> <<>>, additionals |-> <<>>, partial |-> {}]
resolveFrame(n, t, cnameDepth, nsDepth) ==
  [kind |-> "resolve", pc |-> "start", name |-> n, type |-> t, cname |-> cnameDepth, ns |-> nsDepth,
   depth |-> 0, cut |-> <<>>, deleg |-> rootHints, next |-> rootHints, todo |-> <<>>,
   ask |-> Question(n, t), held |-> NoMessage, ok |-> TRUE, addrs |-> <<>>]
lookupFrame(n, nsDepth) ==
  [resolveFrame(n, "A", 0, nsDepth) EXCEPT !.kind = "lookup"]

with(fs, p, f) == [x \in DOMAIN fs \cup {p} |-> IF x = p THEN f ELSE fs[x]]
without(fs, ps) == [x \in DOMAIN fs \ ps |-> fs[x]]
below(p) == {x \in DOMAIN frames : Len(x) = Len(p) + 1 /\ IsPrefix(p, x)}
at_(p, kind, pc) == p \in DOMAIN frames /\ frames[p].kind = kind /\ frames[p].pc = pc
done(f, m) == [f EXCEPT !.pc = "done", !.held = m]
failed(f) == [f EXCEPT !.pc = "done", !.ok = FALSE]
\* The next round of the loop over delegations.
again(f) == [f EXCEPT !.pc = "ask", !.depth = @ + 1]

\* resolve up to the loop: depth check, cache, root hints.
begin(p) ==
  LET f == frames[p]
      k == Key(f.name, f.type)
      m == cache[k]
      \* An alias that is found in the cache is returned as it was stored.
      bare == isAnswer(m) /\ f.type # "CNAME" /\ ofType(m.answers, f.type) = <<>>
  IN /\ at_(p, "resolve", "start")
     /\ frames' = [frames EXCEPT ![p] =
          IF f.cname > MaxCNAMEDepth THEN failed(f)
          ELSE IF hit(k) THEN done(f, [m EXCEPT !.partial = IF bare THEN {"cachedAlias"} ELSE {}])
          ELSE [f EXCEPT !.pc = "ask"]]
     /\ UNCHANGED <<scenario, caller, active, flight, cache, shuffleIdx, faults, cancelled>>

\* One round: the question, minimised or not, and the addresses in rotated order.
ask(p) ==
  LET f == frames[p]
      short == minimizedName(f.name, f.cut)
      addrs == allAddresses(f.deleg)
  IN /\ at_(p, "resolve", "ask")
     /\ shuffleIdx' = IF f.depth >= MaxDepth \/ addrs = <<>> THEN shuffleIdx
                      ELSE (shuffleIdx + 1) % ShuffleModulus
     /\ IF f.depth >= MaxDepth
        THEN frames' = [frames EXCEPT ![p] = done(f, servfail(Question(f.name, f.type)))]
        ELSE frames' = [frames EXCEPT ![p] =
               [f EXCEPT !.pc = "try",
                         !.todo = IF addrs = <<>> THEN <<>> ELSE rotated(addrs, shuffleIdx' % Len(addrs)),
                         !.ask = IF World.qmin /\ short # f.name THEN Question(short, "NS")
                                 ELSE Question(f.name, f.type)]]
     /\ UNCHANGED <<scenario, caller, active, flight, cache, faults, cancelled>>

exhausted(p) ==
  /\ at_(p, "resolve", "try") /\ frames[p].todo = <<>>
  /\ frames' = [frames EXCEPT ![p] = again(@)]
  /\ UNCHANGED <<scenario, caller, active, flight, cache, shuffleIdx, faults, cancelled>>

\* What questionMatches and verify0x20Response refuse: the answer to another question,
\* or one in another spelling.
questionMatches(addr) == World.echo[addr] # "other"
verify0x20Response(addr) == World.use0x20 => World.echo[addr] # "lower"
unusable(addr) == ~questionMatches(addr) \/ ~verify0x20Response(addr)

\* The query is lost over UDP and over TCP, the context has expired, or the response is
\* refused.
unanswered(p) ==
  LET refused == p[1] \in cancelled \/ unusable(frames[p].todo[1])
  IN /\ at_(p, "resolve", "try") /\ frames[p].todo # <<>>
     /\ faults > 0 \/ refused
     /\ faults' = IF refused THEN faults ELSE faults - 1
     /\ frames' = [frames EXCEPT ![p].todo = Tail(@)]
     /\ UNCHANGED <<scenario, caller, active, flight, cache, shuffleIdx, cancelled>>

\* A minimised question answered: the cut moves down, or nothing exists below it.
handleMinimized(p, f, m) ==
  \/ /\ isAnswer(m)
     /\ cache' = cacheResponse(cache, f.ask.name, "NS", m, f.cut)
     /\ frames' = [frames EXCEPT ![p] = [again(f) EXCEPT !.cut = f.ask.name]]
  \/ /\ isNODATA(m)
     /\ frames' = [frames EXCEPT ![p] = [again(f) EXCEPT !.cut = f.ask.name]]
     /\ UNCHANGED cache
  \/ /\ isNXDomain(m)
     /\ LET own == [m EXCEPT !.question = Question(f.name, f.type)]
        IN /\ cache' = cacheNegative(cache, f.name, f.type, own)
           /\ frames' = [frames EXCEPT ![p] = done(f, own)]

\* An answer: stored, then the DNAME or the alias in it is followed.
handleAnswer(p, f, m) ==
  LET dname == findDNAME(m.answers, f.name)
      alias == findCNAME(m.answers)
      chase(target, how) ==
        with([frames EXCEPT ![p] = [f EXCEPT !.pc = how, !.held = m]],
             Append(p, "chase"), resolveFrame(target, f.type, f.cname + 1, f.ns))
  IN /\ cache' = cacheResponse(cache, f.name, f.type, m, f.cut)
     /\ frames' =
          IF f.type \in {"CNAME", "DNAME"} \/ dname \o alias = <<>>
            THEN [frames EXCEPT ![p] = done(f, m)]
          ELSE IF dname # <<>> THEN chase(synthTarget(dname[1], f.name), "dname")
          ELSE chase(alias[1].data, "alias")

handleNegative(p, f, m) ==
  /\ cache' = cacheNegative(cache, f.name, f.type, m)
  /\ frames' = [frames EXCEPT ![p] = done(f, m)]

handleReferral(p, f, m) ==
  \E x \in {extractDelegation(m, f.cut)} :
    LET narrowed == [f EXCEPT !.cut = x.cut, !.next = x.deleg, !.pc = "addresses"]
        lookups == [q \in {Append(p, n) : n \in glueless(x.deleg)} |-> lookupFrame(Last(q), f.ns)]
    IN /\ UNCHANGED cache
       /\ frames' =
          IF x.deleg.names = <<>>
          THEN [frames EXCEPT ![p] = done(f, servfail(Question(f.name, f.type)))]
          ELSE [q \in DOMAIN frames \cup DOMAIN lookups |->
                  IF q \in DOMAIN lookups THEN lookups[q] ELSE IF q = p THEN narrowed ELSE frames[q]]

\* A usable response arrives.
handleResponse(p, f, m, minimized) ==
  LET negative == isNXDomain(m) \/ isNODATA(m)
  IN \/ minimized /\ handleMinimized(p, f, m)
     \/ ~minimized /\ isAnswer(m) /\ handleAnswer(p, f, m)
     \/ ~minimized /\ negative /\ handleNegative(p, f, m)
     \/ ~isAnswer(m) /\ ~negative /\ isReferral(m) /\ handleReferral(p, f, m)
     \/ /\ ~isAnswer(m) /\ ~negative /\ ~isReferral(m)
        /\ frames' = [frames EXCEPT ![p] = again(f)]
        /\ UNCHANGED cache

answered(p) ==
  LET f == frames[p]
      addr == f.todo[1]
  IN /\ at_(p, "resolve", "try") /\ f.todo # <<>>
     /\ p[1] \notin cancelled /\ ~unusable(addr)
     /\ \E m \in {respond(addr, f.ask)} : handleResponse(p, f, m, f.ask # Question(f.name, f.type))
     /\ UNCHANGED <<scenario, caller, active, flight, shuffleIdx, faults, cancelled>>

\* resolveNSAddresses has waited for its goroutines.
addressesKnown(p) ==
  LET f == frames[p]
      found(n) == IF n \in glueless(f.next) THEN frames[Append(p, n)].addrs ELSE f.next.addrs[n]
      deleg == [f.next EXCEPT !.addrs = [n \in DOMAIN @ |-> found(n)]]
  IN /\ at_(p, "resolve", "addresses")
     /\ \A q \in below(p) : frames[q].pc = "done"
     /\ \E d \in {deleg} :
          frames' = without([frames EXCEPT ![p] =
                      IF hasAnyAddress(d) THEN [again(f) EXCEPT !.deleg = d] ELSE again(f)], below(p))
     /\ UNCHANGED <<scenario, caller, active, flight, cache, shuffleIdx, faults, cancelled>>

\* The target of an alias or of a DNAME has been resolved, or not.
chased(p) ==
  LET f == frames[p]
      child == frames[Append(p, "chase")]
      m == child.held
      dname == findDNAME(f.held.answers, f.name)[1]
      synth == RR(f.name, "CNAME", synthTarget(dname, f.name))
  IN /\ at_(p, "resolve", "dname") \/ at_(p, "resolve", "alias")
     /\ child.pc = "done"
     /\ frames' = without([frames EXCEPT ![p] =
          IF ~child.ok THEN done(f, [f.held EXCEPT !.partial = {"targetFailed"}])
          ELSE IF f.pc = "dname"
            THEN done(f, [Response("NOERROR", f.held.question, <<dname, synth>> \o m.answers, <<>>, <<>>)
                          EXCEPT !.partial = m.partial \cup (IF m.rcode = "NOERROR" THEN {} ELSE {"dname"})])
          ELSE done(f, [m EXCEPT !.answers = f.held.answers \o @])],
          {Append(p, "chase")})
     /\ UNCHANGED <<scenario, caller, active, flight, cache, shuffleIdx, faults, cancelled>>

-----------------------------------------------------------------------------
\* lookupNSAddresses: cache, then A, then AAAA by resolutions one level deeper.

neverRecurse(depth) == FALSE
nsRecursion(depth) == depth < maxNSRecursion

lookup(p) ==
  LET f == frames[p]
      known == cachedAddrs(f.name, "A") \o cachedAddrs(f.name, "AAAA")
  IN /\ at_(p, "lookup", "start")
     /\ frames' =
          IF known # <<>> \/ ~nsRecursion(f.ns)
          THEN [frames EXCEPT ![p] = [f EXCEPT !.pc = "done", !.addrs = known]]
          ELSE with([frames EXCEPT ![p].pc = "A"], Append(p, "A"),
                    resolveFrame(f.name, "A", 0, f.ns + 1))
     /\ UNCHANGED <<scenario, caller, active, flight, cache, shuffleIdx, faults, cancelled>>

lookedUp(p) ==
  LET f == frames[p]
      child == frames[Append(p, f.pc)]
      found == f.addrs \o (IF child.ok THEN collectUpstreamAddrs(child.held.answers) ELSE <<>>)
      kept == without(frames, {Append(p, f.pc)})
  IN /\ at_(p, "lookup", "A") \/ at_(p, "lookup", "AAAA")
     /\ child.pc = "done"
     /\ frames' =
          IF f.pc = "A"
          THEN with([kept EXCEPT ![p] = [f EXCEPT !.pc = "AAAA", !.addrs = found]], Append(p, "AAAA"),
                    resolveFrame(f.name, "AAAA", 0, f.ns + 1))
          ELSE [kept EXCEPT ![p] = [f EXCEPT !.pc = "done", !.addrs = found]]
     /\ UNCHANGED <<scenario, caller, active, flight, cache, shuffleIdx, faults, cancelled>>

-----------------------------------------------------------------------------
\* Resolve and singleflight

question(c) == World.queries[c]
keyOf(c) == Key(question(c).name, question(c).type)
NoCall == [ready |-> FALSE, ok |-> TRUE, msg |-> NoMessage]

\* The first caller of a key starts the resolution, others wait for it.
Do(c) ==
  LET k == keyOf(c)
  IN /\ caller[c].pc = "idle"
     /\ IF k \in DOMAIN active
        THEN /\ caller' = [caller EXCEPT ![c].pc = "waits", ![c].on = active[k]]
             /\ UNCHANGED <<active, frames>>
        ELSE /\ caller' = [caller EXCEPT ![c].pc = "leads"]
             /\ active' = with(active, k, c)
             /\ frames' = with(frames, <<k>>, resolveFrame(k[1], k[2], 0, 0))
     /\ UNCHANGED <<scenario, flight, cache, shuffleIdx, faults, cancelled>>

\* fn has returned or has panicked: the waiters are released.
finishUnlessPanic(c, result) ==
  /\ flight' = [flight EXCEPT ![c] = [result EXCEPT !.ready = result.ok]]
  /\ caller' = [caller EXCEPT ![c].pc = IF result.ok THEN "frees" ELSE "done"]
finish(c, result) ==
  /\ flight' = [flight EXCEPT ![c] = [result EXCEPT !.ready = TRUE]]
  /\ caller' = [caller EXCEPT ![c].pc = "frees"]

framesOf(k) == {p \in DOMAIN frames : p[1] = k}
resolved(c) ==
  LET top == frames[<<keyOf(c)>>]
  IN /\ caller[c].pc = "leads" /\ top.pc = "done"
     /\ finish(c, [NoCall EXCEPT !.ok = top.ok, !.msg = top.held])
     /\ frames' = without(frames, framesOf(keyOf(c)))
     /\ UNCHANGED <<scenario, active, cache, shuffleIdx, faults, cancelled>>

panics(c) ==
  /\ caller[c].pc = "leads" /\ faults > 0
  /\ \A p \in framesOf(keyOf(c)) : frames[p].kind = "resolve"
  /\ faults' = faults - 1
  /\ finish(c, [NoCall EXCEPT !.ok = FALSE])
  /\ frames' = without(frames, framesOf(keyOf(c)))
  /\ UNCHANGED <<scenario, active, cache, shuffleIdx, cancelled>>

\* What Resolve returns: an error, or a pruned copy of its own.
returned(c, result) ==
  [caller[c] EXCEPT !.pc = "done", !.ok = result.ok,
                    !.msg = IF result.ok THEN pruneAnswerToChain(result.msg, question(c).name) ELSE NoMessage]

\* The key is freed after the waiters are released.
frees(c) ==
  /\ caller[c].pc = "frees"
  /\ active' = without(active, {keyOf(c)})
  /\ caller' = [caller EXCEPT ![c] = returned(c, flight[c])]
  /\ UNCHANGED <<scenario, flight, frames, cache, shuffleIdx, faults, cancelled>>

shares(c) ==
  /\ caller[c].pc = "waits" /\ flight[caller[c].on].ready
  /\ caller' = [caller EXCEPT ![c] = returned(c, flight[caller[c].on])]
  /\ UNCHANGED <<scenario, active, flight, frames, cache, shuffleIdx, faults, cancelled>>

-----------------------------------------------------------------------------
\* The environment: the deadline of the stage that called, and entries that leave the
\* cache.

expires(c) ==
  /\ caller[c].pc = "leads" /\ faults > 0 /\ keyOf(c) \notin cancelled
  /\ cancelled' = cancelled \cup {keyOf(c)}
  /\ faults' = faults - 1
  /\ UNCHANGED <<scenario, caller, active, flight, frames, cache, shuffleIdx>>

evict(k) ==
  /\ faults > 0
  /\ cache' = without(cache, {k})
  /\ faults' = faults - 1
  /\ UNCHANGED <<scenario, caller, active, flight, frames, shuffleIdx, cancelled>>

Init ==
  /\ \E i \in 1..Len(Scenarios) : scenario = Scenarios[i]
  /\ caller = [c \in Client |-> [pc |-> "idle", on |-> c, ok |-> TRUE, msg |-> NoMessage]]
  /\ flight = [c \in Client |-> NoCall]
  /\ active = <<>> /\ frames = <<>> /\ cache = <<>>
  /\ shuffleIdx \in 0..(ShuffleModulus - 1)
  /\ faults = World.faults
  /\ cancelled = {}

resolves ==
  \E p \in DOMAIN frames :
    \/ begin(p) \/ ask(p) \/ exhausted(p) \/ unanswered(p) \/ answered(p)
    \/ addressesKnown(p) \/ chased(p) \/ lookup(p) \/ lookedUp(p)
calls == \E c \in Client : Do(c) \/ resolved(c) \/ frees(c) \/ shares(c)

Next ==
  \/ resolves \/ calls
  \/ \E c \in Client : panics(c) \/ expires(c)
  \/ \E k \in DOMAIN cache : evict(k)

\* Goroutines run: a call that can go on does.
Spec == Init /\ [][Next]_vars /\ WF_vars(resolves \/ calls)

-----------------------------------------------------------------------------
\* The truth, from the zones alone.

authZone(n) == closest(enclosing(World.zones, n))
synthesized(n) == {RR(n, "CNAME", synthTarget(d, n)) : d \in dnamesAbove(authZone(n), n)}
holds(rr) == rr \in authZone(rr.name).records \cup synthesized(rr.name)

RECURSIVE truth(_, _, _)
truth(n, t, seen) ==
  LET z == authZone(n)
      dnames == dnamesAbove(z, n)
      alias == synthesized(n) \cup (IF t = "CNAME" THEN {} ELSE at(z, n, "CNAME"))
      data == at(z, n, t)
      onward(rest) == [rest EXCEPT !.records = @ \cup alias \cup dnames]
  IN IF n \in seen THEN [rcode |-> "NOERROR", records |-> {}]
     ELSE IF alias # {} THEN onward(truth((CHOOSE rr \in alias : TRUE).data, t, seen \cup {n}))
     ELSE [rcode |-> IF existsIn(z, n) THEN "NOERROR" ELSE "NXDOMAIN", records |-> data]

true(c) == truth(question(c).name, question(c).type, {})
Returned(c) == caller[c].pc = "done" /\ caller[c].ok
answersOf(c) == ToSet(caller[c].msg.answers)

\* AnswersTrue: whatever servers add to their answers and however resolutions share the
\* cache, a caller is given only records that the zones hold and that belong to its own
\* question: those of the name, of the aliases from it and of the DNAMEs above them.
AnswersTrue ==
  \A c \in Client : Returned(c) =>
    \A rr \in answersOf(c) : rr \in true(c).records /\ holds(rr)

\* AnswersWhole: an answer other than SERVFAIL is all of the truth, with its rcode.
\* Known exceptions, which the response is marked with: an alias that was in the cache is
\* returned without its target, an alias beyond MaxCNAMEDepth too, and what a DNAME leads
\* to is reported as NOERROR.
AnswersWhole ==
  \A c \in Client : Returned(c) /\ caller[c].msg.rcode # "SERVFAIL" /\ caller[c].msg.partial = {} =>
    answersOf(c) = true(c).records /\ caller[c].msg.rcode = true(c).rcode

\* AnswersRight: a caller is told the truth, and all of it.
AnswersRight == AnswersTrue /\ AnswersWhole

\* CacheTrue: an entry answers the question it is kept under, and what it says of its own
\* name is true, also when the server that said it answers for another zone.
CacheTrue ==
  \A k \in DOMAIN cache :
    /\ Key(cache[k].question.name, cache[k].question.type) = k
    /\ \A rr \in ToSet(cache[k].answers) : rr.name = k[1] => holds(rr)

\* Reaches: a name whose delegations lead to a server that answers is resolved, unless
\* something was lost, expired, evicted or panicked on the way.
Reaches ==
  \A c \in Client :
    /\ caller[c].pc = "done"
    /\ question(c).name \notin World.mayFail
    /\ faults = World.faults
    => caller[c].ok /\ caller[c].msg.rcode # "SERVFAIL"

\* EveryCallerReturns: every call of Resolve returns, also those that wait for a call that
\* panics or whose context expires.
EveryCallerReturns == \A c \in Client : <>(caller[c].pc = "done")

TypeOK ==
  /\ \A c \in Client : caller[c].pc \in {"idle", "waits", "leads", "frees", "done"} /\ caller[c].on \in Client
  /\ \A k \in DOMAIN active : active[k] \in Client /\ keyOf(active[k]) = k
  /\ \A p \in DOMAIN frames : frames[p].depth \in 0..MaxDepth /\ frames[p].ns \in 0..maxNSRecursion
  /\ faults \in 0..World.faults
=============================================================================
