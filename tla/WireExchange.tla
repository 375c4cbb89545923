---------------------------- MODULE WireExchange ----------------------------
(***************************************************************************)
(* The journey of a message.  A server writes it over UDP                   *)
(* (server/udp.go: Pack, and Truncate when it is over the client's limit),  *)
(* the network delivers it whole, short or with an octet changed, the peer  *)
(* reads it into recycled objects, packs it again as a forwarder does, and, *)
(* when the answers are a zone transfer, keeps them as text and serves them *)
(* from there.  Then the message is released and the next one comes.        *)
(*                                                                          *)
(* A journey gives the messages, the client's limit, the faults of the      *)
(* network and whether the answers are transferred.                         *)
(***************************************************************************)
EXTENDS Message

CONSTANTS Scenarios,   \* a sequence of records of messages, limit, cut, changes, secondary
          Substitutes  \* octets that a change puts in place of another

VARIABLES scenario, next, phase, wire, intact, got, relayed, stored, served, left

vars == <<scenario, next, phase, wire, intact, got, relayed, stored, served, left>>

Clean == [TXT |-> <<>>, OPT |-> <<>>]
Journey == Scenarios[scenario]
Original == Journey.messages[next]

Init ==
  /\ scenario \in DOMAIN Scenarios
  /\ next = 1
  /\ phase = "idle"
  /\ wire = <<>>
  /\ intact = TRUE
  /\ got = Failed
  /\ relayed = Failed
  /\ stored = <<>>
  /\ served = <<>>
  /\ left = Clean

-----------------------------------------------------------------------------
\* udpResponseWriter.Write: the message is packed into a buffer of its own length, and
\* truncated only when what was packed is over the limit.
fitted(m, limit) ==
  LET short(p) == IF ~p.ok THEN Failed ELSE IF Len(p.v) > limit THEN Failed ELSE p
      fit(whole) ==
        IF ~whole.ok THEN Failed
        ELSE IF Len(whole.v) <= limit THEN whole
        ELSE short(PackMessage(Truncate(m, limit), messageLength(m)))
  IN fit(PackMessage(m, messageLength(m)))

Write ==
  /\ phase = "idle"
  /\ \E r \in {fitted(Original, Journey.limit)} :
        /\ phase' = IF r.ok THEN "sent" ELSE "finished"
        /\ wire' = IF r.ok THEN r.v ELSE <<>>
  /\ intact' = TRUE
  /\ UNCHANGED <<next, got, relayed, stored, served, left>>

Deliver ==
  /\ phase = "sent"
  /\ phase' = "arrived"
  /\ UNCHANGED <<next, wire, intact, got, relayed, stored, served, left>>

Shorten ==
  /\ phase = "sent"
  /\ Journey.cut
  /\ \E n \in 0..(Len(wire) - 1) : wire' = SubSeq(wire, 1, n)
  /\ intact' = FALSE
  /\ phase' = "arrived"
  /\ UNCHANGED <<next, got, relayed, stored, served, left>>

ChangeOctet ==
  /\ phase = "sent"
  /\ Journey.changes
  /\ \E i \in 1..Len(wire), o \in Substitutes : wire' = [wire EXCEPT ![i] = o]
  /\ intact' = FALSE
  /\ phase' = "arrived"
  /\ UNCHANGED <<next, got, relayed, stored, served, left>>

Unpack ==
  /\ phase = "arrived"
  /\ got' = UnpackMessage(wire, left)
  /\ phase' = IF got'.ok THEN "read" ELSE "finished"
  /\ UNCHANGED <<next, wire, intact, relayed, stored, served, left>>

\* A forwarder packs what it read; the next reader's pools are its own.
Relay ==
  /\ phase = "read"
  /\ \E packed \in {PackMessage(got.v, messageLength(got.v))} :
        relayed' = IF packed.ok THEN UnpackMessage(packed.v, Clean) ELSE Failed
  /\ phase' = IF Journey.secondary THEN "relayed" ELSE "finished"
  /\ UNCHANGED <<next, wire, intact, got, stored, served, left>>

Store ==
  /\ phase = "relayed"
  /\ stored' = [i \in 1..Len(got.v.answers) |-> recordFromRR(got.v.answers[i])]
  /\ phase' = "stored"
  /\ UNCHANGED <<next, wire, intact, got, relayed, served, left>>

\* A stored record that cannot be read back, or packed, is left out of what is served.
Serve ==
  /\ phase = "stored"
  /\ LET back == [i \in 1..Len(stored) |-> zoneRecordToRR(stored[i])]
         kept == SelectSeq(back, LAMBDA r : IF r.ok THEN recordPacks(r.v) ELSE FALSE)
     IN served' = values(kept)
  /\ phase' = "finished"
  /\ UNCHANGED <<next, wire, intact, got, relayed, stored, left>>

\* Release: every object goes back to its pool emptied.
heldStrings(m) == FlattenSeq([i \in 1..Len(m.answers) |->
                    IF createRData(m.answers[i].type) = RDataTXT THEN m.answers[i].data[1] ELSE <<>>])
heldOptions(m) == FlattenSeq([i \in 1..Len(m.additionals) |->
                    IF isOPT(m.additionals[i]) THEN m.additionals[i].data[1] ELSE <<>>])
keepsContents(held) == held
releaseRData(held) == <<>>

Release ==
  /\ phase = "finished"
  /\ next < Len(Journey.messages)
  /\ next' = next + 1
  /\ left' = IF got.ok THEN [TXT |-> releaseRData(heldStrings(got.v)), OPT |-> releaseRData(heldOptions(got.v))]
             ELSE left
  /\ phase' = "idle"
  /\ wire' = <<>>
  /\ got' = Failed
  /\ relayed' = Failed
  /\ stored' = <<>>
  /\ served' = <<>>
  /\ UNCHANGED intact

Next ==
  /\ Write \/ Deliver \/ Shorten \/ ChangeOctet \/ Unpack \/ Relay \/ Store \/ Serve \/ Release
  /\ UNCHANGED scenario

Spec == Init /\ [][Next]_vars

-----------------------------------------------------------------------------
\* What two messages must agree on: everything but the case of names, the order of the
\* types in a bit map, and the parameters that priority 0 ignores.

sameField(k, v, w) ==
  CASE k = "name" -> lowerName(v) = lowerName(w)
    [] k = "names" -> /\ Len(v) = Len(w)
                      /\ \A i \in 1..Len(v) : lowerName(v[i]) = lowerName(w[i])
    [] k = "bitmap" -> Range(v) = Range(w)
    [] k = "gateway" -> [v EXCEPT !.name = lowerName(v.name)] = [w EXCEPT !.name = lowerName(w.name)]
    [] k = "service" -> /\ v.priority = w.priority
                        /\ lowerName(v.target) = lowerName(w.target)
                        /\ v.priority # 0 => v.params = w.params
    [] OTHER -> v = w
sameData(type, d, e) ==
  LET form == createRData(type)
  IN Len(d) = Len(e) /\ \A i \in 1..Len(form) : sameField(form[i], d[i], e[i])
sameRecord(r, t) ==
  /\ lowerName(r.name) = lowerName(t.name)
  /\ <<r.type, r.class, r.ttl>> = <<t.type, t.class, t.ttl>>
  /\ sameData(r.type, r.data, t.data)
samePrefix(rs, ts) == Len(rs) <= Len(ts) /\ \A i \in 1..Len(rs) : sameRecord(rs[i], ts[i])
sameQuestion(q, r) == lowerName(q.name) = lowerName(r.name) /\ q.type = r.type /\ q.class = r.class
sameMessage(m, n) ==
  /\ m.id = n.id /\ m.flags = n.flags /\ m.rawBody = n.rawBody
  /\ Len(m.questions) = Len(n.questions)
  /\ \A i \in 1..Len(m.questions) : sameQuestion(m.questions[i], n.questions[i])
  /\ \A s \in Range(RecordSections) : Len(m[s]) = Len(n[s]) /\ samePrefix(m[s], n[s])

\* How many pointers the reader of a name follows, from the names alone: the longest
\* ending a name shares with an earlier one is read where it was first written.
writtenNames(m) ==
  LET owners(s) == [i \in 1..Len(m[s]) |-> lowerName(m[s][i].name)]
  IN [i \in 1..Len(m.questions) |-> lowerName(m.questions[i].name)]
       \o owners("answers") \o owners("authorities") \o owners("additionals")
endsWith(n, tail) == Len(tail) <= Len(n) /\ suffix(n, Len(n) - Len(tail) + 1) = tail
RECURSIVE pointers(_, _)
pointers(names, i) ==
  LET shared == {k \in 1..Len(names[i]) : \E j \in 1..(i - 1) : endsWith(names[j], suffix(names[i], k))}
  IN IF shared = {} THEN 0
     ELSE LET tail == suffix(names[i], Min(shared))
          IN 1 + pointers(names, Min({j \in 1..(i - 1) : endsWith(names[j], tail)}))
tooDeep(m) == \E i \in 1..Len(writtenNames(m)) : pointers(writtenNames(m), i) > MaxPointerDepth
overfull(m) ==
  \/ Len(m.questions) > MaxQuestions
  \/ \E s \in Range(RecordSections) :
       \/ Len(m[s]) > MaxRecords
       \/ \E i \in 1..Len(m[s]) : isOPT(m[s][i]) /\ Len(m[s][i].data[1]) > MaxEDNS0Options
\* Pack knows none of the limits of UnpackMessage.
beyondReader(m) == tooDeep(m) \/ overfull(m)

\* A service record whose parameters Pack refuses although Unpack takes them.
unservable(m) ==
  \E s \in Range(RecordSections) : \E i \in 1..Len(m[s]) :
    /\ createRData(m[s][i].type) = RDataSVCB
    /\ ~validateSvcParams(svcParamsForMode(m[s][i].data[1]))

\* ReadsBack: a message that was written and delivered as it is is read as the same
\* message, whatever the previous message left in the pools, or as the prefix of it that
\* the limit leaves.  The exceptions are messages that Pack writes beyond the limits of
\* UnpackMessage: more records or options than it takes, or owner names that each extend
\* the one before and so chain more pointers than UnpackName follows.
ReadsBack ==
  intact /\ phase \in {"read", "relayed", "stored", "finished"} /\ wire # <<>> /\ ~beyondReader(Original) =>
    /\ got.ok
    /\ \/ sameMessage(got.v, Original)
       \/ sameMessage(got.v, Truncate(Original, Journey.limit))

\* TruncationShows: a client is told, with TC, exactly when answers or authorities were
\* dropped to meet its limit, never gets more than the limit, and gets whole records in
\* order.
TruncationShows ==
  intact /\ phase = "read" =>
    /\ Len(wire) <= Journey.limit
    /\ \A s \in Range(RecordSections) : samePrefix(got.v[s], Original[s])
    /\ "TC" \notin Original.flags.on =>
         ("TC" \in got.v.flags.on <=>
            \/ Len(got.v.answers) < Len(Original.answers)
            \/ Len(got.v.authorities) < Len(Original.authorities))

\* ShortIsRefused: no message is read out of a proper beginning of one, except the
\* opaque body of a DSO message.
ShortIsRefused ==
  phase = "read" /\ ~intact /\ Journey.cut /\ ~Journey.changes => got.v.flags.opcode = OpcodeDSO

\* RelaysBack: what the reader accepts, damaged or not, a forwarder can pack, and the next
\* reader reads the same.  The exceptions are parameters of SVCB that only Pack validates,
\* and messages beyond the limits of the reader.
RelaysBack ==
  phase \in {"relayed", "stored", "finished"} /\ got.ok =>
    \/ unservable(got.v)
    \/ beyondReader(got.v)
    \/ relayed.ok /\ sameMessage(relayed.v, got.v)

\* ReadsExactly: the reader takes what was written, all of it and nothing less, and what
\* it takes it takes again from a relay.
ReadsExactly == ReadsBack /\ ShortIsRefused /\ RelaysBack

-----------------------------------------------------------------------------
\* What the text of a record cannot carry, from the values.

strangeName(n) == \E i \in 1..Len(n) : ~ValidateLabel(n[i])
needsQuotes(s) == Range(s) \cap {9, 10, 13, 32, 34} # {}
lostInQuotes(s) == Range(s) \cap {9, 10, 13} # {}
lostStrings(v) ==
  \/ v = <<>>
  \/ \E i \in 1..Len(v) : lostInQuotes(v[i])
  \/ Len(v) > 1 /\ ((\E i \in 1..Len(v) : v[i] = <<>>) \/ \A i \in 1..Len(v) : ~needsQuotes(v[i]))
lostParam(p) ==
  CASE p.code = ALPN -> Range(p.data) \cap {Space, Comma} # {}
    [] p.code = DOHPath -> Range(p.data) \cap White # {}
    [] p.code = IPv6Hint -> \E i \in 1..(Len(p.data) \div 16) : v4Mapped(SubSeq(p.data, 16 * i - 15, 16 * i))
    [] OTHER -> FALSE
lostPrefix(p) ==
  LET size == IF p.family = 1 THEN 4 ELSE 16
  IN \/ p.family \notin {1, 2}
     \/ p.prefix > 8 * size
     \/ Len(p.address) > size
     \/ p.address # <<>> /\ p.address[Len(p.address)] = 0
     \/ p.family = 2 /\ v4Mapped(p.address)
lostField(k, v) ==
  CASE k = "name" -> strangeName(v)
    [] k = "names" -> \E i \in 1..Len(v) : strangeName(v[i])
    [] k = "strings" -> lostStrings(v)
    [] k = "quoted" -> lostInQuotes(v)
    [] k = "enclosed" -> Range(v) \cap {DQuote, Backslash} # {}
    [] k = "value" -> TRUE
    [] k \in {"hex", "base64", "base32"} -> v = <<>>
    [] k = "type" -> v = 0
    [] k = "bitmap" -> 0 \in Range(v)
    [] k = "precision" -> ~(v = 0 \/ (v \div 16 \in 1..9 /\ v % 16 <= 9))
    [] k = "latitude" -> position(v) \notin (-324000000)..324000000
    [] k = "longitude" -> position(v) \notin (-648000000)..648000000
    [] k = "gateway" -> strangeName(v.name) \/ v4Mapped(v.address)
    [] k = "host" -> v.hit = <<>> \/ v.key = <<>>
    [] k = "prefixes" -> v = <<>> \/ \E i \in 1..Len(v) : lostPrefix(v[i])
    [] k = "service" ->
         \/ strangeName(v.target)
         \/ v.priority # 0 /\ ~validateSvcParams(v.params)
         \/ \E i \in 1..Len(v.params) : lostParam(v.params[i])
    [] OTHER -> FALSE
Inexpressible(rr) ==
  LET form == createRData(rr.type)
  IN \/ TypeString(rr.type) \notin DOMAIN Forms \ {"OPT"}
     \/ rr.class # ClassIN
     \/ strangeName(rr.name)
     \/ \E i \in 1..Len(form) : lostField(form[i], rr.data[i])
     \/ rr.type = StringToType.NSEC /\ rr.data[2] = <<>>

\* SecondaryServesSame: of a transferred zone, a secondary serves as the primary sent them
\* exactly the records whose text can carry them, and serves nothing more.
SecondaryServesSame ==
  phase = "finished" /\ stored # <<>> =>
    /\ Len(served) <= Len(got.v.answers)
    /\ \A i \in 1..Len(got.v.answers) :
         ~Inexpressible(got.v.answers[i]) <=>
           \E j \in 1..Len(served) :
              served[j].type = got.v.answers[i].type /\ sameRecord(served[j], got.v.answers[i])

TypeOK ==
  /\ scenario \in DOMAIN Scenarios
  /\ next \in 1..Len(Journey.messages)
  /\ phase \in {"idle", "sent", "arrived", "read", "relayed", "stored", "finished"}
  /\ Range(wire) \subseteq Octet
  /\ intact \in BOOLEAN
=============================================================================
