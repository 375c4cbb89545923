------------------------------- MODULE Message -------------------------------
(***************************************************************************)
(* DNS messages: message.go, header.go, question.go, record.go and the      *)
(* object pools of pool.go in internal/protocol, and the way a transferred  *)
(* record is kept as text (transfer/slave.go) and served (transfer/axfr.go).*)
(*                                                                          *)
(* Nil sections, names and data, which Pack refuses, are left out: no       *)
(* caller builds them.                                                      *)
(***************************************************************************)
EXTENDS RDataText

CONSTANTS MaxQuestions,    \* 256
          MaxRecords       \* 512, for each of the three record sections

HeaderLen == 12
OpcodeDSO == 6
FlagBits == [QR |-> 32768, AA |-> 1024, TC |-> 512, RD |-> 256, RA |-> 128, Z |-> 64, AD |-> 32, CD |-> 16]
RecordSections == <<"answers", "authorities", "additionals">>

\* Flags are the set of bits that are on, the opcode and the rcode.
packFlags(f) ==
  SumSet({FlagBits[b] : b \in f.on}) + (f.opcode % 16) * 2048 + (f.rcode % 16)
UnpackFlags(v) ==
  [on |-> {b \in DOMAIN FlagBits : (v \div FlagBits[b]) % 2 = 1},
   opcode |-> (v \div 2048) % 16, rcode |-> v % 16]

questionLength(q) == WireLength(q.name) + 4
recordLength(rr) == WireLength(rr.name) + 10 + lenRData(createRData(rr.type), rr.data)
messageLength(m) ==
  HeaderLen +
    (IF m.flags.opcode = OpcodeDSO THEN Len(m.rawBody)
     ELSE FoldSeq(LAMBDA q, n : n + questionLength(q), 0, m.questions)
            + FoldSeq(LAMBDA rr, n : n + recordLength(rr), 0, m.answers \o m.authorities \o m.additionals))

-----------------------------------------------------------------------------
\* Pack.  One compression table serves the names of the questions and the owners.

fixedFields(rr) == PutUint16(rr.type) \o PutUint16(rr.class) \o PutUint16(rr.ttl[1]) \o PutUint16(rr.ttl[2])
packQuestion(q, at, table) ==
  LET question(name) == [octets |-> name.octets \o PutUint16(q.type) \o PutUint16(q.class), table |-> name.table]
  IN question(PackName(q.name, at, table))
packRecord(rr, at, table) ==
  LET record(name, rdata) ==
        [octets |-> name.octets \o fixedFields(rr) \o PutUint16(Len(rdata)) \o rdata, table |-> name.table]
  IN record(PackName(rr.name, at, table), packRData(createRData(rr.type), rr.data))
recordPacks(rr) == validateWireName(rr.name) /\ packsRData(createRData(rr.type), rr.data)

packHeader(m, counts) == PutUint16(m.id) \o PutUint16(packFlags(m.flags)) \o FlattenSeq([i \in 1..4 |-> PutUint16(counts[i])])

packBody(m) ==
  LET add(a, p) == [octets |-> a.octets \o p.octets, table |-> p.table]
      addQuestion(a, q) == add(a, packQuestion(q, HeaderLen + Len(a.octets), a.table))
      addRecord(a, rr) == add(a, packRecord(rr, HeaderLen + Len(a.octets), a.table))
      questions == FoldLeft(addQuestion, [octets |-> <<>>, table |-> NoTable], m.questions)
  IN FoldLeft(addRecord, questions, m.answers \o m.authorities \o m.additionals).octets

\* Pack into a buffer of size octets.
PackMessage(m, size) ==
  IF size < messageLength(m) THEN Failed
  ELSE IF m.flags.opcode = OpcodeDSO THEN accept(packHeader(m, <<0, 0, 0, 0>>) \o m.rawBody)
  ELSE IF \/ \E i \in 1..Len(m.questions) : ~validateWireName(m.questions[i].name)
          \/ \E s \in Range(RecordSections) : \E i \in 1..Len(m[s]) : ~recordPacks(m[s][i])
  THEN Failed
  ELSE accept(packHeader(m, <<Len(m.questions), Len(m.answers), Len(m.authorities), Len(m.additionals)>>)
                \o packBody(m))

-----------------------------------------------------------------------------
\* UnpackMessage.  left says what the pooled TXT and OPT objects still hold.

leftIn(left, type) == IF TypeString(type) \in {"TXT", "SPF"} THEN left.TXT ELSE left.OPT

UnpackQuestion(buf, at) ==
  LET question(name) ==
        IF ~name.ok THEN Failed
        ELSE IF name.next + 4 > Len(buf) THEN Failed
        ELSE read([name |-> name.v, type |-> Uint16(buf, name.next), class |-> Uint16(buf, name.next + 2)],
                  name.next + 4)
  IN question(UnpackName(buf, at))

UnpackResourceRecord(buf, at, left) ==
  LET record(name, o, type, data) ==
        IF ~data.ok THEN Failed
        ELSE read([name |-> name, type |-> type, class |-> Uint16(buf, o + 2),
                   ttl |-> <<Uint16(buf, o + 4), Uint16(buf, o + 6)>>, data |-> data.v], data.next)
      typed(name, o, type) ==
        record(name, o, type,
               unpackRData(createRData(type), buf, o + 10, Uint16(buf, o + 8), leftIn(left, type)))
      after(name) ==
        IF ~name.ok THEN Failed
        ELSE IF name.next + 10 > Len(buf) THEN Failed
        ELSE typed(name.v, name.next, Uint16(buf, name.next))
  IN after(UnpackName(buf, at))

RECURSIVE unpackItems(_, _, _, _, _)
unpackItems(questions, n, buf, at, left) ==
  IF n = 0 THEN read(<<>>, at)
  ELSE IF at >= Len(buf) THEN Failed
  ELSE LET after(r) == IF r.ok THEN prepend(r.v, unpackItems(questions, n - 1, buf, r.next, left)) ELSE Failed
       IN after(IF questions THEN UnpackQuestion(buf, at) ELSE UnpackResourceRecord(buf, at, left))

unpackSection(i, buf, at, left) ==
  LET count == Uint16(buf, 4 + 2 * (i - 1))
  IN IF count > (IF i = 1 THEN MaxQuestions ELSE MaxRecords) THEN Failed
     ELSE unpackItems(i = 1, count, buf, at, left)

\* The sections from the i-th on.
RECURSIVE unpackSections(_, _, _, _)
unpackSections(i, buf, at, left) ==
  IF i > 4 THEN read(<<>>, at)
  ELSE LET after(s) == IF s.ok THEN prepend(s.v, unpackSections(i + 1, buf, s.next, left)) ELSE Failed
       IN after(unpackSection(i, buf, at, left))

UnpackMessage(buf, left) ==
  IF Len(buf) < HeaderLen THEN Failed
  ELSE LET message(flags, body, s) ==
             accept([id |-> Uint16(buf, 0), flags |-> flags, rawBody |-> body,
                     questions |-> s[1], answers |-> s[2], authorities |-> s[3], additionals |-> s[4]])
           read4(flags, s) == IF s.ok THEN message(flags, <<>>, s.v) ELSE Failed
           after(flags) ==
             IF flags.opcode = OpcodeDSO
             THEN message(flags, SubSeq(buf, HeaderLen + 1, Len(buf)), <<<<>>, <<>>, <<>>, <<>>>>)
             ELSE read4(flags, unpackSections(1, buf, HeaderLen, left))
       IN after(UnpackFlags(Uint16(buf, 2)))

-----------------------------------------------------------------------------
\* EDNS(0) and truncation

rootOPT(size, do) ==
  [name |-> <<>>, type |-> StringToType.OPT, class |-> size, ttl |-> <<0, IF do THEN 32768 ELSE 0>>,
   data |-> <<<<>>>>]
isOPT(rr) == rr.type = StringToType.OPT
SetEDNS0(m, size, do) ==
  [m EXCEPT !.additionals = Append(SelectSeq(m.additionals, LAMBDA rr : ~isOPT(rr)), rootOPT(size, do))]

\* The longest prefix of a section with which the message fits, or nothing of it.
cut(m, s, maxSize) ==
  LET keeps(n) == [m EXCEPT ![s] = SubSeq(m[s], 1, n)]
      fitting == {n \in 0..Len(m[s]) : messageLength(keeps(n)) <= maxSize}
  IN keeps(IF fitting = {} THEN 0 ELSE Max(fitting))
leaveTC(m) == m
setTC(m) == [m EXCEPT !.flags.on = m.flags.on \cup {"TC"}]

Truncate(m, maxSize) ==
  LET fits(n) == messageLength(n) <= maxSize
      shorten(n, s) == IF fits(n) THEN n
                       ELSE IF s = "additionals" THEN cut(n, s, maxSize) ELSE setTC(cut(n, s, maxSize))
  IN FoldLeft(shorten, m, <<"additionals", "authorities", "answers">>)

-----------------------------------------------------------------------------
\* A secondary keeps a record as text and serves what it can read back.

recordFromRR(rr) ==
  [name |-> lower(presentationFromWire(rr.name)), type |-> rr.type, ttl |-> rr.ttl,
   rdata |-> rdataString(createRData(rr.type), rr.data)]

ClassIN == 1
zoneRecordToRR(rec) ==
  LET record(owner, data) ==
        IF ~owner.ok \/ rec.type = 0 THEN Failed
        ELSE IF ~data.ok THEN Failed
        ELSE accept([name |-> owner.v, type |-> rec.type, class |-> ClassIN, ttl |-> rec.ttl, data |-> data.v])
  IN record(ParseName(rec.name), ParseRDataText(TypeString(rec.type), rec.rdata))
=============================================================================
