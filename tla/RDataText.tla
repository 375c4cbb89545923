------------------------------ MODULE RDataText ------------------------------
(***************************************************************************)
(* Record data as text: the String methods of types_*.go and dnssec_*.go,   *)
(* and ParseRDataText of rdata_text.go, which a transferred zone goes       *)
(* through when it is stored and served again.                              *)
(*                                                                          *)
(* A text is a sequence of symbols.  Octets that come from a name or a      *)
(* string are characters, because they decide where the parsers split; a    *)
(* number, an address or an encoded blob is one symbol, for its text holds  *)
(* neither space nor quote.  No sample holds an octet that strconv.Quote    *)
(* writes in hexadecimal.  The coordinates of LOC are one symbol each, so   *)
(* the order of its text, which differs from that of the wire, is left out. *)
(***************************************************************************)
EXTENDS RData

char(o) == [is |-> "char", v |-> o]
atom(kind, v) == [is |-> kind, v |-> v]
isChar(s, set) == s.is = "char" /\ s.v \in set
chars(s) == [i \in 1..Len(s) |-> char(s[i])]

Space == 32
Tab == 9
DQuote == 34
Backslash == 92
White == {9, 10, 11, 12, 13, 32}
QuoteMark == <<char(DQuote)>>

spaced(texts) ==
  FlattenSeq([i \in 1..Len(texts) |-> (IF i = 1 THEN <<>> ELSE <<char(Space)>>) \o texts[i]])

-----------------------------------------------------------------------------
\* String

\* strconv.Quote, on the octets the samples hold.
Quote(s) ==
  LET one(o) == CASE o \in {DQuote, Backslash} -> <<Backslash, o>>
                  [] o = Tab -> <<Backslash, 116>>
                  [] OTHER -> <<o>>
  IN QuoteMark \o chars(FlattenSeq([i \in 1..Len(s) |-> one(s[i])])) \o QuoteMark

number(v) == <<atom("number", <<0, v>>)>>
blob(kind, v) == IF v = <<>> THEN <<>> ELSE <<atom(kind, v)>>
nameText(n) == chars(presentationFromWire(n))
txtString(s) == IF Range(s) \cap {Space, Tab, 10, 13, DQuote} # {} THEN Quote(s) ELSE chars(s)

formatSvcParams(s) ==
  LET params == svcParamsForMode(s)
  IN [i \in 1..Len(params) |-> <<atom("param", params[i])>>]

fieldText(k, v) ==
  CASE k \in {"u8", "u16"} -> number(v)
    [] k = "u32" -> <<atom("number", v)>>
    [] k = "zero" -> <<>>
    [] k \in {"precision", "latitude", "longitude", "altitude", "time", "type", "raw", "options"} ->
         <<atom(k, v)>>
    [] k \in {"addr4", "addr16"} -> <<atom("address", v)>>
    [] k = "name" -> nameText(v)
    [] k = "tag" -> chars(v)
    [] k = "quoted" -> Quote(v)
    [] k \in {"enclosed", "value"} -> QuoteMark \o chars(v) \o QuoteMark
    [] k = "salt" -> IF v = <<>> THEN <<atom("dash", 0)>> ELSE <<atom("hex", v)>>
    [] k \in {"hex", "base64", "base32"} -> blob(k, v)
    [] k = "strings" -> spaced([i \in 1..Len(v) |-> txtString(v[i])])
    [] k = "names" -> spaced([i \in 1..Len(v) |-> nameText(v[i])])
    [] k = "bitmap" -> spaced([i \in 1..Len(v) |-> <<atom("type", v[i])>>])
    [] k = "prefixes" -> spaced([i \in 1..Len(v) |-> <<atom("prefix", v[i])>>])
    [] k = "gateway" ->
         spaced(<<number(v.type), number(v.algorithm),
                  CASE v.type = 0 -> chars(<<Dot>>)
                    [] v.type = 3 -> nameText(v.name)
                    [] OTHER -> <<atom("address", v.address)>>>>)
    [] k = "host" -> spaced(<<number(v.algorithm), blob("hex", v.hit), blob("base64", v.key)>>)
    [] k = "service" -> spaced(<<number(v.priority), nameText(v.target)>> \o formatSvcParams(v))

rdataString(form, data) == spaced([i \in 1..Len(form) |-> fieldText(form[i], data[i])])

-----------------------------------------------------------------------------
\* Splitting a text

\* strings.Fields
Fields(text) ==
  LET cuts == {0, Len(text) + 1} \cup {i \in 1..Len(text) : isChar(text[i], White)}
      starts == ascending({c \in cuts : c <= Len(text) /\ c + 1 \notin cuts})
  IN [j \in 1..Len(starts) |->
        SubSeq(text, starts[j] + 1, Min({c \in cuts : c > starts[j]}) - 1)]

TrimSpace(text) ==
  LET kept == {i \in 1..Len(text) : ~isChar(text[i], White)}
  IN IF kept = {} THEN <<>> ELSE SubSeq(text, Min(kept), Max(kept))

closeField(a) == [a EXCEPT !.fields = Append(a.fields, a.current), !.current = <<>>, !.started = FALSE]
addSymbol(a, s) == [a EXCEPT !.current = Append(a.current, s), !.started = TRUE]
quotedStep(a, s) ==
  CASE a.inQuotes /\ a.escaped -> [addSymbol(a, s) EXCEPT !.escaped = FALSE]
    [] ~(a.inQuotes /\ a.escaped) /\ isChar(s, {Backslash}) ->
         IF a.inQuotes THEN [a EXCEPT !.escaped = TRUE] ELSE addSymbol(a, s)
    [] ~(a.inQuotes /\ a.escaped) /\ isChar(s, {DQuote}) ->
         IF a.inQuotes THEN [closeField(a) EXCEPT !.inQuotes = FALSE]
         ELSE [(IF a.current = <<>> THEN a ELSE closeField(a)) EXCEPT !.inQuotes = TRUE, !.started = TRUE]
    [] ~a.inQuotes /\ isChar(s, {Space, Tab}) ->
         IF a.started THEN closeField(a) ELSE a
    [] OTHER -> addSymbol(a, s)

parseQuotedRDataFields(text) ==
  LET a == FoldLeft(quotedStep, [fields |-> <<>>, current |-> <<>>, inQuotes |-> FALSE,
                                 escaped |-> FALSE, started |-> FALSE], text)
  IN IF a.inQuotes THEN Failed
     ELSE [ok |-> TRUE, v |-> IF a.started THEN Append(a.fields, a.current) ELSE a.fields]

-----------------------------------------------------------------------------
\* Parsing one field

is(f, kind) == Len(f) = 1 /\ f[1].is = kind
plain(f) == \A i \in 1..Len(f) : f[i].is = "char"
octetsOf(f) == [i \in 1..Len(f) |-> f[i].v]
accept(v) == [ok |-> TRUE, v |-> v]
given(cond, v) == IF cond THEN accept(v) ELSE Failed

\* strconv.ParseUint: the number, or the number that a word of digits spells, if it fits.
withDigit(n, d) ==
  LET lo == n[2] * 10 + d
      hi == n[1] * 10 + (lo \div 65536)
  IN <<IF hi > 65536 THEN 65536 ELSE hi, lo % 65536>>
spelled(f) == FoldLeft(LAMBDA n, s : withDigit(n, s.v - 48), <<0, 0>>, f)
parseUintField(f, bitSize) ==
  LET digits == f # <<>> /\ plain(f) /\ \A i \in 1..Len(f) : f[i].v \in 48..57
      n == IF digits THEN spelled(f) ELSE f[1].v
      fits == CASE bitSize = 8 -> n[1] = 0 /\ n[2] < 256
                [] bitSize = 16 -> n[1] = 0
                [] OTHER -> n[1] < 65536
  IN IF ~(digits \/ is(f, "number")) THEN Failed
     ELSE given(fits, IF bitSize = 32 THEN n ELSE n[2])

textName(f) == IF plain(f) THEN ParseName(octetsOf(f)) ELSE Failed
parseNSECTypeField(f) == IF is(f, "type") THEN given(f[1].v # 0, f[1].v) ELSE Failed

\* net.IP.To4
v4Mapped(a) == Len(a) = 16 /\ SubSeq(a, 1, 12) = <<0, 0, 0, 0, 0, 0, 0, 0, 0, 0, 255, 255>>
ipv6Only(a) == Len(a) = 16 /\ ~v4Mapped(a)
textAddress(f, n) == IF is(f, "address") THEN given(Len(f[1].v) = n, f[1].v) ELSE Failed

\* LOC: milliseconds from 2^31, within 90 and 180 degrees.
position(v) == (v[1] - 32768) * 65536 + v[2]
parseLOCCoordinate(f, maxDegrees) ==
  IF ~is(f, "latitude") /\ ~is(f, "longitude") THEN Failed
  ELSE given(position(f[1].v) \in (-3600000 * maxDegrees)..(3600000 * maxDegrees), f[1].v)

\* A mantissa above 9 is shown as nought; an exponent above 9 is not read back.
parseLOCPrecision(f) ==
  LET mantissa == f[1].v \div 16
      exponent == f[1].v % 16
  IN IF ~is(f, "precision") THEN Failed
     ELSE IF mantissa \notin 1..9 THEN accept(0)
     ELSE given(exponent <= 9, f[1].v)

\* aplAddressString fills the address up to its family's size, or cuts it.
fill(a, n) == [i \in 1..n |-> IF i <= Len(a) THEN a[i] ELSE 0]
keepAPLAddress(a) == a
trimAPLAddress(a) ==
  LET used == {i \in 1..Len(a) : a[i] # 0}
  IN IF used = {} THEN <<>> ELSE SubSeq(a, 1, Max(used))
parseAPLItem(f) ==
  LET p == f[1].v
      size == IF p.family = 1 THEN 4 ELSE 16
      address == fill(p.address, size)
  IN IF ~is(f, "prefix") THEN Failed
     ELSE given(/\ p.family \in {1, 2}
                /\ p.prefix <= 8 * size
                /\ p.family = 2 => ~v4Mapped(address),
                [p EXCEPT !.address = trimAPLAddress(address)])

-----------------------------------------------------------------------------
\* SVCB parameters: what parseSvcParam makes of the text formatSvcParam gives.

Comma == 44
groups(v, n) == [i \in 1..(Len(v) \div n) |-> SubSeq(v, (i - 1) * n + 1, i * n)]
joinOctets(list, sep) ==
  FlattenSeq([i \in 1..Len(list) |-> (IF i = 1 THEN <<>> ELSE <<sep>>) \o list[i]])

\* The protocols are quoted as one list, so a comma splits one and a space ends the text.
parseALPNSvcParam(value) ==
  LET list == joinOctets(protocolsIn(value).list, Comma)
      split == splitAt(list, {Comma})
  IN given(/\ Space \notin Range(list)
           /\ \A i \in 1..Len(split) : Len(split[i]) \in 1..255,
           labelOctets(split))

\* A port that is not two octets is shown in hexadecimal and read in decimal.
portDigits(value) ==
  FoldLeft(LAMBDA n, o : withDigit(withDigit(n, o \div 16), o % 16), <<0, 0>>, value)
parsePortSvcParam(value) ==
  IF Len(value) = 2 THEN accept(value)
  ELSE given(/\ value # <<>>
             /\ \A i \in 1..Len(value) : value[i] \div 16 <= 9 /\ value[i] % 16 <= 9
             /\ portDigits(value)[1] = 0, PutUint16(portDigits(value)[2]))

parseIPHintSvcParam(value, n) ==
  LET list == groups(value, n)
  IN given(list # <<>> /\ \A i \in 1..Len(list) : ~v4Mapped(list[i]), FlattenSeq(list))

parseMandatorySvcParam(value) ==
  LET keys == mandatoryKeys(value)
  IN given(keys # <<>> /\ Mandatory \notin Range(keys), FlattenSeq(groups(value, 2)))

\* The path is shown as it is: a space within it leaves a word that is no parameter.
parseDOHPath(value) ==
  LET kept == {i \in 1..Len(value) : value[i] \notin White}
      end == IF kept = {} THEN 0 ELSE Max(kept)
  IN given(\A i \in 1..end : i \in kept, SubSeq(value, 1, end))

parseSvcParam(p) ==
  LET param(r) == IF r.ok THEN accept([p EXCEPT !.data = r.v]) ELSE Failed
  IN param(CASE p.code = Mandatory -> parseMandatorySvcParam(p.data)
             [] p.code = ALPN -> parseALPNSvcParam(p.data)
             [] p.code = NoDefaultALPN -> accept(<<>>)
             [] p.code = Port -> parsePortSvcParam(p.data)
             [] p.code = IPv4Hint -> parseIPHintSvcParam(p.data, 4)
             [] p.code = IPv6Hint -> parseIPHintSvcParam(p.data, 16)
             [] p.code = DOHPath -> parseDOHPath(p.data)
             [] OTHER -> accept(p.data))

-----------------------------------------------------------------------------
\* Parsing a record.  A reader takes the fields fs from the i-th on.

allOk(rs) == \A i \in 1..Len(rs) : rs[i].ok
values(rs) == [i \in 1..Len(rs) |-> rs[i].v]
listed(rs, next) == IF allOk(rs) THEN read(values(rs), next) ELSE Failed
taken(r, next) == IF r.ok THEN read(r.v, next) ELSE Failed
only(fs, i, kind) == i = Len(fs) /\ is(fs[i], kind)

textGateway(fs, i) ==
  IF i + 2 > Len(fs) THEN Failed
  ELSE LET at == fs[i + 2]
           address(type) ==
             CASE type = 0 -> given(plain(at) /\ octetsOf(at) = <<Dot>>, <<>>)
               [] type = 3 -> textName(at)
               [] type \in {1, 2} ->
                    IF is(at, "address")
                    THEN given(IF type = 1 THEN Len(at[1].v) = 4 ELSE ipv6Only(at[1].v), at[1].v) ELSE Failed
               [] OTHER -> Failed
           gateway(type, algorithm, a) ==
             IF ~a.ok THEN Failed
             ELSE read([type |-> type, algorithm |-> algorithm, address |-> IF type = 3 THEN <<>> ELSE a.v,
                        name |-> IF type = 3 THEN a.v ELSE <<>>], i + 3)
           after(type, algorithm) ==
             IF ~type.ok \/ ~algorithm.ok THEN Failed ELSE gateway(type.v, algorithm.v, address(type.v))
       IN after(parseUintField(fs[i], 8), parseUintField(fs[i + 1], 8))

textHost(fs, i) ==
  IF i + 2 > Len(fs) THEN Failed
  ELSE LET host(algorithm) ==
             IF algorithm.ok /\ is(fs[i + 1], "hex") /\ is(fs[i + 2], "base64")
             THEN read([algorithm |-> algorithm.v, hit |-> fs[i + 1][1].v, key |-> fs[i + 2][1].v], i + 3)
             ELSE Failed
       IN host(parseUintField(fs[i], 8))

sortByKey(params) ==
  [i \in 1..Len(params) |->
     CHOOSE p \in Range(params) : Cardinality({q \in Range(params) : q.code < p.code}) = i - 1]
distinctKeys(params) == \A i, j \in 1..Len(params) : params[i].code = params[j].code => i = j
textService(fs, i) ==
  IF i + 1 > Len(fs) THEN Failed
  ELSE LET service(priority, target, params) ==
             IF ~priority.ok \/ ~target.ok \/ ~allOk(params) THEN Failed
             ELSE IF \/ priority.v = 0 /\ params # <<>>
                     \/ ~distinctKeys(values(params))
             THEN Failed
             ELSE read([priority |-> priority.v, target |-> target.v, params |-> sortByKey(values(params))],
                       Len(fs) + 1)
       IN service(parseUintField(fs[i], 16), textName(fs[i + 1]),
                  [j \in 1..(Len(fs) - i - 1) |->
                     IF is(fs[i + 1 + j], "param") THEN parseSvcParam(fs[i + 1 + j][1].v) ELSE Failed])

textField(k, fs, i) ==
  IF k \in {"names", "bitmap"} /\ i > Len(fs) THEN read(<<>>, i)
  ELSE IF k # "zero" /\ i > Len(fs) THEN Failed ELSE
  CASE k = "zero" -> read(0, i)
    [] k \in {"u8", "u16", "u32"} ->
         taken(parseUintField(fs[i], CASE k = "u8" -> 8 [] k = "u16" -> 16 [] k = "u32" -> 32), i + 1)
    [] k = "type" -> taken(parseNSECTypeField(fs[i]), i + 1)
    [] k = "precision" -> taken(parseLOCPrecision(fs[i]), i + 1)
    [] k = "latitude" -> taken(parseLOCCoordinate(fs[i], 90), i + 1)
    [] k = "longitude" -> taken(parseLOCCoordinate(fs[i], 180), i + 1)
    [] k \in {"altitude", "time", "base32"} ->
         IF is(fs[i], k) THEN read(fs[i][1].v, i + 1) ELSE Failed
    [] k = "addr4" -> taken(textAddress(fs[i], 4), i + 1)
    [] k = "addr16" -> taken(textAddress(fs[i], 16), i + 1)
    [] k = "name" -> taken(textName(fs[i]), i + 1)
    [] k \in {"tag", "quoted", "enclosed"} ->
         IF plain(fs[i]) THEN read(octetsOf(fs[i]), i + 1) ELSE Failed
    [] k = "value" ->
         read(joinOctets([j \in 1..(Len(fs) - i + 1) |-> octetsOf(fs[i + j - 1])], Space), Len(fs) + 1)
    [] k = "salt" -> IF is(fs[i], "dash") THEN read(<<>>, i + 1)
                     ELSE IF is(fs[i], "hex") THEN read(fs[i][1].v, i + 1) ELSE Failed
    [] k \in {"hex", "base64"} ->
         IF only(fs, i, k) THEN read(fs[i][1].v, i + 1) ELSE Failed
    [] k = "names" ->
         listed([j \in 1..(Len(fs) - i + 1) |-> textName(fs[i + j - 1])], Len(fs) + 1)
    [] k = "bitmap" ->
         listed([j \in 1..(Len(fs) - i + 1) |-> parseNSECTypeField(fs[i + j - 1])], Len(fs) + 1)
    [] k = "prefixes" ->
         listed([j \in 1..(Len(fs) - i + 1) |-> parseAPLItem(fs[i + j - 1])], Len(fs) + 1)
    [] k = "gateway" -> textGateway(fs, i)
    [] k = "host" -> textHost(fs, i)
    [] k = "service" -> textService(fs, i)

RECURSIVE textFields(_, _, _, _)
textFields(form, j, fs, i) ==
  IF j > Len(form) THEN read(<<>>, i)
  ELSE LET after(r) == IF r.ok THEN prepend(r.v, textFields(form, j + 1, fs, r.next)) ELSE Failed
       IN after(textField(form[j], fs, i))

\* parseTXTRData takes the whole text as one string when it holds no quote, or quotes
\* that do not balance.
splitCharacterStrings(list) ==
  IF list = <<>> THEN <<<<>>>>
  ELSE FlattenSeq([i \in 1..Len(list) |->
         IF Len(list[i]) <= 255 THEN <<list[i]>>
         ELSE LET full == groups(list[i], 255)
                  rest == SubSeq(list[i], 255 * Len(full) + 1, Len(list[i]))
              IN IF rest = <<>> THEN full ELSE Append(full, rest)])
parseTXTRData(text) ==
  LET trimmed == TrimSpace(text)
      split == parseQuotedRDataFields(trimmed)
      quoted == \E i \in 1..Len(trimmed) : isChar(trimmed[i], {DQuote})
      fields == IF quoted /\ split.ok THEN split.v ELSE <<trimmed>>
  IN accept(<<splitCharacterStrings([i \in 1..Len(fields) |-> octetsOf(fields[i])])>>)

\* A parser: how it splits the text, the form it reads, whether fields may be left over,
\* and whether it tries to pack what it read (RDataPacksText).
parser(split, form, exact, packs) == [split |-> split, form |-> form, exact |-> exact, packs |-> packs]
wholeParser(form) == parser("whole", form, TRUE, FALSE)
parseSOARData == parser("fields", RDataSOA, FALSE, FALSE)
parseSRVRData == parser("fields", RDataSRV, FALSE, FALSE)
parseMXRData == parser("fields", RDataMX, FALSE, FALSE)
parseCAARData == parser("fields", RDataCAA, TRUE, FALSE)
parseHINFORData == parser("quoted", RDataHINFO, TRUE, TRUE)
parseRPRData == parser("fields", RDataRP, TRUE, TRUE)
parseAFSDBRData == parser("fields", RDataAFSDB, TRUE, TRUE)
parseKXRData == parser("fields", RDataKX, TRUE, TRUE)
parseCERTRData == parser("fields", RDataCERT, TRUE, TRUE)
parseOPENPGPKEYRData == parser("fields", RDataOPENPGPKEY, TRUE, TRUE)
parseAPLRData == parser("fields", RDataAPL, TRUE, TRUE)
parseLOCRData == parser("fields", RDataLOC, TRUE, TRUE)
parseHIPRData == parser("fields", RDataHIP, TRUE, TRUE)
parseIPSECKEYRData == parser("fields", RDataIPSECKEY, TRUE, TRUE)
parseURIRData == parser("quoted", RDataURI, TRUE, TRUE)
parseNAPTRRData == parser("quoted", RDataNAPTR, TRUE, TRUE)
parseSSHFPRData == parser("fields", RDataSSHFP, TRUE, FALSE)
parseTLSARData == parser("fields", RDataTLSA, TRUE, FALSE)
parseDHCIDRData == parser("fields", RDataDHCID, TRUE, FALSE)
parseDSRData == parser("fields", RDataDS, TRUE, FALSE)
parseDNSKEYRData == parser("fields", RDataDNSKEY, TRUE, FALSE)
parseRRSIGRData == parser("fields", RDataRRSIG, TRUE, TRUE)
parseZONEMDRData == parser("fields", RDataZONEMD, TRUE, TRUE)
parseNSECRData == parser("fields, two at least", RDataNSEC, TRUE, TRUE)
parseNSEC3RData == parser("fields", RDataNSEC3, TRUE, TRUE)
parseNSEC3PARAMRData == parser("fields", RDataNSEC3PARAM, TRUE, TRUE)
parseSVCBRData == parser("fields", RDataSVCB, TRUE, TRUE)
parseHTTPSRData == parser("fields", RDataHTTPS, TRUE, TRUE)
parseStrings == parser("txt", RDataTXT, TRUE, FALSE)

Parsers ==
  [A |-> wholeParser(RDataA), AAAA |-> wholeParser(RDataAAAA), CNAME |-> wholeParser(RDataCNAME),
   DNAME |-> wholeParser(RDataDNAME), NS |-> wholeParser(RDataNS), PTR |-> wholeParser(RDataPTR),
   MX |-> parseMXRData, TXT |-> parseStrings, SPF |-> parseStrings, HINFO |-> parseHINFORData,
   RP |-> parseRPRData, AFSDB |-> parseAFSDBRData, SIG |-> parseRRSIGRData, KEY |-> parseDNSKEYRData,
   LOC |-> parseLOCRData, SOA |-> parseSOARData, SRV |-> parseSRVRData, KX |-> parseKXRData,
   CERT |-> parseCERTRData, APL |-> parseAPLRData, CAA |-> parseCAARData, URI |-> parseURIRData,
   NAPTR |-> parseNAPTRRData, SSHFP |-> parseSSHFPRData, HIP |-> parseHIPRData,
   IPSECKEY |-> parseIPSECKEYRData, TLSA |-> parseTLSARData, DHCID |-> parseDHCIDRData,
   DS |-> parseDSRData, CDS |-> parseDSRData, DNSKEY |-> parseDNSKEYRData, CDNSKEY |-> parseDNSKEYRData,
   TA |-> parseDSRData, OPENPGPKEY |-> parseOPENPGPKEYRData, RRSIG |-> parseRRSIGRData,
   ZONEMD |-> parseZONEMDRData, NSEC |-> parseNSECRData, NSEC3 |-> parseNSEC3RData,
   NSEC3PARAM |-> parseNSEC3PARAMRData, SVCB |-> parseSVCBRData, HTTPS |-> parseHTTPSRData]

splitText(split, text) ==
  CASE split = "whole" -> accept(<<text>>)
    [] split = "quoted" -> parseQuotedRDataFields(text)
    [] split = "fields" -> accept(Fields(text))
    [] split = "fields, two at least" -> given(Len(Fields(text)) >= 2, Fields(text))
RDataPacksText(form, data) == packsRData(form, data)

ParseRDataText(type, text) ==
  LET data(p, n, r) ==
        IF ~r.ok THEN Failed
        ELSE given(/\ p.exact => r.next = n + 1
                   /\ p.packs => RDataPacksText(p.form, r.v), r.v)
      parse(p, fs) == IF ~fs.ok THEN Failed ELSE data(p, Len(fs.v), textFields(p.form, 1, fs.v, 1))
      by(p) == IF p.split = "txt" THEN parseTXTRData(text) ELSE parse(p, splitText(p.split, text))
  IN IF type \notin DOMAIN Parsers THEN Failed ELSE by(Parsers[type])
=============================================================================
