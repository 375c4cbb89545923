-------------------------------- MODULE RData --------------------------------
(***************************************************************************)
(* Record data on the wire: types_*.go, dnssec_*.go and opt.go of           *)
(* internal/protocol.                                                       *)
(*                                                                          *)
(* Every record type is a form, the sequence of its fields.  The kind of a  *)
(* field says how Pack writes it, Unpack reads it, Len counts it and String *)
(* shows it (RDataText).  Data is the sequence of the values of the fields. *)
(* A 32-bit number is the pair of its 16-bit halves.                        *)
(*                                                                          *)
(* UnpackResourceRecord refuses data whose reading does not end at          *)
(* rdlength, so a form needs no rule of its own for that.                   *)
(***************************************************************************)
EXTENDS WireNames

CONSTANT MaxEDNS0Options  \* 64

RDataA == <<"addr4">>
RDataAAAA == <<"addr16">>
RDataLOC == <<"zero", "precision", "precision", "precision", "latitude", "longitude", "altitude">>
RDataAPL == <<"prefixes">>
RDataCNAME == <<"name">>
RDataDNAME == <<"name">>
RDataNS == <<"name">>
RDataPTR == <<"name">>
RDataSOA == <<"name", "name", "u32", "u32", "u32", "u32", "u32">>
RDataSRV == <<"u16", "u16", "u16", "name">>
RDataMX == <<"u16", "name">>
RDataTXT == <<"strings">>
RDataHINFO == <<"quoted", "quoted">>
RDataRP == <<"name", "name">>
RDataAFSDB == <<"u16", "name">>
RDataKX == <<"u16", "name">>
RDataURI == <<"u16", "u16", "quoted">>
RDataNAPTR == <<"u16", "u16", "enclosed", "enclosed", "enclosed", "name">>
RDataCAA == <<"u8", "tag", "value">>
RDataIPSECKEY == <<"u8", "gateway", "base64">>
RDataHIP == <<"host", "names">>
RDataCERT == <<"u16", "u16", "u8", "base64">>
RDataOPENPGPKEY == <<"base64">>
RDataDHCID == <<"base64">>
RDataSSHFP == <<"u8", "u8", "hex">>
RDataTLSA == <<"u8", "u8", "u8", "hex">>
RDataSVCB == <<"service">>
RDataHTTPS == <<"service">>
RDataZONEMD == <<"u32", "u8", "u8", "hex">>
RDataDNSKEY == <<"u16", "u8", "u8", "base64">>
RDataDS == <<"u16", "u8", "u8", "hex">>
RDataRRSIG == <<"type", "u8", "u8", "u32", "time", "time", "u16", "name", "base64">>
RDataNSEC == <<"name", "bitmap">>
RDataNSEC3 == <<"u8", "u8", "u16", "salt", "base32", "bitmap">>
RDataNSEC3PARAM == <<"u8", "u8", "u16", "salt">>
RDataOPT == <<"options">>
RDataRaw == <<"raw">>

StringToType ==
  [A |-> 1, NS |-> 2, CNAME |-> 5, SOA |-> 6, PTR |-> 12, HINFO |-> 13, MX |-> 15, TXT |-> 16,
   RP |-> 17, AFSDB |-> 18, SIG |-> 24, KEY |-> 25, AAAA |-> 28, LOC |-> 29, SRV |-> 33,
   NAPTR |-> 35, KX |-> 36, CERT |-> 37, DNAME |-> 39, OPT |-> 41, APL |-> 42, DS |-> 43,
   SSHFP |-> 44, IPSECKEY |-> 45, RRSIG |-> 46, NSEC |-> 47, DNSKEY |-> 48, DHCID |-> 49,
   NSEC3 |-> 50, NSEC3PARAM |-> 51, TLSA |-> 52, HIP |-> 55, CDS |-> 59, CDNSKEY |-> 60,
   OPENPGPKEY |-> 61, ZONEMD |-> 63, SVCB |-> 64, HTTPS |-> 65, SPF |-> 99, TSIG |-> 250,
   IXFR |-> 251, AXFR |-> 252, ANY |-> 255, URI |-> 256, CAA |-> 257, TA |-> 32768]
TypeToString ==
  [t \in {StringToType[s] : s \in DOMAIN StringToType} |->
     CHOOSE s \in DOMAIN StringToType : StringToType[s] = t]

\* createRData: SIG, KEY, SPF, CDS, CDNSKEY and TA borrow the form of another type.
Forms ==
  [A |-> RDataA, NS |-> RDataNS, CNAME |-> RDataCNAME, SOA |-> RDataSOA, PTR |-> RDataPTR,
   HINFO |-> RDataHINFO, MX |-> RDataMX, TXT |-> RDataTXT, RP |-> RDataRP, AFSDB |-> RDataAFSDB,
   SIG |-> RDataRRSIG, KEY |-> RDataDNSKEY, AAAA |-> RDataAAAA, LOC |-> RDataLOC,
   SRV |-> RDataSRV, NAPTR |-> RDataNAPTR, KX |-> RDataKX, CERT |-> RDataCERT,
   DNAME |-> RDataDNAME, OPT |-> RDataOPT, APL |-> RDataAPL, DS |-> RDataDS,
   SSHFP |-> RDataSSHFP, IPSECKEY |-> RDataIPSECKEY, RRSIG |-> RDataRRSIG, NSEC |-> RDataNSEC,
   DNSKEY |-> RDataDNSKEY, DHCID |-> RDataDHCID, NSEC3 |-> RDataNSEC3,
   NSEC3PARAM |-> RDataNSEC3PARAM, TLSA |-> RDataTLSA, HIP |-> RDataHIP, CDS |-> RDataDS,
   CDNSKEY |-> RDataDNSKEY, OPENPGPKEY |-> RDataOPENPGPKEY, ZONEMD |-> RDataZONEMD,
   SVCB |-> RDataSVCB, HTTPS |-> RDataHTTPS, SPF |-> RDataTXT, URI |-> RDataURI,
   CAA |-> RDataCAA, TA |-> RDataDS]
TypeString(t) == IF t \in DOMAIN TypeToString THEN TypeToString[t] ELSE "unknown"
createRData(t) == IF TypeString(t) \in DOMAIN Forms THEN Forms[TypeString(t)] ELSE RDataRaw

One == {"u8", "zero", "precision"}
Two == {"u16", "type"}
Four == {"u32", "time", "latitude", "longitude", "altitude"}
Fixed == [k \in One \cup Two \cup Four \cup {"addr4", "addr16"} |->
            IF k \in One THEN 1 ELSE IF k \in Two THEN 2 ELSE IF k = "addr16" THEN 16 ELSE 4]
CharacterString == {"string", "quoted", "enclosed", "tag", "salt", "base32"}
Remainder == {"hex", "base64", "value", "raw"}
ListOf == [strings |-> "string", names |-> "name", options |-> "option", prefixes |-> "prefix",
           bitmap |-> "window"]

-----------------------------------------------------------------------------
\* SVCB parameters

Mandatory == 0
ALPN == 1
NoDefaultALPN == 2
Port == 3
IPv4Hint == 4
ECH == 5
IPv6Hint == 6
DOHPath == 7

increasing(keys) == \A i \in 2..Len(keys) : keys[i - 1] < keys[i]
mandatoryKeys(value) == [i \in 1..(Len(value) \div 2) |-> Uint16(value, 2 * (i - 1))]

\* The protocols of an alpn value: the strings it is made of, and whether it ends with one.
RECURSIVE protocolsIn(_)
protocolsIn(value) ==
  IF value = <<>> THEN [list |-> <<>>, whole |-> TRUE]
  ELSE IF value[1] + 1 > Len(value) THEN [list |-> <<>>, whole |-> FALSE]
  ELSE LET r == protocolsIn(SubSeq(value, value[1] + 2, Len(value)))
       IN [r EXCEPT !.list = <<SubSeq(value, 2, value[1] + 1)>> \o r.list]

validateALPNValue(value) ==
  LET r == protocolsIn(value)
  IN value # <<>> /\ r.whole /\ \A i \in 1..Len(r.list) : r.list[i] # <<>>

validateMandatoryValue(value) ==
  LET keys == mandatoryKeys(value)
  IN increasing(keys) /\ \A i \in 1..Len(keys) : keys[i] # Mandatory

validateSvcParamValue(p) ==
  LET n == Len(p.data)
  IN CASE p.code = Mandatory -> n > 0 /\ n % 2 = 0 /\ validateMandatoryValue(p.data)
       [] p.code = ALPN -> validateALPNValue(p.data)
       [] p.code = NoDefaultALPN -> n = 0
       [] p.code = Port -> n = 2
       [] p.code = IPv4Hint -> n > 0 /\ n % 4 = 0
       [] p.code = IPv6Hint -> n > 0 /\ n % 16 = 0
       [] OTHER -> TRUE

validateSvcParams(params) ==
  LET keys == [i \in 1..Len(params) |-> params[i].code]
  IN /\ increasing(keys)
     /\ \A i \in 1..Len(params) :
          /\ validateSvcParamValue(params[i])
          /\ params[i].code = NoDefaultALPN => ALPN \in Range(keys)
          /\ params[i].code = Mandatory => Range(mandatoryKeys(params[i].data)) \subseteq Range(keys)

svcParamsForMode(s) == IF s.priority = 0 THEN <<>> ELSE s.params

-----------------------------------------------------------------------------
\* NSEC type bit maps

bitsOf(types, w) == {t % 256 : t \in {u \in Range(types) : u \div 256 = w}}
windowOctets(types, w) ==
  LET bits == bitsOf(types, w)
      len == (Max(bits) \div 8) + 1
  IN <<w, len>> \o [i \in 1..len |->
       SumSet({2 ^ (7 - (b % 8)) : b \in {c \in bits : c \div 8 = i - 1}})]
bitmapOctets(types) ==
  LET windows == ascending({t \div 256 : t \in Range(types)})
  IN FlattenSeq([i \in 1..Len(windows) |-> windowOctets(types, windows[i])])

\* The types of one window, in the order its bits are scanned.
typesOfWindow(w) ==
  LET set == {(i * 8) + j : i \in 0..(Len(w.data) - 1), j \in 0..7}
      on == {b \in set : (w.data[(b \div 8) + 1] \div 2 ^ (7 - (b % 8))) % 2 = 1}
  IN ascending({(w.code * 256) + b : b \in on})

-----------------------------------------------------------------------------
\* Pack: what is written, and what is refused.  Len is the length of what is written,
\* counted from the value.

gatewayLength(type) == CASE type = 1 -> 4 [] type = 2 -> 16 [] OTHER -> 0
prefixOctets(p) ==
  PutUint16(p.family) \o <<p.prefix, Len(p.address) + (IF p.negation THEN 128 ELSE 0)>> \o p.address
optionOctets(o) == PutUint16(o.code) \o PutUint16(Len(o.data)) \o o.data

packField(k, v) ==
  CASE k \in One -> <<v>>
    [] k \in Two -> PutUint16(v)
    [] k \in Four -> PutUint16(v[1]) \o PutUint16(v[2])
    [] k \in {"addr4", "addr16"} \cup Remainder -> v
    [] k \in CharacterString -> <<Len(v)>> \o v
    [] k = "name" -> packPlain(v)
    [] k = "strings" -> labelOctets(v)
    [] k = "names" -> FlattenSeq([i \in 1..Len(v) |-> packPlain(v[i])])
    [] k = "options" -> FlattenSeq([i \in 1..Len(v) |-> optionOctets(v[i])])
    [] k = "prefixes" -> FlattenSeq([i \in 1..Len(v) |-> prefixOctets(v[i])])
    [] k = "bitmap" -> bitmapOctets(v)
    [] k = "gateway" -> <<v.type, v.algorithm>> \o (IF v.type = 3 THEN packPlain(v.name) ELSE v.address)
    [] k = "host" -> <<Len(v.hit), v.algorithm>> \o PutUint16(Len(v.key)) \o v.hit \o v.key
    [] k = "service" ->
         LET params == svcParamsForMode(v)
         IN PutUint16(v.priority) \o packNameUncompressed(v.target)
              \o FlattenSeq([i \in 1..Len(params) |-> optionOctets(params[i])])

packable(k, v) ==
  CASE k = "zero" -> v = 0
    [] k \in CharacterString -> Len(v) <= 255
    [] k = "name" -> validateWireName(v)
    [] k = "strings" -> \A i \in 1..Len(v) : Len(v[i]) <= 255
    [] k = "names" -> \A i \in 1..Len(v) : validateWireName(v[i])
    [] k = "prefixes" -> \A i \in 1..Len(v) : Len(v[i].address) <= 127
    [] k = "gateway" -> /\ v.type \in 0..3
                        /\ IF v.type = 3 THEN validateWireName(v.name)
                           ELSE Len(v.address) = gatewayLength(v.type)
    [] k = "service" -> validateWireName(LabelsSlice(v.target)) /\ validateSvcParams(svcParamsForMode(v))
    [] OTHER -> TRUE

lengthOf(k, v) ==
  CASE k \in DOMAIN Fixed -> Fixed[k]
    [] k \in Remainder -> Len(v)
    [] k \in CharacterString -> 1 + Len(v)
    [] k = "name" -> WireLength(v)
    [] k = "strings" -> FoldSeq(LAMBDA s, n : n + 1 + Len(s), 0, v)
    [] k = "names" -> FoldSeq(LAMBDA s, n : n + WireLength(s), 0, v)
    [] k = "options" -> FoldSeq(LAMBDA o, n : n + 4 + Len(o.data), 0, v)
    [] k = "prefixes" -> FoldSeq(LAMBDA p, n : n + 4 + Len(p.address), 0, v)
    [] k = "bitmap" -> MapThenSumSet(LAMBDA w : 3 + (Max(bitsOf(v, w)) \div 8),
                                     {t \div 256 : t \in Range(v)})
    [] k = "gateway" -> 2 + (IF v.type = 3 THEN WireLength(v.name) ELSE gatewayLength(v.type))
    [] k = "host" -> 4 + Len(v.hit) + Len(v.key)
    [] k = "service" -> 2 + WireLength(v.target)
                          + FoldSeq(LAMBDA p, n : n + 4 + Len(p.data), 0, svcParamsForMode(v))

packRData(form, data) == FlattenSeq([i \in 1..Len(form) |-> packField(form[i], data[i])])
packsRData(form, data) == \A i \in 1..Len(form) : packable(form[i], data[i])
lenRData(form, data) == FoldSeq(LAMBDA i, n : n + lengthOf(form[i], data[i]), 0,
                                [i \in 1..Len(form) |-> i])

-----------------------------------------------------------------------------
\* Unpack: a field is read from offset at and may not pass end, where the data ends.

read(v, next) == [ok |-> TRUE, v |-> v, next |-> next]
octets(buf, at, n) == SubSeq(buf, at + 1, at + n)
bits7(o) == o % 128
within(r, end) == IF ~r.ok THEN Failed ELSE IF r.next > end THEN Failed ELSE r
prepend(v, rest) == IF rest.ok THEN read(<<v>> \o rest.v, rest.next) ELSE Failed

readFixed(k, buf, at, end) ==
  IF at + Fixed[k] > end THEN Failed
  ELSE LET v == CASE k \in One -> buf[at + 1]
                  [] k \in Two -> Uint16(buf, at)
                  [] k \in Four -> <<Uint16(buf, at), Uint16(buf, at + 2)>>
                  [] OTHER -> octets(buf, at, Fixed[k])
       IN IF k = "zero" /\ v # 0 THEN Failed ELSE read(v, at + Fixed[k])

readCounted(buf, at, end) ==
  IF at >= end \/ at + 1 + buf[at + 1] > end THEN Failed
  ELSE read(octets(buf, at + 1, buf[at + 1]), at + 1 + buf[at + 1])

readName(buf, at, end) == within(UnpackName(buf, at), end)

\* A code and counted octets: an EDNS(0) option or SVCB parameter (16-bit code and
\* count), or a window of a type bit map (8-bit).
readCoded(width, buf, at, end) ==
  IF at + 2 * width > end THEN Failed
  ELSE LET n == IF width = 2 THEN Uint16(buf, at + 2) ELSE buf[at + 2]
           code == IF width = 2 THEN Uint16(buf, at) ELSE buf[at + 1]
       IN IF at + 2 * width + n > end THEN Failed
          ELSE read([code |-> code, data |-> octets(buf, at + 2 * width, n)], at + 2 * width + n)

readPrefix(buf, at, end) ==
  IF at + 4 > end \/ at + 4 + bits7(buf[at + 4]) > end THEN Failed
  ELSE read([family |-> Uint16(buf, at), prefix |-> buf[at + 3], negation |-> buf[at + 4] >= 128,
             address |-> octets(buf, at + 4, bits7(buf[at + 4]))],
            at + 4 + bits7(buf[at + 4]))

readElement(k, buf, at, end) ==
  CASE k = "string" -> readCounted(buf, at, end)
    [] k = "name" -> readName(buf, at, end)
    [] k \in {"option", "param"} -> readCoded(2, buf, at, end)
    [] k = "window" -> readCoded(1, buf, at, end)
    [] k = "prefix" -> readPrefix(buf, at, end)

RECURSIVE readList(_, _, _, _, _)
readList(k, buf, at, end, list) ==
  IF at >= end THEN read(list, at)
  ELSE IF k = "option" /\ Len(list) >= MaxEDNS0Options THEN Failed
  ELSE LET more(r) == IF r.ok THEN readList(k, buf, r.next, end, Append(list, r.v)) ELSE Failed
       IN more(readElement(k, buf, at, end))

readGateway(buf, at, end) ==
  IF at + 2 > end \/ buf[at + 1] > 3 THEN Failed
  ELSE LET type == buf[at + 1]
           gateway(r) ==
             IF ~r.ok THEN Failed
             ELSE read([type |-> type, algorithm |-> buf[at + 2],
                        address |-> IF type = 3 THEN <<>> ELSE r.v,
                        name |-> IF type = 3 THEN r.v ELSE <<>>], r.next)
       IN gateway(IF type = 3 THEN readName(buf, at + 2, end)
                  ELSE IF at + 2 + gatewayLength(type) > end THEN Failed
                  ELSE read(octets(buf, at + 2, gatewayLength(type)), at + 2 + gatewayLength(type)))

readHost(buf, at, end) ==
  IF at + 4 > end THEN Failed
  ELSE LET hit == buf[at + 1]
           key == Uint16(buf, at + 2)
       IN IF at + 4 + hit + key > end THEN Failed
          ELSE read([algorithm |-> buf[at + 2], hit |-> octets(buf, at + 4, hit),
                     key |-> octets(buf, at + 4 + hit, key)], at + 4 + hit + key)

\* Parameters are not validated on reading; those of priority 0 are dropped.
readService(buf, at, end) ==
  IF at + 2 > end THEN Failed
  ELSE LET inMode(s) == [s EXCEPT !.params = svcParamsForMode(s)]
           service(target, params) ==
             IF ~params.ok THEN Failed
             ELSE read(inMode([priority |-> Uint16(buf, at), target |-> target, params |-> params.v]), end)
           after(target) ==
             IF ~target.ok THEN Failed
             ELSE service(target.v, readList("param", buf, target.next, end, <<>>))
       IN after(readName(buf, at + 2, end))

\* old is what the recycled object holds: the strings of TXT and the options of OPT are
\* appended to it, everything else replaces it.
readField(k, buf, at, end, old) ==
  CASE k \in DOMAIN Fixed -> readFixed(k, buf, at, end)
    [] k \in CharacterString -> readCounted(buf, at, end)
    [] k \in Remainder -> IF at > end THEN Failed ELSE read(octets(buf, at, end - at), end)
    [] k = "name" -> readName(buf, at, end)
    [] k \in DOMAIN ListOf ->
         LET typesOf(r) == IF r.ok THEN read(FlattenSeq([i \in 1..Len(r.v) |-> typesOfWindow(r.v[i])]), r.next)
                           ELSE Failed
             elements(r) == IF k = "bitmap" THEN typesOf(r) ELSE r
         IN elements(readList(ListOf[k], buf, at, end, IF k \in {"strings", "options"} THEN old ELSE <<>>))
    [] k = "gateway" -> readGateway(buf, at, end)
    [] k = "host" -> readHost(buf, at, end)
    [] k = "service" -> readService(buf, at, end)

RECURSIVE readFields(_, _, _, _, _, _)
readFields(form, i, buf, at, end, old) ==
  IF i > Len(form) THEN read(<<>>, at)
  ELSE LET after(r) == IF r.ok THEN prepend(r.v, readFields(form, i + 1, buf, r.next, end, old)) ELSE Failed
       IN after(readField(form[i], buf, at, end, old))

\* The minimum CERT, SSHFP and TLSA ask for is that of their fixed fields.
unpackRData(form, buf, at, rdlength, old) ==
  LET exact(r) == IF ~r.ok THEN Failed ELSE IF r.next # at + rdlength THEN Failed ELSE r
  IN IF at + rdlength > Len(buf) THEN Failed ELSE exact(readFields(form, 1, buf, at, at + rdlength, old))
=============================================================================
