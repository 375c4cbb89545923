------------------------------- MODULE MCWire -------------------------------
(***************************************************************************)
(* Messages for WireExchange: one for every record type and every way its   *)
(* data can be odd, and messages that exercise sections, compression,       *)
(* truncation, EDNS(0) and the pools.                                       *)
(***************************************************************************)
EXTENDS WireExchange

a == <<97>>
b == <<98>>
Root == <<>>
Host == <<a, b>>
Upper == <<<<65>>, <<66>>>>
Spaced == <<<<97, 32, 97>>, b>>
Dotted == <<<<97, 46>>, b>>
Longest == <<<<97, 97, 97, 97>>, <<98, 98, 98>>, <<99, 99, 99>>>>  \* MaxNameLength octets
TooLong == Append(Longest, a)
ip4 == <<192, 0, 2, 1>>
ip6 == <<32, 1, 0, 0, 0, 0, 0, 0, 0, 0, 0, 0, 0, 0, 0, 1>>
mapped == <<0, 0, 0, 0, 0, 0, 0, 0, 0, 0, 255, 255, 192, 0, 2, 1>>
Key == <<1, 2>>
N0 == <<0, 0>>
N1 == <<1, 65535>>

param(code, data) == [code |-> code, data |-> data]
service(priority, params) == <<[priority |-> priority, target |-> Host, params |-> params]>>
gateway(type, address, name) ==
  <<10, [type |-> type, algorithm |-> 2, address |-> address, name |-> name], Key>>
prefix(family, bits, negation, address) ==
  [family |-> family, prefix |-> bits, negation |-> negation, address |-> address]
host(hit, key) == [algorithm |-> 2, hit |-> hit, key |-> key]
rrsig(type, signer, signature) == <<type, 8, 2, N1, <<2, 3>>, <<1, 3>>, 7, signer, signature>>

\* The data of each type: a plain value first, then what deviates from it.
Samples ==
  [A |-> <<<<ip4>>>>,
   NS |-> <<<<Host>>, <<Upper>>, <<Spaced>>, <<Root>>>>,
   CNAME |-> <<<<Longest>>, <<TooLong>>>>,
   DNAME |-> <<<<Dotted>>, <<<<<<45, 97>>>>>>>>,
   PTR |-> <<<<<<a, <<>>, b>>>>>>,
   AAAA |-> <<<<ip6>>, <<mapped>>>>,
   SOA |-> <<<<Host, Upper, N0, N1, N0, N1, N0>>, <<Spaced, Host, N0, N0, N0, N0, N0>>,
            <<<<<<97, 32, 98, 32, 49, 32, 50, 32, 51, 32, 52, 32, 53, 32, 97>>>>, Host, N0, N0, N0, N0, N0>>>>,
   HINFO |-> <<<<a, <<>>>>, <<<<97, 32, 34, 92>>, b>>, <<<<97, 9>>, b>>>>,
   MX |-> <<<<10, Host>>, <<10, Spaced>>>>,
   TXT |-> <<<<<<a>>>>, <<<<>>>>, <<<<<<>>>>>>, <<<<a, b>>>>, <<<<<<97, 32>>, b>>>>, <<<<<<97, 32>>, <<>>>>>>,
            <<<<<<34, 97>>>>>>, <<<<<<92, 97, 32>>, <<92>>>>>>, <<<<<<97, 9>>>>>>>>,
   RP |-> <<<<Host, Root>>>>,
   AFSDB |-> <<<<1, Host>>, <<1, Spaced>>>>,
   SIG |-> <<rrsig(1, Host, Key)>>,
   KEY |-> <<<<256, 3, 8, Key>>>>,
   LOC |-> <<<<0, 18, 22, 19, <<32769, 5>>, <<32767, 9>>, <<152, 38528>>>>,
            <<0, 0, 160, 31, <<32768, 0>>, <<32768, 0>>, N0>>,
            <<0, 5, 18, 18, <<37711, 55552>>, <<32768, 0>>, N0>>,
            <<0, 18, 18, 18, <<37711, 55553>>, <<65535, 0>>, N0>>,
            <<1, 18, 18, 18, <<32768, 0>>, <<32768, 0>>, N0>>>>,
   SRV |-> <<<<0, 1, 53, Host>>>>,
   NAPTR |-> <<<<1, 2, a, <<>>, <<97, 32>>, Host>>, <<1, 2, a, <<34, 97>>, <<97, 34>>, Root>>,
              <<1, 2, <<92>>, a, b, Root>>>>,
   KX |-> <<<<1, Host>>>>,
   CERT |-> <<<<1, 2, 3, Key>>, <<1, 2, 3, <<>>>>>>,
   APL |-> <<<<<<prefix(1, 24, TRUE, <<192, 0, 2>>), prefix(2, 128, FALSE, ip6)>>>>, <<<<>>>>,
            <<<<prefix(1, 33, FALSE, <<1>>)>>>>, <<<<prefix(1, 8, FALSE, <<10, 0>>)>>>>,
            <<<<prefix(2, 96, FALSE, mapped)>>>>, <<<<prefix(3, 0, FALSE, <<>>)>>>>>>,
   DS |-> <<<<1, 8, 2, Key>>, <<1, 8, 2, <<>>>>>>,
   SSHFP |-> <<<<1, 2, Key>>>>,
   IPSECKEY |-> <<gateway(0, <<>>, Root), gateway(1, ip4, Root), gateway(2, ip6, Root), gateway(2, mapped, Root),
                 gateway(3, <<>>, Host), gateway(3, <<>>, Spaced), gateway(4, <<>>, Root), gateway(1, ip6, Root)>>,
   RRSIG |-> <<rrsig(257, Upper, Key), rrsig(0, Host, Key), rrsig(1, Host, <<>>), rrsig(1, Spaced, Key)>>,
   NSEC |-> <<<<Host, <<1, 46, 47, 257>>>>, <<Upper, <<47, 1, 47, 7>>>>, <<Host, <<>>>>, <<Host, <<0, 1, 32768>>>>>>,
   DNSKEY |-> <<<<257, 3, 13, Key>>>>,
   DHCID |-> <<<<Key>>, <<<<>>>>>>,
   NSEC3 |-> <<<<1, 1, 10, Key, Key, <<1, 46>>>>, <<1, 0, 0, <<>>, Key, <<>>>>, <<1, 0, 0, <<>>, <<>>, <<1>>>>>>,
   NSEC3PARAM |-> <<<<1, 0, 10, Key>>, <<1, 0, 0, <<>>>>>>,
   TLSA |-> <<<<3, 1, 1, Key>>>>,
   HIP |-> <<<<host(Key, Key), <<Host, Root>>>>, <<host(<<>>, Key), <<>>>>, <<host(Key, <<>>), <<Host>>>>>>,
   CDS |-> <<<<0, 0, 0, <<0>>>>>>,
   CDNSKEY |-> <<<<0, 3, 0, <<0>>>>>>,
   OPENPGPKEY |-> <<<<Key>>>>,
   ZONEMD |-> <<<<N1, 1, 1, Key>>>>,
   SVCB |-> <<service(1, <<param(ALPN, <<2, 104, 50>>), param(NoDefaultALPN, <<>>), param(Port, <<1, 187>>)>>),
             service(0, <<param(ALPN, <<1, 97>>)>>),
             service(1, <<param(Mandatory, <<0, 1, 0, 4>>), param(ALPN, <<1, 97>>), param(IPv4Hint, ip4)>>),
             service(1, <<param(Mandatory, <<0, 1>>)>>),
             service(1, <<param(Port, <<1, 187>>), param(ALPN, <<1, 97>>)>>),
             service(1, <<param(NoDefaultALPN, <<>>)>>),
             service(1, <<param(IPv6Hint, ip6), param(DOHPath, <<47, 97>>), param(667, Key)>>),
             service(1, <<param(IPv6Hint, mapped)>>),
             service(1, <<param(DOHPath, <<47, 32, 97>>)>>),
             service(1, <<param(ALPN, <<3, 97, 44, 98>>)>>),
             service(1, <<param(Port, <<1>>)>>)>>,
   HTTPS |-> <<service(1, <<param(ECH, Key), param(668, <<>>)>>)>>,
   SPF |-> <<<<<<a>>>>>>,
   URI |-> <<<<1, 2, <<97, 32>>>>, <<1, 2, <<34, 92>>>>>>,
   CAA |-> <<<<0, a, b>>, <<0, <<>>, <<97, 32>>>>>>,
   TA |-> <<<<1, 8, 2, Key>>>>,
   TSIG |-> <<<<Key>>>>]

question(n) == [name |-> n, type |-> 1, class |-> 1]
record(n, type, data) == [name |-> n, type |-> type, class |-> 1, ttl |-> <<0, 300>>, data |-> data]
address(n) == record(n, 1, <<ip4>>)
flags(on, opcode) == [on |-> on, opcode |-> opcode, rcode |-> 3]
message(q, an, ns, ar) ==
  [id |-> 513, flags |-> flags({"QR", "AA"}, 0), rawBody |-> <<>>, questions |-> q, answers |-> an,
   authorities |-> ns, additionals |-> ar]
answer(type, data) == message(<<question(Host)>>, <<record(Host, type, data)>>, <<>>, <<>>)
option(code) == [code |-> code, data |-> Key]
optWith(options) == [rootOPT(1232, TRUE) EXCEPT !.data = <<options>>]
query(options) == message(<<question(Host)>>, <<>>, <<>>, <<optWith(options)>>)

\* The messages are of different shapes, so they are listed and a scenario is its number.
TypesSampled == ascending({StringToType[t] : t \in DOMAIN Samples})
answersOf(t) == [i \in 1..Len(Samples[TypeString(t)]) |-> answer(t, Samples[TypeString(t)][i])]
SampleAnswers == FlattenSeq([i \in 1..Len(TypesSampled) |-> answersOf(TypesSampled[i])])

c == <<99>>
Nested == <<<<c>>, <<b, c>>, <<a, b, c>>, <<c, a, b, c>>>>
nested(n) == message(<<question(Nested[1])>>, [i \in 1..n |-> address(Nested[i])], <<>>, <<>>)
Sections ==
  <<message(<<question(Host)>>, <<address(Upper), address(<<c, a, b>>)>>, <<record(<<b>>, 2, <<Host>>)>>,
           <<address(Host), rootOPT(1232, TRUE)>>),
   message(<<question(Host), question(Upper)>>, <<>>, <<>>, <<>>),
   message(<<>>, <<>>, <<>>, <<>>),
   message(<<question(Host)>>, <<address(Host), address(Host), address(Host), address(Host)>>, <<>>, <<>>),
   SetEDNS0(message(<<question(Host)>>, <<>>, <<>>, <<address(Host), rootOPT(512, FALSE)>>), 1232, TRUE),
   [message(<<>>, <<>>, <<>>, <<>>) EXCEPT !.flags = flags({"RD", "Z", "CD"}, OpcodeDSO), !.rawBody = Key],
   [message(<<question(Root)>>, <<>>, <<>>, <<>>) EXCEPT !.flags = flags(DOMAIN FlagBits, 15)],
   nested(1), nested(2), nested(3), nested(4)>>

journey(messages, limit, cut_, changes, secondary) ==
  [messages |-> messages, limit |-> limit, cut |-> cut_, changes |-> changes, secondary |-> secondary]
Ample == 512

journeys(ms, limit, cut_, changes, secondary) ==
  [i \in 1..Len(ms) |-> journey(<<ms[i]>>, limit, cut_, changes, secondary)]

Limits == <<20, 36, 52, 68, 84, Ample>>
Limited == FlattenSeq([i \in 1..Len(Limits) |-> journeys(Sections, Limits[i], FALSE, FALSE, FALSE)])
Recycled == <<answer(16, <<<<a>>>>), answer(16, <<<<<<97, 32>>, b>>>>), answer(99, <<<<b>>>>), query(<<option(3)>>),
              query(<<option(3), option(10)>>), query(<<option(3), option(10), option(15)>>)>>
Pooled == [k \in 1..(Len(Recycled) * Len(Recycled)) |->
             journey(<<Recycled[((k - 1) \div Len(Recycled)) + 1], Recycled[((k - 1) % Len(Recycled)) + 1]>>,
                     Ample, FALSE, FALSE, FALSE)]
\* A transfer of a plain record between two of other types.
Neighbours == [i \in 1..Len(SampleAnswers) |->
                 message(<<question(Host)>>, <<address(Host), SampleAnswers[i].answers[1], address(<<c>>)>>, <<>>, <<>>)]
MCScenarios ==
  journeys(SampleAnswers \o Neighbours, Ample, FALSE, FALSE, TRUE)
    \o journeys(SampleAnswers \o Sections, Ample, TRUE, FALSE, FALSE)
    \o journeys(SampleAnswers \o Sections, Ample, FALSE, TRUE, FALSE)
    \o Limited \o Pooled
MCSubstitutes == {0, 1, 3, 64, 193, 255}
=============================================================================
