------------------------------ MODULE ZoneFile ------------------------------
(***************************************************************************)
(* Master files: the parser of internal/zone/zone.go and loadZoneFile of   *)
(* cmd/nothingdns/main.go.                                                 *)
(*                                                                         *)
(* A file is a sequence of lines, a line [ind, toks] says whether it       *)
(* starts with white space and which fields it holds (comments are gone).  *)
(* A field is [k, v]: "name" (v = [abs, ls], the labels most specific      *)
(* first, abs if it was written with the final dot; "@" has no labels),    *)
(* "ttl" (v = number and unit), "class", "type", "text", the parentheses   *)
(* "(" and ")", a directive "$ORIGIN", "$TTL", "$INCLUDE", "$GENERATE", a  *)
(* "range" of $GENERATE, or "junk".                                        *)
(*                                                                         *)
(* The parser keeps the owner and the RData of a record as written; only   *)
(* the key a record is filed under is made absolute.  That is modelled,    *)
(* because what is later built from the raw forms depends on it.           *)
(***************************************************************************)
EXTENDS Naturals, Sequences, SequencesExt, FiniteSets, FiniteSetsExt, TLC

CONSTANTS MaxIncludeDepth,     \* 10 in the code
          MaxGenerateRecords,  \* 65536 in the code
          MaxTTL               \* 2^32 - 1 in the code

Root == <<>>

Apex == [abs |-> FALSE, ls |-> <<>>]

makeAbsolute(name, origin) == IF name.abs THEN name.ls ELSE name.ls \o origin

\* canonicalize appends the final dot: a relative name is read as absolute.
canonicalize(name) == name.ls

TTLUnit == [s |-> 1, m |-> 60, h |-> 3600, d |-> 86400, w |-> 604800]

\* The value of a TTL field, or MaxTTL + 1 where parseTTL returns an error.
parseTTL(f) ==
    IF f.k # "ttl" \/ (f.k = "ttl" /\ f.v.n > MaxTTL \div TTLUnit[f.v.unit])
    THEN MaxTTL + 1 ELSE f.v.n * TTLUnit[f.v.unit]

IsTTL(f) == parseTTL(f) <= MaxTTL

NewParser == [origin |-> Root, dttl |-> 0, recs |-> <<>>, soa |-> <<>>,
              ns |-> <<>>, last |-> Apex, paren |-> 0, buf |-> <<>>,
              ind |-> FALSE, err |-> "none"]

Fail(p, why) == [p EXCEPT !.err = why]

\* SOA: mname rname serial refresh retry expire minimum.
parseSOA(p, name, rec) ==
    LET d == rec.data IN
    IF Len(d) < 7 THEN Fail(p, "SOA fields")
    ELSE IF d[3].k # "ttl" \/ \E i \in 4..7 : ~IsTTL(d[i]) THEN Fail(p, "SOA number")
    ELSE [p EXCEPT !.soa = <<[name |-> name, ttl |-> rec.ttl,
                              mname |-> makeAbsolute(d[1].v, p.origin),
                              serial |-> d[3].v.n, minimum |-> parseTTL(d[7])]>>]

handleSpecialRecord(p, name, rec) ==
    CASE rec.type = "SOA" -> parseSOA(p, name, rec)
      [] rec.type = "NS" /\ rec.data # <<>> ->
            [p EXCEPT !.ns = Append(@, makeAbsolute(rec.data[1].v, p.origin))]
      [] OTHER -> p

\* One record: the fields of its line or lines, and whether its first line was
\* indented, so that the owner is the previous record's.
parseRecordOwned(p, toks, inherited) ==
    LET fields == SelectSeq(toks, LAMBDA f : f.k \notin {"(", ")"})
        owner  == IF inherited THEN p.last ELSE fields[1].v
        rest   == IF inherited THEN fields ELSE Tail(fields)
        types  == {i \in DOMAIN rest : rest[i].k = "type"}
        at     == Min(types)
        ttls   == {i \in 1..(at - 1) : IsTTL(rest[i])}
        name   == makeAbsolute(owner, p.origin)
        rec    == [name |-> name, raw |-> owner, type |-> rest[at].v,
                   ttl  |-> IF ttls = {} THEN p.dttl ELSE parseTTL(rest[Max(ttls)]),
                   data |-> SubSeq(rest, at + 1, Len(rest))]
        owned  == [p EXCEPT !.last = owner]
    IN  CASE fields = <<>> -> p
          [] Len(fields) = 1 -> Fail(p, "invalid record format")
          [] Len(fields) > 1 /\ types = {} -> Fail(owned, "missing record type")
          [] OTHER -> handleSpecialRecord([owned EXCEPT !.recs = Append(@, rec)], name, rec)

\* The element of a singleton; binding a value this way has TLC compute it once.
Only(S) == CHOOSE x \in S : TRUE

\* Every "$" label or text of the template is the iteration's number.
expandGenerate(template, i) ==
    [j \in DOMAIN template |->
        LET f == template[j] IN
        CASE f.k = "name" -> [f EXCEPT !.v.ls = [l \in DOMAIN @ |->
                                                   IF @[l] = "$" THEN ToString(i) ELSE @[l]]]
          [] f.k = "text" /\ f.v = "$" -> [f EXCEPT !.v = ToString(i)]
          [] OTHER -> f]

RECURSIVE generateFrom(_, _, _, _)
generateFrom(p, template, range, i) ==
    IF i > range.stop \/ p.err # "none" THEN p
    ELSE Only({generateFrom(q, template, range, i + range.step) :
                 q \in {parseRecordOwned(p, expandGenerate(template, i), FALSE)}})

parseGenerateRange(f) == f.k = "range" /\ f.v.step > 0 /\ f.v.start <= f.v.stop

handleGenerate(p, args) ==
    IF Len(args) < 4 THEN Fail(p, "$GENERATE arguments")
    ELSE IF ~parseGenerateRange(args[1]) THEN Fail(p, "$GENERATE range")
    ELSE LET range == args[1].v IN
         IF (range.stop - range.start) \div range.step + 1 > MaxGenerateRecords
         THEN Fail(p, "$GENERATE too large")
         ELSE generateFrom(p, Tail(args), range, range.start)

RECURSIVE parse(_, _, _, _)

\* The child parser shares the zone and starts from the parent's last owner; the
\* origin is restored when it is done, whatever the file did to it.
handleInclude(fs, p, depth, args) ==
    LET file  == IF args = <<>> THEN "" ELSE args[1].v
        child == [p EXCEPT !.origin = IF Len(args) > 1 THEN canonicalize(args[2].v) ELSE @,
                           !.paren = 0, !.buf = <<>>, !.ind = FALSE]
        done  == parse(fs, child, fs[file].lines, depth + 1)
    IN  CASE args = <<>> -> Fail(p, "$INCLUDE filename")
          [] args # <<>> /\ depth >= MaxIncludeDepth -> Fail(p, "$INCLUDE depth")
          [] args # <<>> /\ depth < MaxIncludeDepth /\ file \notin DOMAIN fs ->
                Fail(p, "$INCLUDE open")
          [] args # <<>> /\ depth < MaxIncludeDepth /\ file \in DOMAIN fs ->
                IF fs[file].kind # "file" THEN Fail(p, "$INCLUDE not a local file")
                ELSE [done EXCEPT !.origin = p.origin, !.last = p.last]

handleControl(fs, p, depth, toks) ==
    LET directive == toks[1].k
        args      == Tail(toks)
    IN  CASE directive = "$ORIGIN" ->
                IF args = <<>> THEN Fail(p, "$ORIGIN name")
                ELSE [p EXCEPT !.origin = canonicalize(args[1].v)]
          [] directive = "$TTL" ->
                IF args = <<>> \/ (args # <<>> /\ ~IsTTL(args[1])) THEN Fail(p, "$TTL value")
                ELSE [p EXCEPT !.dttl = parseTTL(args[1])]
          [] directive = "$GENERATE" -> handleGenerate(p, args)
          [] directive = "$INCLUDE"  -> handleInclude(fs, p, depth, args)
          [] OTHER -> Fail(p, "unknown directive")

Directives == {"$ORIGIN", "$TTL", "$GENERATE", "$INCLUDE", "$UNKNOWN"}

Count(toks, k) == Len(SelectSeq(toks, LAMBDA f : f.k = k))

\* One line of the scanner loop.
parseLine(fs, p, line, depth) ==
    LET toks  == line.toks
        buf   == p.buf \o toks
        paren == p.paren + Count(toks, "(")
        still == paren > Count(toks, ")")
    IN  CASE toks = <<>> -> p
          [] toks # <<>> /\ p.paren > 0 ->
                IF still THEN [p EXCEPT !.buf = buf, !.paren = paren - Count(toks, ")")]
                ELSE parseRecordOwned([p EXCEPT !.buf = <<>>, !.paren = 0], buf, p.ind)
          [] toks # <<>> /\ p.paren = 0 /\ toks[1].k \in Directives ->
                handleControl(fs, p, depth, toks)
          [] toks # <<>> /\ p.paren = 0 /\ toks[1].k \notin Directives ->
                IF Count(toks, "(") > 0 /\ Count(toks, ")") = 0
                THEN [p EXCEPT !.paren = 1, !.buf = toks, !.ind = line.ind]
                ELSE parseRecordOwned(p, toks, line.ind)

parse(fs, p, lines, depth) ==
    IF p.err # "none" THEN p
    ELSE IF lines = <<>>
         THEN IF p.paren > 0 THEN Fail(p, "unclosed parenthesis") ELSE p
         ELSE Only({parse(fs, q, Tail(lines), depth) : q \in {parseLine(fs, p, Head(lines), depth)}})

NoZone == [file |-> "", origin |-> Root, dttl |-> 0, recs |-> <<>>, soa |-> <<>>, ok |-> FALSE]

\* Zone.Validate: an origin, an SOA and some NS record.
Validate(p) == p.origin # Root /\ p.soa # <<>> /\ p.ns # <<>>

\* The zone of a file, or NoZone where loadZoneFile returns an error.
loadZoneFile(fs, file) ==
    IF file \notin DOMAIN fs THEN NoZone
    ELSE Only({IF p.err = "none" /\ Validate(p)
               THEN [file |-> file, origin |-> p.origin, dttl |-> p.dttl, recs |-> p.recs,
                     soa |-> p.soa, ok |-> TRUE]
               ELSE NoZone : p \in {parse(fs, NewParser, fs[file].lines, 0)}})
=============================================================================
