------------------------------ MODULE WireNames ------------------------------
(***************************************************************************)
(* Domain names as internal/protocol/labels.go reads and writes them.       *)
(*                                                                          *)
(* A name is a sequence of labels and a label a sequence of octets; the     *)
(* root is the empty sequence.  A buffer is a sequence of octets, addressed *)
(* from 0 as in the code: the octet at offset o is buf[o + 1].  A read      *)
(* gives a record with ok and, when ok holds, the value and the offset      *)
(* after it.                                                                *)
(*                                                                          *)
(* The limits are constants, so that small names meet them.  maxLabels is   *)
(* left out: 127 labels take 255 octets, so no name that MaxNameLength      *)
(* allows has more.                                                         *)
(***************************************************************************)
EXTENDS Integers, Sequences, FiniteSets, SequencesExt, FiniteSetsExt

CONSTANTS MaxLabelLength,     \* 63
          MaxNameLength,      \* 255
          MaxPointerDepth,    \* 5
          PointerOffsetMask   \* 0x3FFF: the first offset no pointer is made to

ASSUME LimitsAssumption ==
  /\ MaxLabelLength \in 1..63
  /\ MaxNameLength \in 1..255
  /\ MaxPointerDepth \in Nat
  /\ PointerOffsetMask \in 1..16383

\* The elements of a finite set of numbers, in order.
ascending(S) ==
  [i \in 1..Cardinality(S) |-> CHOOSE x \in S : Cardinality({y \in S : y < x}) = i - 1]

Octet == 0..255
Failed == [ok |-> FALSE]

\* ASCII only, as toLower: strings.EqualFold agrees with it on ASCII labels.
toLower(o) == IF o \in 65..90 THEN o + 32 ELSE o
lower(s) == [i \in 1..Len(s) |-> toLower(s[i])]
lowerName(n) == [i \in 1..Len(n) |-> lower(n[i])]

Uint16(buf, at) == buf[at + 1] * 256 + buf[at + 2]
PutUint16(v) == <<v \div 256, v % 256>>

\* The octets of labels without the root label that ends a name.
labelOctets(labels) == FlattenSeq([i \in 1..Len(labels) |-> <<Len(labels[i])>> \o labels[i]])
canonicalWireFromLabels(labels) == Append(labelOctets(labels), 0)
WireLength(n) == 1 + FoldSeq(LAMBDA l, sum : sum + 1 + Len(l), 0, n)

\* validateWireName.  A label of length zero inside a name ends the scan before the
\* end of the wire form, so it is refused here although ParseName lets it through.
validateWireName(n) ==
  /\ WireLength(n) <= MaxNameLength
  /\ \A i \in 1..Len(n) : Len(n[i]) \in 1..MaxLabelLength

\* The labels forEachWireLabel visits: those before the first empty one.
LabelsSlice(n) ==
  LET empty == {i \in 1..Len(n) : n[i] = <<>>}
  IN IF empty = {} THEN n ELSE SubSeq(n, 1, Min(empty) - 1)

-----------------------------------------------------------------------------
\* Presentation form: octets, with the labels joined by dots and none escaped.

Dot == 46
presentationFromWire(n) ==
  LET labels == LabelsSlice(n)
  IN IF labels = <<>> THEN <<Dot>>
     ELSE FlattenSeq([i \in 1..Len(labels) |-> labels[i] \o <<Dot>>])

\* strings.Split and strings.Fields on octets.
splitAt(s, seps) ==
  LET cuts == {0, Len(s) + 1} \cup {i \in 1..Len(s) : s[i] \in seps}
      starts == ascending(cuts \ {Len(s) + 1})
  IN [j \in 1..Len(starts) |->
        SubSeq(s, starts[j] + 1, Min({c \in cuts : c > starts[j]}) - 1)]

validLabelChar(c) == c \in (97..122) \cup (65..90) \cup (48..57) \cup {45, 95, 42}
ValidateLabel(l) ==
  /\ Len(l) <= MaxLabelLength
  /\ \A i \in 1..Len(l) : validLabelChar(l[i])
  /\ l # <<>> => l[1] # 45 /\ l[Len(l)] # 45

ParseName(text) ==
  LET body == IF text # <<>> /\ text[Len(text)] = Dot THEN Front(text) ELSE text
      labels == splitAt(body, {Dot})
  IN IF body = <<>> THEN [ok |-> TRUE, v |-> <<>>]
     ELSE IF WireLength(labels) <= MaxNameLength /\ \A i \in 1..Len(labels) : ValidateLabel(labels[i])
     THEN [ok |-> TRUE, v |-> labels]
     ELSE Failed

-----------------------------------------------------------------------------
\* Compression.  A table maps the folded suffixes already written to their offsets.

NoTable == [s \in {} |-> 0]
suffix(n, i) == SubSeq(n, i, Len(n))
wireSuffixKey(n, i) == lowerName(suffix(n, i))
pointTo(o) == PutUint16(49152 + o)

\* PackName with a compression table, at offset at.  The longest suffix that a pointer
\* reaches is replaced by one; the labels before it are written as they are and their
\* suffixes registered, unless the table has them at an offset no pointer reaches.
PackName(n, at, table) ==
  LET reached == {i \in 1..Len(n) : /\ wireSuffixKey(n, i) \in DOMAIN table
                                    /\ table[wireSuffixKey(n, i)] < PointerOffsetMask}
      first == IF reached = {} THEN Len(n) + 1 ELSE Min(reached)
      offsetOf(i) == at + Len(labelOctets(SubSeq(n, 1, i - 1)))
      new == {i \in 1..(first - 1) : wireSuffixKey(n, i) \notin DOMAIN table}
      keys == {wireSuffixKey(n, i) : i \in new}
  IN [octets |-> labelOctets(SubSeq(n, 1, first - 1))
                   \o (IF reached = {} THEN <<0>> ELSE pointTo(table[wireSuffixKey(n, first)])),
      table |-> [k \in DOMAIN table \cup keys |->
                   IF k \in keys THEN offsetOf(CHOOSE i \in new : wireSuffixKey(n, i) = k)
                   ELSE table[k]]]

\* PackName without a table: what the record data uses.  packNameUncompressed, which
\* SVCB uses, walks the labels instead and stops at an empty one.
packPlain(n) == canonicalWireFromLabels(lowerName(n))
packNameUncompressed(n) == packPlain(LabelsSlice(n))

\* UnpackName from offset o, after depth pointers and with the labels read so far.
continueAt(r, next) == IF r.ok THEN [r EXCEPT !.next = next] ELSE Failed
RECURSIVE labelsFrom(_, _, _, _)
labelsFrom(buf, o, depth, labels) ==
  IF o >= Len(buf) THEN Failed
  ELSE LET b == buf[o + 1] IN
    IF b >= 192
    THEN IF o + 2 > Len(buf) THEN Failed
         ELSE LET pointer == Uint16(buf, o) % 16384
              IN IF pointer >= Len(buf) \/ pointer >= o \/ depth >= MaxPointerDepth THEN Failed
                 ELSE continueAt(labelsFrom(buf, pointer, depth + 1, labels), o + 2)
    ELSE IF b = 0 THEN [ok |-> TRUE, v |-> labels, next |-> o + 1]
    ELSE IF \/ b > MaxLabelLength
            \/ o + 1 + b > Len(buf)
            \/ WireLength(labels) + 1 + b > MaxNameLength
    THEN Failed
    ELSE labelsFrom(buf, o + 1 + b, depth, Append(labels, SubSeq(buf, o + 2, o + 1 + b)))

UnpackName(buf, o) == labelsFrom(buf, o, 0, <<>>)
=============================================================================
