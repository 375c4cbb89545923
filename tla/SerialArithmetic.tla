--------------------------- MODULE SerialArithmetic ---------------------------
(***************************************************************************)
(* Serial numbers of a zone's SOA record, as internal/zone/manager.go and   *)
(* internal/transfer/errors.go compare and increment them (RFC 1982).  The  *)
(* code computes in uint32; the size of the space is a parameter here.      *)
(***************************************************************************)
EXTENDS Integers

CONSTANT SerialHalfRange   \* 2^31 in the code

ASSUME HalfRangeAssumption == SerialHalfRange \in Nat /\ SerialHalfRange >= 2

SerialSpace == 2 * SerialHalfRange
Serial == 0 .. SerialSpace - 1

\* s1 is newer than s2.  Two serials half the space apart are not ordered.
SerialIsNewer(s1, s2) == \/ s1 > s2 /\ s1 - s2 < SerialHalfRange
                         \/ s1 < s2 /\ s2 - s1 > SerialHalfRange

SerialIncrement(s) == (s + 1) % SerialSpace

\* The next serial of a zone: the first one of the day (YYYYMMDD00 + 1) when
\* that is ahead, the successor otherwise.
nextSerial(s, datePrefix) ==
  IF SerialIsNewer(datePrefix, s) THEN SerialIncrement(datePrefix) ELSE SerialIncrement(s)
===============================================================================
