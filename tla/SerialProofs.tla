----------------------------- MODULE SerialProofs -----------------------------
(***************************************************************************)
(* The order of RFC 1982 and the serial of a changed zone, for a serial     *)
(* space of any size (manager.go computes in 32 bits).                      *)
(***************************************************************************)
EXTENDS SerialArithmetic, TLAPS

\* Counting past the largest serial starts at 0 (uint32 addition).
LEMMA Increment ==
  ASSUME NEW s \in Serial
  PROVE  SerialIncrement(s) = IF s = SerialSpace - 1 THEN 0 ELSE s + 1
<1>1. CASE s = SerialSpace - 1
  <2>1. SerialSpace \in Nat /\ SerialSpace > 0
    BY HalfRangeAssumption DEF SerialSpace
  <2>2. SerialSpace % SerialSpace = 0
    BY <2>1
  <2> QED BY <1>1, <2>1, <2>2 DEF SerialIncrement
<1>2. CASE s # SerialSpace - 1
  <2>1. SerialSpace \in Nat /\ s + 1 \in Nat /\ s + 1 < SerialSpace /\ SerialSpace > 0
    BY <1>2, HalfRangeAssumption DEF Serial, SerialSpace
  <2>2. (s + 1) % SerialSpace = s + 1
    BY <2>1
  <2> QED BY <1>2, <2>2 DEF SerialIncrement
<1> QED BY <1>1, <1>2

\* Of two serials at most one is newer: a primary and a secondary can never
\* both find the other behind (SerialIsNewer).
THEOREM NewerIsAsymmetric ==
  ASSUME NEW s1 \in Serial, NEW s2 \in Serial, SerialIsNewer(s1, s2)
  PROVE  ~SerialIsNewer(s2, s1) /\ s1 # s2
BY HalfRangeAssumption DEF SerialIsNewer, Serial, SerialSpace

\* Serials that differ are ordered, except two that are half the space apart.
THEOREM NewerIsTotal ==
  ASSUME NEW s1 \in Serial, NEW s2 \in Serial, s1 # s2,
         s1 - s2 # SerialHalfRange, s2 - s1 # SerialHalfRange
  PROVE  SerialIsNewer(s1, s2) \/ SerialIsNewer(s2, s1)
BY HalfRangeAssumption DEF SerialIsNewer, Serial, SerialSpace

\* The successor of a serial is newer, also where the count wraps.
THEOREM IncrementIsNewer ==
  ASSUME NEW s \in Serial
  PROVE  SerialIncrement(s) \in Serial /\ SerialIsNewer(SerialIncrement(s), s)
BY Increment, HalfRangeAssumption DEF SerialIsNewer, Serial, SerialSpace

\* IncrementSerial leaves a zone with a newer serial than before, so that a
\* secondary that holds the old version will take the new one.  The one case
\* without this guarantee: the first serial of the day is half the space
\* ahead of the zone's.
THEOREM NextSerialIsNewer ==
  ASSUME NEW s \in Serial, NEW date \in Serial,
         date - s # SerialHalfRange - 1, s - date # SerialHalfRange + 1
  PROVE  nextSerial(s, date) \in Serial /\ SerialIsNewer(nextSerial(s, date), s)
<1>1. CASE SerialIsNewer(date, s)
  <2>1. nextSerial(s, date) = IF date = SerialSpace - 1 THEN 0 ELSE date + 1
    BY <1>1, Increment DEF nextSerial
  <2> QED BY <1>1, <2>1, HalfRangeAssumption DEF SerialIsNewer, Serial, SerialSpace
<1>2. CASE ~SerialIsNewer(date, s)
  BY <1>2, IncrementIsNewer DEF nextSerial
<1> QED BY <1>1, <1>2
===============================================================================
