------------------------------- MODULE NSECCache -------------------------------
(***************************************************************************)
(* The aggressive use of NSEC records (internal/cache/nsec.go): denials     *)
(* proved by an upstream's answer are kept and answer later queries.        *)
(*                                                                          *)
(* Names are numbers in canonical order.  One signed zone is modelled; its  *)
(* names are an interval that starts at its apex, and names on both sides   *)
(* of it belong to other zones.                                             *)
(***************************************************************************)
EXTENDS Integers, FiniteSets, FiniteSetsExt

CONSTANTS ZoneName,    \* the names of the zone
          Exists,      \* those that exist
          HasType,     \* those that have records of the type that is asked for
          MaxNSEC      \* bound on the records kept; 10000 in the code

ASSUME NSECAssumption == /\ ZoneName \subseteq Int /\ Exists \subseteq ZoneName
                         /\ HasType \subseteq Exists
                         /\ Min(ZoneName) \in Exists
                         /\ Min(ZoneName) + 1 \in ZoneName \ Exists

\* The wildcard below the apex sorts first; no zone with a wildcard is modelled.
Apex == Min(ZoneName)
Wildcard == Apex + 1

\* The authority's record that covers a name: from the existing name before it
\* to the one after it, the last of which leads back to the apex.
Covering(name) ==
  LET owner == Max({x \in Exists : x <= name})
      after == {x \in Exists : x > name}
  IN [owner |-> owner, next |-> IF after = {} THEN Apex ELSE Min(after), has |-> owner \in HasType]

nsecEntryExpiredAt(e, now) == now >= e.expire

\* What expired goes first, then what expires next.
evictToMaxSize(entries, now) ==
  LET fresh == {e \in entries : ~ nsecEntryExpiredAt(e, now)}
      first(S) == {e \in S : \A f \in S : e.expire <= f.expire}
  IN IF Cardinality(fresh) <= MaxNSEC THEN {fresh} ELSE {fresh \ {e} : e \in first(fresh)}

\* The possible contents after the record of an answer is added; it lives as
\* long as the smaller of its TTL and the minimum of the SOA.
AddFromResponse(entries, record, ttl, minimum, now) ==
  LET e == [owner |-> record.owner, next |-> record.next, has |-> record.has,
            expire |-> now + Min({ttl, minimum})]
      all == {f \in entries : f.owner # e.owner} \cup {e}
  IN IF Cardinality(all) > MaxNSEC THEN evictToMaxSize(all, now) ELSE {all}

nameInNSECRangeClosed(name, owner, next) ==
  IF owner < next THEN owner < name /\ name <= next ELSE name > owner \/ name < next
nameInNSECRange(name, owner, next) ==
  IF owner < next THEN owner < name /\ name < next ELSE name > owner \/ name < next

\* The records that deny the name or its type.
denying(entries, name, now) ==
  {e \in entries : /\ ~ nsecEntryExpiredAt(e, now)
                   /\ \/ nameInNSECRange(name, e.owner, e.next)
                      \/ name = e.owner /\ ~ e.has}
================================================================================
