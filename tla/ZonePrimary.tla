----------------------------- MODULE ZonePrimary -----------------------------
(***************************************************************************)
(* The primary side of zone replication: a zone changed by dynamic updates  *)
(* (internal/transfer/ddns.go) and by the zone manager                      *)
(* (internal/zone/manager.go), the goroutine that journals and persists     *)
(* updates after they were applied (cmd/nothingdns/transfer.go), the IXFR   *)
(* journal in memory and on disk (ixfr.go, kvjournal.go), and the answers   *)
(* to AXFR and IXFR requests (axfr.go, ixfr.go).                            *)
(*                                                                          *)
(* Abstracted: one zone with one owner name; a record is its type and data; *)
(* what a zone holds is how often it holds each record; requests have       *)
(* passed the allow list and TSIG, whose refusals change no state; TTLs and *)
(* the SOA fields other than the serial are left out, and so are additions  *)
(* of SOA records by an update.  The zone keeps an NS record at its apex,   *)
(* which no change here touches.                                            *)
(***************************************************************************)
EXTENDS SerialArithmetic, FiniteSets, SequencesExt

CONSTANTS MaxClients,  \* bound on the goroutines serving UPDATE requests
          MaxXfers,    \* bound on the transfers of the secondary under way
          Data,        \* record data
          Bad,         \* data ValidateRecordData rejects
          None,
          Scenarios    \* the bounds to explore, one of them per behaviour

\* Goroutines are numbered; a new one takes the least number that is free.
Client == 1 .. MaxClients
Xfer == 1 .. MaxXfers

Rec == [type : {"A", "CNAME"}, data : Data]
Content == [Rec -> Nat]
Empty == [r \in Rec |-> 0]
Version == [serial : Serial, recs : Content]

\* An operation of an update, and a prerequisite.
Operation == [op : {"Add", "Delete", "DeleteRRSet", "DeleteName"},
              type : {"A", "CNAME", "ANY"}, data : Data \cup {Bad, None}]
Condition == [cond : {"Exists", "NotExists", "NameInUse", "NameNotInUse", "ExistsValue"},
              type : {"A", "CNAME", "ANY"}, data : Data \cup {None}]
Update == [pre : SUBSET Condition, ops : Seq(Operation)]

\* What the zone manager is asked for: AddRecord, DeleteRecord, UpdateRecord.
Change == [op : {"AddRecord"}, rec : Rec]
          \cup [op : {"DeleteRecord"}, type : {"A", "CNAME"}]
          \cup [op : {"UpdateRecord"}, rec : Rec, new : Rec]

\* Ways in which a secondary can come to hold what the primary never had.
Slip == {"broken", "inexact", "straddled", "torn", "truncated", "overlap", "rolledBack",
         "partial", "unpersisted", "staleFile"}

Scenario == [start : Serial,              \* the serial of the zone file at the first start
             date : Serial,               \* YYYYMMDD00 of today
             updates : SUBSET Update,     \* the updates clients send
             nUpdates : Nat,              \* how many
             clients : Client,            \* how many at a time
             changes : SUBSET Change,     \* the changes of the zone manager
             nChanges : Nat,
             chanSize : Nat,              \* capacity of updateChan
             journalSize : Nat \ {0},     \* maxJournalSize of memory and of the files
             saves : SUBSET {"ok", "fail"},  \* how writing a file may end
             crashes : Nat,               \* crashes of the primary
             packed : BOOLEAN,            \* an IXFR answer is read to its end (see receiveIXFRResponse)
             failures : Nat,              \* connections that fail
             transfers : Xfer,            \* transfers at a time
             maxRetries : Nat,            \* SlaveZoneConfig.MaxRetries
             notifyAllowed : BOOLEAN,     \* the primary is on the NOTIFY allow list
             localSerial : Serial]        \* serial of the secondary's own copy of the zone

ASSUME ScenariosAssumption == \A s \in Scenarios : s.saves # {} /\ s.chanSize > 0
ASSUME NamesAssumption == Bad \notin Data /\ None \notin Data

VARIABLES scenario,
          zone,          \* the served zone
          handlers,      \* UPDATE handler -> how far it is, and its event, or None
          updateChan,    \* events of applied updates
          consumer,      \* processUpdateEvents: where it is, and its event
          apiWriter,     \* the zone manager after a change: what it writes, or None
          journal,       \* the IXFR journal in memory
          journalFiles,  \* and on disk
          file,          \* the zone file
          conn,          \* transfer request -> how far its answer is
          counts,        \* updates, changes, crashes and failures so far
          versions,      \* history: serial -> contents the zone had under it
          consumed,      \* history: the newest serial whose event is dealt with
          slips          \* history: see Slip

primaryVars == <<zone, handlers, updateChan, consumer, apiWriter, journal,
                 journalFiles, file, conn, counts, versions, consumed, slips>>

\* A journal entry.  old is the serial RecordChange is given and drops.
Entry == [old : Serial, serial : Serial, added : Seq(Rec), deleted : Seq(Rec)]
Event == [old : Serial, new : Serial, ops : Seq(Operation)]
RR == [type : {"A", "CNAME", "NS", "SOA"}, data : Data \cup Serial \cup {None}]
SOA(s) == [type |-> "SOA", data |-> s]
NS == [type |-> "NS", data |-> None]

NoConn == [pc |-> "idle", client |-> 0, soa |-> 0, entries |-> <<>>, records |-> <<>>]

primaryInit ==
  /\ scenario \in Scenarios
  /\ zone = [serial |-> scenario.start, recs |-> Empty]
  /\ handlers = [c \in Client |-> None] /\ updateChan = <<>>
  /\ consumer = [pc |-> "range", ev |-> None, text |-> None] /\ apiWriter = None
  /\ journal = <<>> /\ journalFiles = {} /\ file = zone
  /\ conn = [t \in Xfer |-> NoConn]
  /\ counts = [updates |-> 0, changes |-> 0, crashes |-> 0, failures |-> 0]
  /\ versions = [s \in Serial |-> IF s = scenario.start THEN {Empty} ELSE {}]
  /\ consumed = scenario.start /\ slips = {}

Holds(recs, some) == \E r \in some : recs[r] > 0
ofType(t) == {r \in Rec : r.type = t}
IncrementSerial(z, recs) == [serial |-> nextSerial(z.serial, scenario.date), recs |-> recs]
Remember(z) == versions' = [versions EXCEPT ![z.serial] = @ \cup {z.recs}]

(* --------------------------- dynamic updates --------------------------- *)

checkPrerequisiteOnZone(recs, p) ==
  CASE p.cond = "Exists" -> Holds(recs, ofType(p.type))
    [] p.cond = "NotExists" -> ~Holds(recs, ofType(p.type))
    [] p.cond = "NameInUse" -> Holds(recs, Rec)
    [] p.cond = "NameNotInUse" -> ~Holds(recs, Rec)
    [] p.cond = "ExistsValue" ->
         Holds(recs, {r \in ofType(p.type) : p.data = None \/ r.data = p.data})

\* Adding a record: an alias excludes other data and is replaced by an alias,
\* and a record that is there is not added again.
applyAddToZone(recs, r) ==
  LET alias == {x \in Rec : x.type = "CNAME" /\ recs[x] > 0}
      used == \E x \in Rec : recs[x] > 0
  IN  CASE r.type = "CNAME" /\ alias # {} ->
             LET a == CHOOSE x \in alias : TRUE
             IN  [[recs EXCEPT ![a] = @ - 1] EXCEPT ![r] = @ + 1]
        [] r.type = "CNAME" /\ alias = {} /\ used -> recs
        [] r.type # "CNAME" /\ alias # {} -> recs
        [] recs[r] > 0 -> recs
        [] OTHER -> [recs EXCEPT ![r] = 1]

zoneDelete(recs, gone) == [r \in Rec |-> IF r \in gone THEN 0 ELSE recs[r]]

applyOperationToZone(recs, o) ==
  LET record == [type |-> o.type, data |-> o.data]
  IN  CASE o.op = "Add" -> applyAddToZone(recs, record)
        [] o.op = "Delete" -> zoneDelete(recs, {record})
        [] o.op = "DeleteRRSet" -> zoneDelete(recs, ofType(o.type))
        [] o.op = "DeleteName" -> zoneDelete(recs, Rec)

applyOperations(recs, ops) == FoldLeft(applyOperationToZone, recs, ops)

\* The UpdateRequest a handler sends.
eventOf(x) == [old |-> x.old, new |-> x.new, ops |-> x.update.ops]

\* The entry the consumer will journal for an event: what was asked for.  The
\* deletion of a set of records names no data, so that changeToRR drops it.
entryOf(ev) ==
  LET rec(o) == [type |-> o.type, data |-> o.data]
      asked(op) == SelectSeq(ev.ops, LAMBDA o : o.op = op)
      recs(s) == [i \in DOMAIN s |-> rec(s[i])]
  IN  [old |-> ev.old, serial |-> ev.new,
       added |-> recs(asked("Add")), deleted |-> recs(asked("Delete"))]

\* What a secondary makes of an entry: removeZoneRecord, then append.
removeZoneRecord(recs, r) == IF recs[r] > 0 THEN [recs EXCEPT ![r] = @ - 1] ELSE recs
appendRecord(recs, r) == [recs EXCEPT ![r] = @ + 1]
applyEntry(recs, e) ==
  FoldLeft(appendRecord, FoldLeft(removeZoneRecord, recs, e.deleted), e.added)

Least(c, S) == c \in S /\ \A x \in S : c <= x

\* zonesMu keeps other updates out until the new serial is read, but not the
\* zone manager.
zonesMu == {c \in Client : handlers[c] # None /\ handlers[c].pc # "send"}

restOfUpdate == <<updateChan, consumer, apiWriter, journal, journalFiles, file, conn, consumed>>

\* HandleUpdate under the first hold of the zone's lock: the old serial.
readOldSerial(c, u) ==
  /\ zonesMu = {} /\ Least(c, {x \in 1 .. scenario.clients : handlers[x] = None})
  /\ u \in scenario.updates /\ counts.updates < scenario.nUpdates
  /\ counts' = [counts EXCEPT !.updates = @ + 1]
  /\ handlers' = [handlers EXCEPT ![c] = [pc |-> "apply", update |-> u, old |-> zone.serial,
                                          new |-> zone.serial]]
  /\ UNCHANGED <<restOfUpdate, zone, versions, slips>>

\* The prerequisites do not hold: NXRRSET, nothing changes.
updateRefused(c) ==
  /\ \E p \in handlers[c].update.pre : ~checkPrerequisiteOnZone(zone.recs, p)
  /\ handlers' = [handlers EXCEPT ![c] = None]
  /\ UNCHANGED <<zone, versions, slips>>

prerequisitesHold(c) == \A p \in handlers[c].update.pre : checkPrerequisiteOnZone(zone.recs, p)

\* An addition carries data the zone file cannot hold: the operations before
\* it stay applied, and the serial stays as it was.
updateFailed(c) ==
  /\ prerequisitesHold(c)
  /\ LET ops == handlers[c].update.ops
         bad(i) == ops[i].op = "Add" /\ ops[i].data = Bad
     IN  \E i \in DOMAIN ops :
           /\ bad(i) /\ \A j \in 1 .. i - 1 : ~bad(j)
           /\ zone' = [zone EXCEPT !.recs = applyOperations(@, SubSeq(ops, 1, i - 1))]
  /\ slips' = slips \cup (IF zone'.recs = zone.recs THEN {} ELSE {"partial"})
  /\ handlers' = [handlers EXCEPT ![c] = None]
  /\ Remember(zone')

\* Prerequisites, operations and the new serial, under the zone's lock.
updateApplied(c) ==
  LET ops == handlers[c].update.ops
  IN  /\ prerequisitesHold(c)
      /\ \A i \in DOMAIN ops : ~(ops[i].op = "Add" /\ ops[i].data = Bad)
      /\ zone' = IncrementSerial(zone, applyOperations(zone.recs, ops))
      /\ handlers' = [handlers EXCEPT ![c].pc = "serial", ![c].new = zone'.serial]
      /\ slips' = slips
           \cup (IF applyEntry(zone.recs, entryOf(eventOf(handlers[c]))) = zone'.recs
                 THEN {} ELSE {"inexact"})
           \cup (IF zone.serial = handlers[c].old THEN {} ELSE {"straddled"})
      /\ Remember(zone')

\* Its second hold.
ApplyUpdate(c) ==
  /\ handlers[c] # None /\ handlers[c].pc = "apply"
  /\ updateRefused(c) \/ updateFailed(c) \/ updateApplied(c)
  /\ UNCHANGED <<restOfUpdate, counts>>

\* Its third: the new serial is the one the zone has by now.
readNewSerial(c) ==
  /\ handlers[c] # None /\ handlers[c].pc = "serial"
  /\ handlers' = [handlers EXCEPT ![c].pc = "send", ![c].new = zone.serial]
  /\ slips' = slips \cup (IF zone.serial = handlers[c].new THEN {} ELSE {"straddled"})
  /\ UNCHANGED <<restOfUpdate, zone, counts, versions>>

\* The end of HandleUpdate, after the locks are released: the event goes to
\* the channel, or is dropped when it is full.
notifyUpdate(c) ==
  /\ handlers[c] # None /\ handlers[c].pc = "send"
  /\ updateChan' = IF Len(updateChan) < scenario.chanSize
                   THEN Append(updateChan, eventOf(handlers[c])) ELSE updateChan
  /\ handlers' = [handlers EXCEPT ![c] = None]
  /\ UNCHANGED <<zone, consumer, apiWriter, journal, journalFiles, file, conn,
                 counts, versions, consumed, slips>>

(* ------------------ journal and persistence of updates ------------------ *)

\* RecordChange keeps the newest journalSize entries in memory.
RecordChange(e) ==
  LET j == Append(journal, e)
  IN  journal' = SubSeq(j, IF Len(j) > scenario.journalSize
                           THEN Len(j) - scenario.journalSize + 1 ELSE 1, Len(j))

\* The files keep the journalSize numerically largest serials.
trimJournalToLocked(entries) ==
  {e \in entries : Cardinality({x \in entries : x.serial > e.serial}) < scenario.journalSize}

\* One file per serial, replaced by renaming.
SaveEntry(e) ==
  \/ /\ "ok" \in scenario.saves
     /\ journalFiles' = trimJournalToLocked({x \in journalFiles : x.serial # e.serial} \cup {e})
  \/ "fail" \in scenario.saves /\ UNCHANGED journalFiles

LoadEntries == SetToSortSeq(journalFiles, LAMBDA a, b : a.serial < b.serial)

restOfPrimary == <<zone, handlers, apiWriter, conn, counts, versions>>

\* One round of processUpdateEvents: journal in memory, journal on disk, the
\* text of the zone, the zone file.
takeUpdate ==
  /\ consumer.pc = "range" /\ updateChan # <<>>
  /\ consumer' = [pc |-> "save", ev |-> Head(updateChan), text |-> None]
  /\ updateChan' = Tail(updateChan)
  /\ RecordChange(entryOf(Head(updateChan)))
  /\ UNCHANGED <<restOfPrimary, journalFiles, file, consumed, slips>>

saveJournal ==
  /\ consumer.pc = "save"
  /\ SaveEntry(entryOf(consumer.ev))
  /\ consumer' = [consumer EXCEPT !.pc = "persist"]
  /\ UNCHANGED <<restOfPrimary, updateChan, journal, file, consumed, slips>>

readZoneText ==
  /\ consumer.pc = "persist"
  /\ consumer' = [consumer EXCEPT !.pc = "rename", !.text = zone]
  /\ UNCHANGED <<restOfPrimary, updateChan, journal, journalFiles, file, consumed, slips>>

newer(a, b) == IF SerialIsNewer(a, b) THEN a ELSE b

\* writeZoneFile replaces the file by the text read before: fully or not at all.
writeZoneFile(text) ==
  \/ /\ "ok" \in scenario.saves /\ file' = text
     /\ slips' = slips \cup (IF SerialIsNewer(file.serial, text.serial) THEN {"staleFile"} ELSE {})
  \/ /\ "fail" \in scenario.saves /\ UNCHANGED file
     /\ slips' = slips \cup {"unpersisted"}

\* Mutant: the zone file waits for the next change of the zone manager.
persistUpdateLater ==
  /\ consumer.pc = "rename"
  /\ consumed' = newer(consumer.ev.new, consumed)
  /\ consumer' = [pc |-> "range", ev |-> None, text |-> None]
  /\ UNCHANGED <<restOfPrimary, updateChan, journal, journalFiles, file, slips>>

persistUpdate ==
  /\ consumer.pc = "rename"
  /\ writeZoneFile(consumer.text)
  /\ consumed' = newer(consumer.ev.new, consumed)
  /\ consumer' = [pc |-> "range", ev |-> None, text |-> None]
  /\ UNCHANGED <<restOfPrimary, updateChan, journal, journalFiles>>

processUpdateEvents == takeUpdate \/ saveJournal \/ readZoneText \/ persistUpdate

(* ---------------------------- zone manager ---------------------------- *)

\* AddRecord appends, DeleteRecord drops a type that is there, UpdateRecord
\* replaces a record that is there.
changed(recs, ch) ==
  CASE ch.op = "AddRecord" -> appendRecord(recs, ch.rec)
    [] ch.op = "DeleteRecord" -> zoneDelete(recs, ofType(ch.type))
    [] ch.op = "UpdateRecord" -> appendRecord(removeZoneRecord(recs, ch.rec), ch.new)

applicable(recs, ch) ==
  CASE ch.op = "AddRecord" -> TRUE
    [] ch.op = "DeleteRecord" -> Holds(recs, ofType(ch.type))
    [] ch.op = "UpdateRecord" -> recs[ch.rec] > 0

\* A change through the zone manager: no journal entry is written for it.
changeRecords(ch) ==
  /\ apiWriter = None /\ counts.changes < scenario.nChanges
  /\ ch \in scenario.changes /\ applicable(zone.recs, ch)
  /\ counts' = [counts EXCEPT !.changes = @ + 1]
  /\ zone' = IncrementSerial(zone, changed(zone.recs, ch))
  /\ apiWriter' = [pc |-> "write", text |-> None]
  /\ Remember(zone')
  /\ UNCHANGED <<handlers, updateChan, consumer, journal, journalFiles, file,
                 conn, consumed, slips>>

\* and its zone file, after the zone's lock is released.
persistChange ==
  /\ apiWriter # None
  /\ \/ /\ apiWriter.pc = "write"
        /\ apiWriter' = [pc |-> "rename", text |-> zone]
        /\ UNCHANGED <<file, slips>>
     \/ /\ apiWriter.pc = "rename"
        /\ writeZoneFile(apiWriter.text)
        /\ apiWriter' = None
  /\ UNCHANGED <<zone, handlers, updateChan, consumer, journal, journalFiles,
                 conn, counts, versions, consumed>>

(* ------------------------- answers to requests ------------------------- *)

serveOnly == <<zone, handlers, updateChan, consumer, apiWriter, journalFiles,
               file, counts, versions, consumed>>

\* HandleIXFR: a client that is not behind gets the SOA record alone.
HandleIXFR(t) ==
  /\ conn[t].pc = "ixfr"
  /\ conn' = [conn EXCEPT ![t] =
                IF SerialIsNewer(zone.serial, @.client)
                THEN [@ EXCEPT !.pc = "journal"]
                ELSE [@ EXCEPT !.pc = "ready", !.records = <<SOA(zone.serial)>>]]
  /\ UNCHANGED <<serveOnly, journal, slips>>

\* The first entry newer than the client, and the only test that the journal
\* covers the client: it is skipped when that is the first entry of all.
startIdx(j, client) ==
  LET later == {i \in DOMAIN j : SerialIsNewer(j[i].serial, client)}
  IN  IF later = {} THEN 0 ELSE CHOOSE i \in later : \A k \in later : i <= k
journalCovers(j, client) ==
  LET i == startIdx(j, client) IN i > 0 /\ (i > 1 => j[i - 1].serial = client)

\* generateIncrementalIXFR, up to the entries it uses: an empty journal is
\* loaded from disk; without a suitable one the answer is a full transfer.
lookupJournal(t) ==
  /\ conn[t].pc = "journal"
  /\ journal' = IF journal = <<>> THEN LoadEntries ELSE journal
  /\ LET client == conn[t].client
     IN  conn' = IF journalCovers(journal', client)
                 THEN [conn EXCEPT ![t].pc = "ixfrSOA",
                                   ![t].entries = SubSeq(journal', startIdx(journal', client),
                                                         Len(journal'))]
                 ELSE [conn EXCEPT ![t].pc = "axfr"]
  /\ UNCHANGED <<serveOnly, slips>>

\* (old SOA, deletions, new SOA, additions) of entry i.
diffBlock(client, entries, i) ==
  <<SOA(IF i = 1 THEN client ELSE entries[i - 1].serial)>> \o entries[i].deleted
  \o <<SOA(entries[i].serial)>> \o entries[i].added

\* The entries lead from the client's serial to soa without a gap.
unbroken(client, entries, soa) ==
  /\ entries[1].old = client /\ Last(entries).serial = soa
  /\ \A i \in 2 .. Len(entries) : entries[i].old = entries[i - 1].serial

\* and the rest of it, with the SOA as it is by now.
generateIncrementalIXFR(t) ==
  /\ conn[t].pc = "ixfrSOA"
  /\ LET c == conn[t]
         blocks == [i \in DOMAIN c.entries |-> diffBlock(c.client, c.entries, i)]
     IN  /\ conn' = [conn EXCEPT ![t] =
                       [@ EXCEPT !.pc = "ready", !.soa = zone.serial,
                                 !.records = <<SOA(zone.serial)>> \o FlattenSeq(blocks)
                                             \o <<SOA(zone.serial)>>]]
         /\ slips' = slips \cup (IF unbroken(c.client, c.entries, zone.serial)
                                 THEN {} ELSE {"broken"})
  /\ UNCHANGED <<serveOnly, journal>>

\* Mutant: the SOA record of an AXFR is that of the zone file.
axfrSOAOfFile(t) ==
  /\ conn[t].pc = "axfr"
  /\ conn' = [conn EXCEPT ![t].pc = "axfrRecords", ![t].soa = file.serial]
  /\ UNCHANGED <<serveOnly, journal, slips>>

\* generateAXFRRecords: the SOA record is built before the zone's lock is
\* taken for the other records.
axfrSOA(t) ==
  /\ conn[t].pc = "axfr"
  /\ conn' = [conn EXCEPT ![t].pc = "axfrRecords", ![t].soa = zone.serial]
  /\ UNCHANGED <<serveOnly, journal, slips>>

recordSeq(recs) ==
  LET most == Max({recs[r] : r \in Rec} \cup {1})
      all == {x \in Rec \X (1 .. most) : x[2] <= recs[x[1]]}
      s == SetToSeq(all)
  IN  [i \in DOMAIN s |-> s[i][1]]

generateAXFRRecords(t) ==
  /\ conn[t].pc = "axfrRecords"
  /\ conn' = [conn EXCEPT ![t].pc = "ready",
                          ![t].records = <<SOA(conn[t].soa), NS>> \o recordSeq(zone.recs)
                                         \o <<SOA(conn[t].soa)>>]
  /\ slips' = slips \cup (IF zone.serial = conn[t].soa THEN {} ELSE {"torn"})
  /\ UNCHANGED <<serveOnly, journal>>

serve(t) == \/ HandleIXFR(t) \/ lookupJournal(t) \/ generateIncrementalIXFR(t)
            \/ axfrSOA(t) \/ generateAXFRRecords(t)

(* ------------------------------- crashes ------------------------------- *)

\* The process dies and starts again from the zone file; the journal in
\* memory starts empty and open connections break.
Crash ==
  /\ counts.crashes < scenario.crashes
  /\ counts' = [counts EXCEPT !.crashes = @ + 1]
  /\ zone' = file
  /\ slips' = slips \cup (IF zone = file THEN {} ELSE {"rolledBack"})
  /\ handlers' = [c \in Client |-> None] /\ updateChan' = <<>>
  /\ consumer' = [pc |-> "range", ev |-> None, text |-> None] /\ apiWriter' = None
  /\ journal' = <<>>
  /\ conn' = [t \in Xfer |-> IF conn[t].pc = "idle" THEN conn[t]
                             ELSE [NoConn EXCEPT !.pc = "broken"]]
  /\ UNCHANGED <<journalFiles, file, versions, consumed>>

HandleUpdate(c) == \/ \E u \in scenario.updates : readOldSerial(c, u)
                   \/ ApplyUpdate(c) \/ readNewSerial(c) \/ notifyUpdate(c)

changeStep == \/ \E c \in Client : HandleUpdate(c)
              \/ \E ch \in scenario.changes : changeRecords(ch)

primaryStep == \/ changeStep \/ processUpdateEvents \/ persistChange
               \/ \E t \in Xfer : serve(t)
               \/ Crash
=============================================================================
