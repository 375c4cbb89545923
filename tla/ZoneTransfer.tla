----------------------------- MODULE ZoneTransfer -----------------------------
(***************************************************************************)
(* A secondary replicating the zone of ZonePrimary: NOTIFY messages         *)
(* (internal/transfer/notify.go), their way through two channels            *)
(* (cmd/nothingdns/transfer.go) to the slave manager, and its transfer      *)
(* goroutines with their retries (slave.go, and the clients of ixfr.go and  *)
(* axfr.go).                                                                *)
(*                                                                          *)
(* Every transfer is a goroutine of its own; nothing keeps two of them for  *)
(* the same zone apart.  The two reads of the last serial at the start of a *)
(* transfer are one step.                                                   *)
(***************************************************************************)
EXTENDS ZonePrimary

VARIABLES slave,       \* SlaveZone: Zone and LastSerial, and its retries
          xfer,        \* transfer goroutine -> where it is and what it carries
          notifyChan,  \* NOTIFYSlaveHandler's channel
          slaveChan,   \* SlaveManager's channel
          gaveUp       \* history: a chain of retries reached MaxRetries

secondaryVars == <<slave, xfer, notifyChan, slaveChan, gaveUp>>
vars == <<scenario, primaryVars, secondaryVars>>

\* Bound on each notify channel; 100 in the code.
NotifyCap == 1

\* goal is history: the serial of the primary when the transfer began.
NoXfer == [pc |-> "idle", goal |-> 0, records |-> <<>>, result |-> None]

TypeOK ==
  /\ scenario \in Scenarios
  /\ zone \in Version /\ file \in Version
  /\ handlers \in [Client -> [pc : {"apply", "serial", "send"}, update : Update,
                             old : Serial, new : Serial] \cup {None}]
  /\ updateChan \in Seq(Event) /\ Len(updateChan) <= scenario.chanSize
  /\ consumer \in [pc : {"range", "save", "persist", "rename"},
                   ev : Event \cup {None}, text : Version \cup {None}]
  /\ apiWriter \in [pc : {"write", "rename"}, text : Version \cup {None}] \cup {None}
  /\ journal \in Seq(Entry) /\ Len(journal) <= scenario.journalSize
  /\ journalFiles \subseteq Entry /\ Cardinality(journalFiles) <= scenario.journalSize
  /\ \A a, b \in journalFiles : a.serial = b.serial => a = b
  /\ conn \in [Xfer -> [pc : {"idle", "ixfr", "journal", "ixfrSOA", "axfr",
                              "axfrRecords", "ready", "broken"},
                        client : Serial, soa : Serial, entries : Seq(Entry), records : Seq(RR)]]
  /\ slave \in [serial : Serial, recs : Content, retries : Nat]
  /\ xfer \in [Xfer -> [pc : {"idle", "start", "ixfr", "axfr", "apply", "publish", "failed", "retry"},
                        goal : Serial, records : Seq(RR), result : Version \cup {None}]]
  /\ gaveUp \in BOOLEAN
  /\ notifyChan \in Seq(Serial) /\ slaveChan \in Seq(Serial)
  /\ Len(notifyChan) <= NotifyCap /\ Len(slaveChan) <= NotifyCap
  /\ slips \subseteq Slip /\ consumed \in Serial

\* AddSlaveZone starts the first transfer.
Init ==
  /\ primaryInit
  /\ slave = [serial |-> 0, recs |-> Empty, retries |-> 0]
  /\ xfer = [t \in Xfer |-> IF t = 1 THEN [NoXfer EXCEPT !.pc = "start"] ELSE NoXfer]
  /\ notifyChan = <<>> /\ slaveChan = <<>> /\ gaveUp = FALSE

(* -------------------------------- NOTIFY -------------------------------- *)

offer(ch, s) == IF Len(ch) < NotifyCap THEN Append(ch, s) ELSE ch

\* A NOTIFY for a serial the zone has had arrives: late, again, or never.  It is
\* compared with the copy of the zone the secondary serves, which transfers
\* never change.
HandleNOTIFY(s) ==
  /\ scenario.notifyAllowed /\ versions[s] # {}
  /\ notifyChan' = LET serial == IF s = 0 THEN scenario.localSerial ELSE s
                   IN  IF SerialIsNewer(serial, scenario.localSerial)
                       THEN offer(notifyChan, serial) ELSE notifyChan
  /\ UNCHANGED <<primaryVars, slave, xfer, slaveChan, gaveUp>>

processNotifyEvents ==
  /\ notifyChan # <<>>
  /\ notifyChan' = Tail(notifyChan)
  /\ slaveChan' = offer(slaveChan, Head(notifyChan))
  /\ UNCHANGED <<primaryVars, slave, xfer, gaveUp>>

\* The listener starts a transfer when the serial is newer than the last one.
handleNotify ==
  /\ slaveChan # <<>>
  /\ slaveChan' = Tail(slaveChan)
  /\ IF SerialIsNewer(Head(slaveChan), slave.serial)
     THEN \E t \in Xfer :
            /\ Least(t, {x \in 1 .. scenario.transfers : xfer[x].pc = "idle"})
            /\ xfer' = [xfer EXCEPT ![t] = [NoXfer EXCEPT !.pc = "start"]]
            /\ slips' = slips \cup (IF \E x \in Xfer : xfer[x].pc # "idle" THEN {"overlap"} ELSE {})
     ELSE UNCHANGED <<xfer, slips>>
  /\ UNCHANGED <<zone, handlers, updateChan, consumer, apiWriter, journal, journalFiles,
                 file, conn, counts, versions, consumed, slave, notifyChan, gaveUp>>

(* ------------------------------- transfers ------------------------------ *)

primaryButConn == <<zone, handlers, updateChan, consumer, apiWriter, journal,
                    journalFiles, file, versions, consumed, slips>>
quietNotify == <<notifyChan, slaveChan>>

request(t, kind) ==
  conn' = [conn EXCEPT ![t] = [NoConn EXCEPT !.pc = kind, !.client = slave.serial]]

\* performZoneTransfer: IXFR from the last serial, AXFR when there is none.
performZoneTransfer(t) ==
  /\ xfer[t].pc = "start"
  /\ LET kind == IF slave.serial > 0 THEN "ixfr" ELSE "axfr"
     IN  /\ request(t, kind)
         /\ xfer' = [xfer EXCEPT ![t] = [NoXfer EXCEPT !.pc = kind, !.goal = zone.serial]]
  /\ UNCHANGED <<primaryButConn, counts, slave, quietNotify, gaveUp>>

soas(records) == {i \in DOMAIN records : records[i].type = "SOA"}

\* receiveIXFRResponse.  A message that is one SOA record ends the transfer
\* once two SOA records have come; otherwise it ends with the connection.
\* handleIXFR sends one record per message; a primary that packs records into
\* messages, or a secondary that reads on, gets the whole answer.
\* The result is empty when it ends before the second SOA record.
receiveIXFRResponse(records) ==
  LET second == {i \in soas(records) : Cardinality({k \in soas(records) : k <= i}) = 2}
  IN  IF second = {} THEN <<>>
      ELSE IF scenario.packed THEN records
      ELSE SubSeq(records, 1, CHOOSE i \in second : TRUE)

\* An IXFR that fails is followed by an AXFR of the same goroutine.
performIXFR(t) ==
  /\ xfer[t].pc = "ixfr" /\ conn[t].pc \in {"ready", "broken"}
  /\ LET records == receiveIXFRResponse(conn[t].records)
     IN  IF conn[t].pc = "ready" /\ records # <<>>
         THEN /\ xfer' = [xfer EXCEPT ![t].pc = "apply", ![t].records = records]
              /\ conn' = [conn EXCEPT ![t] = NoConn]
              /\ slips' = slips \cup (IF records = conn[t].records THEN {} ELSE {"truncated"})
         ELSE /\ xfer' = [xfer EXCEPT ![t].pc = "axfr"]
              /\ request(t, "axfr")
              /\ UNCHANGED slips
  /\ UNCHANGED <<zone, handlers, updateChan, consumer, apiWriter, journal, journalFiles,
                 file, versions, consumed, counts, slave, quietNotify, gaveUp>>

performAXFR(t) ==
  /\ xfer[t].pc = "axfr" /\ conn[t].pc \in {"ready", "broken"}
  /\ xfer' = [xfer EXCEPT ![t] =
                IF conn[t].pc = "ready"
                THEN [@ EXCEPT !.pc = "apply", !.records = conn[t].records]
                ELSE [@ EXCEPT !.pc = "failed"]]
  /\ conn' = [conn EXCEPT ![t] = NoConn]
  /\ UNCHANGED <<primaryButConn, counts, slave, quietNotify, gaveUp>>

\* The connection fails or times out.
connectionFails(t) ==
  /\ conn[t].pc \notin {"idle", "broken"} /\ counts.failures < scenario.failures
  /\ counts' = [counts EXCEPT !.failures = @ + 1]
  /\ conn' = [conn EXCEPT ![t] = [NoConn EXCEPT !.pc = "broken"]]
  /\ UNCHANGED <<primaryButConn, secondaryVars>>

\* Mutant: every SOA record opens a section of deletions.
walkDiffDeleting(acc, rr) ==
  IF rr.type = "SOA" THEN [acc EXCEPT !.deleting = TRUE]
  ELSE [acc EXCEPT !.recs = IF acc.deleting THEN removeZoneRecord(@, rr) ELSE appendRecord(@, rr)]

\* applyIncrementalIXFR: each SOA record between the first and the last one
\* switches between deletions and additions.
walkDiff(acc, rr) ==
  IF rr.type = "SOA" THEN [acc EXCEPT !.deleting = ~@]
  ELSE [acc EXCEPT !.recs = IF acc.deleting THEN removeZoneRecord(@, rr) ELSE appendRecord(@, rr)]
applyIncrementalIXFR(base, records) ==
  FoldLeft(walkDiff, [recs |-> base, deleting |-> FALSE],
           SubSeq(records, 2, Len(records) - 1)).recs

applyFullZone(records) ==
  FoldLeft(appendRecord, Empty, SelectSeq(records, LAMBDA rr : rr.type \notin {"SOA", "NS"}))

\* applyTransferredZone, up to the new zone: the base of a diff is the zone
\* the goroutine finds now, whatever serial it asked from.
applyTransferredZone(t) ==
  /\ xfer[t].pc = "apply"
  /\ LET records == xfer[t].records
         recs == IF Len(records) = 1 THEN slave.recs
                 ELSE IF records[2].type = "SOA" THEN applyIncrementalIXFR(slave.recs, records)
                 ELSE applyFullZone(records)
     IN  xfer' = [xfer EXCEPT ![t] = [@ EXCEPT !.pc = "publish", !.records = <<>>,
                                        !.result = [serial |-> records[1].data, recs |-> recs]]]
  /\ UNCHANGED <<primaryVars, slave, quietNotify, gaveUp>>

UpdateZone(t) ==
  /\ xfer[t].pc = "publish"
  /\ slave' = [serial |-> xfer[t].result.serial, recs |-> xfer[t].result.recs, retries |-> 0]
  /\ xfer' = [xfer EXCEPT ![t] = NoXfer]
  /\ UNCHANGED <<primaryVars, quietNotify, gaveUp>>

\* scheduleRetry: give up after MaxRetries failures in a row, else wait.
scheduleRetry(t) ==
  /\ xfer[t].pc = "failed"
  /\ slave' = [slave EXCEPT !.retries = @ + 1]
  /\ IF scenario.maxRetries > 0 /\ slave'.retries > scenario.maxRetries
     THEN xfer' = [xfer EXCEPT ![t] = NoXfer] /\ gaveUp' = TRUE
     ELSE xfer' = [xfer EXCEPT ![t] = [NoXfer EXCEPT !.pc = "retry"]] /\ UNCHANGED gaveUp
  /\ UNCHANGED <<primaryVars, quietNotify>>

\* Mutant: a MaxRetries of 0 allows no retry.
retryTimerLimited(t) ==
  /\ xfer[t].pc = "retry" /\ slave.retries <= scenario.maxRetries
  /\ xfer' = [xfer EXCEPT ![t].pc = "start"]
  /\ UNCHANGED <<primaryVars, slave, quietNotify, gaveUp>>

retryTimer(t) ==
  /\ xfer[t].pc = "retry"
  /\ xfer' = [xfer EXCEPT ![t].pc = "start"]
  /\ UNCHANGED <<primaryVars, slave, quietNotify, gaveUp>>

transfer(t) == \/ performZoneTransfer(t) \/ performIXFR(t) \/ performAXFR(t)
               \/ applyTransferredZone(t) \/ UpdateZone(t)
               \/ scheduleRetry(t) \/ retryTimer(t)

step == \/ primaryStep /\ UNCHANGED secondaryVars
        \/ processNotifyEvents \/ handleNotify
        \/ \E s \in Serial : HandleNOTIFY(s)
        \/ \E t \in Xfer : transfer(t) \/ connectionFails(t)

Next == step /\ UNCHANGED scenario

Spec == Init /\ [][Next]_vars

(***************************************************************************)
(* Liveness needs the goroutines of the primary's connections and of the    *)
(* secondary's transfers to keep running, and its timers to fire.           *)
(***************************************************************************)
Fairness == \A t \in Xfer : /\ WF_vars(serve(t) /\ UNCHANGED <<scenario, secondaryVars>>)
                            /\ WF_vars(transfer(t) /\ UNCHANGED scenario)

FairSpec == Spec /\ Fairness

(* ------------------------------ properties ------------------------------ *)

\* What the secondary holds under a serial is what the primary held under it
\* (UpdateZone after applyTransferredZone).
HoldsVersion == \/ slave.serial = 0 /\ slave.recs = Empty
                \/ slave.recs \in versions[slave.serial]

\* It is, as long as none of these has happened: an incremental answer with a
\* gap, an update journaled as something else than it did, or under serials that
\* a change of the zone manager lies between (HandleUpdate reads them under locks
\* of their own), an AXFR whose SOA and records are of two versions, an
\* incremental answer read only in part, two transfers at once, a primary that
\* lost updates in a crash, an update that failed half way.
HoldsVersionUnlessSlip ==
  slips \cap {"broken", "inexact", "straddled", "torn", "truncated", "overlap", "rolledBack",
              "partial"} = {}
    => HoldsVersion

\* The serial of the secondary does not go back in the order of RFC 1982,
\* unless transfers overlap or the primary itself went back.
SerialNeverFalls ==
  [][ slave.serial # 0 /\ SerialIsNewer(slave.serial, slave'.serial)
        => slips \cap {"overlap", "rolledBack"} # {} ]_vars

\* An update that processUpdateEvents is done with is still served after a
\* crash, unless a file could not be written or an older text of the zone was
\* renamed over a newer one.
ConsumedSurvives ==
  slips \cap {"unpersisted", "staleFile"} = {} => ~SerialIsNewer(consumed, zone.serial)

\* and every transfer ends, through failures and retries: it publishes, or
\* gives up at MaxRetries.
TransferEnds == \A t \in Xfer : xfer[t].pc # "idle" ~> xfer[t].pc = "idle"
===============================================================================
