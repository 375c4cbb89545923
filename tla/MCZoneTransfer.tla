---------------------------- MODULE MCZoneTransfer ----------------------------
\* One zone, two UPDATE handlers and two transfer goroutines.
EXTENDS ZoneTransfer, TLC

CONSTANTS d1, d2

TwoData == {d1, d2}

A(d) == [type |-> "A", data |-> d]
op(o, t, d) == [op |-> o, type |-> t, data |-> d]
update(ops) == [pre |-> {}, ops |-> ops]
add(d) == update(<<op("Add", "A", d)>>)
del(d) == update(<<op("Delete", "A", d)>>)

\* Nothing happens but what the fields that are replaced allow.
Still == [start |-> 1, date |-> 0, updates |-> {}, nUpdates |-> 0, clients |-> 1,
          changes |-> {}, nChanges |-> 0, chanSize |-> 2, journalSize |-> 2,
          saves |-> {"ok"}, crashes |-> 0, packed |-> TRUE, failures |-> 0, transfers |-> 1,
          maxRetries |-> 0, notifyAllowed |-> TRUE, localSerial |-> 1]
\* (A NOTIFY is acted on when its serial is newer than localSerial.)

with(pre, ops) == [pre |-> pre, ops |-> ops]
has(t) == [cond |-> "Exists", type |-> t, data |-> None]
lacks(t) == [cond |-> "NotExists", type |-> t, data |-> None]
hasValue(t, d) == [cond |-> "ExistsValue", type |-> t, data |-> d]
InUse == [cond |-> "NameInUse", type |-> "ANY", data |-> None]
NotInUse == [cond |-> "NameNotInUse", type |-> "ANY", data |-> None]

\* Updates whose journal entries say what they did, as the channel drops some,
\* two handlers send out of order, and the journal is longer or shorter than
\* the distance to the secondary.
Replicating == {[Still EXCEPT !.updates = {add(d1), del(d1)}, !.nUpdates = 2, !.localSerial = 2],
                [Still EXCEPT !.updates = {add(d1)}, !.nUpdates = 2, !.clients = 2, !.chanSize = 1,
                              !.journalSize = 1, !.localSerial = 2]}

\* A day begins, and the serials wrap.
Wrapping == {[Still EXCEPT !.updates = {add(d1)}, !.nUpdates = 3, !.start = 6, !.date = 7, !.localSerial = 6]}

\* Every kind of operation and prerequisite.
Editing == {[Still EXCEPT !.updates = updates, !.nUpdates = 2, !.localSerial = 2] :
              updates \in {{with({lacks("A")}, <<op("Add", "CNAME", d1), op("Add", "CNAME", d2)>>),
                            with({has("CNAME"), InUse}, <<op("Add", "A", d1), op("Delete", "CNAME", d2)>>),
                            with({hasValue("CNAME", d2)}, <<op("DeleteRRSet", "CNAME", None)>>)},
                           {with({NotInUse}, <<op("Add", "A", d1), op("Add", "A", Bad)>>),
                            with({}, <<op("DeleteName", "ANY", None), op("Add", "A", d2)>>)}}}

\* Connections fail, and so do writes.
Failing == {[Still EXCEPT !.updates = {add(d1)}, !.nUpdates = 1, !.failures = 3, !.maxRetries = 1,
                          !.saves = {"ok", "fail"}],
            [Still EXCEPT !.failures = 2, !.packed = FALSE]}

\* The primary crashes.
Crashing == {[Still EXCEPT !.updates = {add(d1)}, !.nUpdates = 2, !.crashes = 1, !.localSerial = 2]}

\* The zone manager changes the zone as well.
Managing == {[Still EXCEPT !.updates = {add(d1)}, !.nUpdates = 1, !.nChanges = 1,
                           !.localSerial = 2, !.changes = {[op |-> "AddRecord", rec |-> A(d2)],
                                                             [op |-> "DeleteRecord", type |-> "A"],
                                                             [op |-> "UpdateRecord", rec |-> A(d1), new |-> A(d2)]}],
             [Still EXCEPT !.updates = {add(d1)}, !.nUpdates = 1, !.nChanges = 1, !.crashes = 1,
                           !.changes = {[op |-> "AddRecord", rec |-> A(d2)]},
                           !.notifyAllowed = FALSE]}

\* Two transfers overlap.
Overlapping == {[Still EXCEPT !.updates = {add(d1)}, !.nUpdates = 1, !.transfers = 2]}

\* The primary sends its answers record by record.
Unpacked == {[Still EXCEPT !.updates = {add(d1)}, !.nUpdates = 2, !.packed = FALSE]}

\* A journal shorter than the distance to the client.
Trimmed == {[Still EXCEPT !.updates = {add(d1)}, !.nUpdates = 2, !.journalSize = 1]}

All == Replicating \cup Wrapping \cup Editing \cup Failing \cup Crashing \cup Managing
       \cup Overlapping \cup Unpacked \cup Trimmed
===============================================================================
