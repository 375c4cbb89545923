------------------------------- MODULE RaftLog -------------------------------
(***************************************************************************)
(* Log replication of internal/cluster/raft: proposals, AppendEntries and  *)
(* InstallSnapshot, the commit index, the write-ahead log and the snapshot *)
(* file, restarts, and the application of committed entries.               *)
(*                                                                         *)
(* Elections are the race-free elections of RaftElection: a campaign is    *)
(* one step and the responses to it are counted where they are granted.    *)
(* The command of an entry is left out: index and term identify an entry.  *)
(* One action is one critical section of a node: the apply loop and         *)
(* takeSnapshot let go of the node's lock between their steps, and a        *)
(* snapshot of the leader may be installed there.  Without disk faults the  *)
(* write-ahead log changes together with the log in memory.                *)
(***************************************************************************)
EXTENDS Integers, FiniteSets, FiniteSetsExt, Sequences, SequencesExt

CONSTANTS Node,         \* the cluster members
          None,         \* votedFor = ""
          Scenarios     \* the scenarios explored, see Scenario

\* What a behaviour is limited to: bounds on terms, on log indices, on the RPCs
\* outstanding at a time and on restarts; the nodes whose election timer ever
\* fires; the nodes that are down throughout; and the nodes whose apply and
\* snapshot loops run.
Scenario == [terms : Nat, indices : Nat, inFlight : Nat, crashes : Nat,
             contenders : SUBSET Node, down : SUBSET Node, integration : SUBSET Node]

ASSUME ConstantsAssumption ==
  /\ None \notin Node
  /\ IsFiniteSet(Node)
  /\ \A s \in Scenarios : s \in Scenario

VARIABLES
  currentTerm, votedFor, state,      \* Node fields; the HardState file agrees
  log,          \* entries after the snapshot
  snap,         \* lastSnapshot, lastSnapshotTerm and snapshotBytes
  commitIndex,
  nextIndex, matchIndex,             \* per peer, used by leaders
  noop,         \* becomeLeader has not proposed its no-op yet
  taking,       \* the snapshot takeSnapshot has begun and not yet installed
  wal,          \* the write-ahead log on disk
  snapFile,     \* the newest snapshot file on disk
  appliedIndex, \* of the integration's apply loop
  store,        \* the entries applied to the zone store, in order
  pending,      \* the entries applyLoop has collected and not yet recorded
  applyMu,      \* the holder of applyMu: applyLoop, takeSnapshot or nobody
  campaign,     \* the last vote request of a node
  asked,        \* the nodes its vote request is on the way to
  granted,      \* the votes granted to it
  msgs,         \* RPCs and responses in flight
  crashes,      \* restarts so far
  scenario,     \* the scenario of this behaviour
  committed,    \* history: the longest log any leader has committed
  slips         \* history: which of Slip has happened

elec  == <<currentTerm, votedFor, state, campaign, asked, granted>>
mem   == <<log, snap, commitIndex>>
peer  == <<nextIndex, matchIndex>>
disk  == <<wal, snapFile>>
sm    == <<appliedIndex, store>>
loops == <<pending, applyMu>>
hist  == <<crashes, committed, slips>>
vars  == <<elec, mem, peer, noop, taking, loops, disk, sm, msgs, hist, scenario>>

MaxTerm  == scenario.terms
MaxIndex == scenario.indices

\* Three things the code does that cost it what it has acknowledged or applied.
\* droppedTail: an installed snapshot discards log entries after it.
\* unsavedSnapshot: a node restarts after installing a snapshot it never wrote
\* to a file.
\* overtaken: a snapshot is installed while applyLoop has entries in hand that it
\* collected before, or between takeSnapshot's reads of the index and the store.
Slip == {"droppedTail", "unsavedSnapshot", "overtaken"}

Entry == [index : 1..MaxIndex, term : 1..MaxTerm]

Log == Seq(Entry)

\* data is what the zone store held when the snapshot was taken.
Snapshot == [index : 0..MaxIndex, term : 0..MaxTerm, data : Log]

noSnapshot == [index |-> 0, term |-> 0, data |-> <<>>]

peers(n) == Node \ {n}

quorumSize == Cardinality(Node) \div 2 + 1

Init ==
  /\ currentTerm = [n \in Node |-> 0]
  /\ votedFor = [n \in Node |-> None]
  /\ state = [n \in Node |-> "Follower"]
  /\ log = [n \in Node |-> <<>>]
  /\ snap = [n \in Node |-> noSnapshot]
  /\ commitIndex = [n \in Node |-> 0]
  /\ nextIndex = [n \in Node |-> [p \in Node |-> 0]]
  /\ matchIndex = [n \in Node |-> [p \in Node |-> 0]]
  /\ noop = [n \in Node |-> FALSE]
  /\ taking = [n \in Node |-> noSnapshot]
  /\ wal = [n \in Node |-> <<>>]
  /\ snapFile = [n \in Node |-> noSnapshot]
  /\ appliedIndex = [n \in Node |-> 0]
  /\ store = [n \in Node |-> <<>>]
  /\ pending = [n \in Node |-> <<>>]
  /\ applyMu = [n \in Node |-> "free"]
  /\ campaign = [n \in Node |-> [term |-> 0, lastIndex |-> 0, lastTerm |-> 0]]
  /\ asked = [n \in Node |-> {}]
  /\ granted = [n \in Node |-> {}]
  /\ msgs = {}
  /\ crashes = 0
  /\ scenario \in Scenarios
  /\ committed = <<>>
  /\ slips = {}

----------------------------------------------------------------------------
(***************************************************************************)
(* Index helpers.  Indices are global, log[n] starts after the snapshot.   *)
(***************************************************************************)

lastIndex(n) == snap[n].index + Len(log[n])

\* The second result of entryTerm.
entryKnown(n, i) == i = 0 \/ i \in snap[n].index..lastIndex(n)

entryTerm(n, i) ==
  IF i = snap[n].index THEN snap[n].term
  ELSE IF i > snap[n].index /\ i <= lastIndex(n) THEN log[n][i - snap[n].index].term
  ELSE 0

lastLogTerm(n) == entryTerm(n, lastIndex(n))

entriesFrom(n, from) ==
  SubSeq(log[n], (IF from <= snap[n].index THEN snap[n].index + 1 ELSE from) - snap[n].index,
         Len(log[n]))

\* Mutant: one entry too many is kept.
truncateFromShort(n, i) == SubSeq(log[n], 1, i - snap[n].index)

\* log[n] without the entries from index i on.
truncateFrom(n, i) ==
  IF i <= snap[n].index + 1 THEN <<>>
  ELSE IF i > lastIndex(n) THEN log[n] ELSE SubSeq(log[n], 1, i - snap[n].index - 1)

\* The write-ahead log rewritten by TruncateAfter and CompactBefore.
TruncateAfter(w, through) == SelectSeq(w, LAMBDA e : e.index <= through)
CompactBefore(w, through) == SelectSeq(w, LAMBDA e : e.index > through)

\* Everything a node holds: the entries inside its snapshot, then its log.
fullLog(n) == snap[n].data \o log[n]

\* Mutant: only the length of the log is compared.
isLogUpToDateByLength(n, lastIdx, lastTerm) == lastIdx >= lastIndex(n)

isLogUpToDate(n, lastIdx, lastTerm) ==
  IF lastTerm # lastLogTerm(n) THEN lastTerm > lastLogTerm(n)
  ELSE lastIdx >= lastIndex(n)

----------------------------------------------------------------------------
(***************************************************************************)
(* Elections.                                                              *)
(***************************************************************************)

\* The election timer fires and runCandidate votes for itself and asks.  The
\* run loop is not back from becomeLeader while its no-op is pending.
campaignStart(n) ==
  /\ n \in scenario.contenders
  /\ state[n] # "Leader" /\ ~noop[n]
  /\ currentTerm[n] < MaxTerm
  /\ currentTerm' = [currentTerm EXCEPT ![n] = @ + 1]
  /\ votedFor' = [votedFor EXCEPT ![n] = n]
  /\ state' = [state EXCEPT ![n] = "Candidate"]
  /\ campaign' = [campaign EXCEPT ![n] = [term      |-> currentTerm[n] + 1,
                                          lastIndex |-> lastIndex(n),
                                          lastTerm  |-> lastLogTerm(n)]]
  /\ asked' = [asked EXCEPT ![n] = peers(n) \ scenario.down]
  /\ granted' = [granted EXCEPT ![n] = {n}]
  /\ UNCHANGED <<mem, peer, noop, taking, loops, disk, sm, msgs, hist>>

\* HandleVoteRequest: an older term.  The answer stops a candidate.
voteStale(n, c) ==
  LET deposed == state[c] = "Candidate" /\ currentTerm[c] = campaign[c].term
  IN /\ campaign[c].term < currentTerm[n]
     /\ currentTerm' = [currentTerm EXCEPT ![c] = IF deposed THEN currentTerm[n] ELSE @]
     /\ votedFor' = [votedFor EXCEPT ![c] = IF deposed THEN None ELSE @]
     /\ state' = [state EXCEPT ![c] = IF deposed THEN "Follower" ELSE @]
     /\ UNCHANGED granted

\* HandleVoteRequest: adopt the term, grant if the log is up to date.
voteAnswered(n, c) ==
  LET req   == campaign[c]
      vote  == IF req.term > currentTerm[n] THEN None ELSE votedFor[n]
      grant == vote \in {None, c} /\ isLogUpToDate(n, req.lastIndex, req.lastTerm)
  IN /\ req.term >= currentTerm[n]
     /\ currentTerm' = [currentTerm EXCEPT ![n] = req.term]
     /\ state' = [state EXCEPT ![n] = IF req.term > currentTerm[n] THEN "Follower" ELSE @]
     /\ votedFor' = [votedFor EXCEPT ![n] = IF grant THEN c ELSE vote]
     /\ granted' = [granted EXCEPT ![c] = IF grant THEN @ \cup {n} ELSE @]

HandleVoteRequest(n, c) ==
  /\ n \in asked[c]
  /\ asked' = [asked EXCEPT ![c] = @ \ {n}]
  /\ voteStale(n, c) \/ voteAnswered(n, c)
  /\ UNCHANGED <<campaign, mem, peer, noop, taking, loops, disk, sm, msgs, hist>>

\* runCandidate has counted a quorum: becomeLeader up to its unlock.
becomeLeader(n) ==
  /\ state[n] = "Candidate"
  /\ campaign[n].term = currentTerm[n]
  /\ Cardinality(granted[n]) >= quorumSize
  /\ state' = [state EXCEPT ![n] = "Leader"]
  /\ nextIndex' = [nextIndex EXCEPT ![n] = [p \in Node |-> lastIndex(n) + 1]]
  /\ matchIndex' = [matchIndex EXCEPT ![n] = [p \in Node |-> 0]]
  /\ noop' = [noop EXCEPT ![n] = TRUE]
  /\ UNCHANGED <<currentTerm, votedFor, campaign, asked, granted, mem, taking, loops, disk,
                 sm, msgs, hist>>

----------------------------------------------------------------------------
(***************************************************************************)
(* Proposals and the commit index.                                         *)
(***************************************************************************)

\* Mutant: entries of earlier terms are committed by counting replicas.
committableAnyTerm(n, newLog, match) ==
  {i \in (commitIndex[n] + 1)..(snap[n].index + Len(newLog)) :
     /\ i > snap[n].index
     /\ Cardinality({p \in peers(n) : match[p] >= i}) + 1 >= quorumSize}

\* The indices maybeAdvanceCommitIndex may move to.
committable(n, newLog, match) ==
  {i \in (commitIndex[n] + 1)..(snap[n].index + Len(newLog)) :
     /\ i > snap[n].index
     /\ newLog[i - snap[n].index].term = currentTerm[n]
     /\ Cardinality({p \in peers(n) : match[p] >= i}) + 1 >= quorumSize}

\* maybeAdvanceCommitIndex with the log and matchIndex the caller has set.
maybeAdvanceCommitIndex(n, newLog, match) ==
  LET new == Max({commitIndex[n]} \cup committable(n, newLog, match))
  IN /\ commitIndex' = [commitIndex EXCEPT ![n] = new]
     /\ committed' = IF new > Len(committed)
                     THEN SubSeq(snap[n].data \o newLog, 1, new) ELSE committed

\* ProposeEntry: append, persist, try to commit.
appendOwn(n) ==
  LET e == [index |-> lastIndex(n) + 1, term |-> currentTerm[n]]
  IN /\ state[n] = "Leader"
     /\ lastIndex(n) < MaxIndex
     /\ log' = [log EXCEPT ![n] = Append(@, e)]
     /\ wal' = [wal EXCEPT ![n] = Append(@, e)]
     /\ maybeAdvanceCommitIndex(n, Append(log[n], e), matchIndex[n])
     /\ UNCHANGED <<elec, snap, peer, taking, loops, snapFile, sm, msgs, crashes, slips>>

\* A client's proposal.
ProposeEntry(n) == appendOwn(n) /\ UNCHANGED noop

\* The no-op at the end of becomeLeader: refused if n has stepped down since,
\* or if it cannot be written.
proposeNoOp(n) ==
  /\ noop[n]
  /\ noop' = [noop EXCEPT ![n] = FALSE]
  /\ \/ appendOwn(n)
     \/ UNCHANGED <<elec, mem, peer, taking, loops, disk, sm, msgs, hist>>

----------------------------------------------------------------------------
(***************************************************************************)
(* Replication.                                                            *)
(***************************************************************************)

\* snapshotInFlight: at most one InstallSnapshot per peer.
snapshotInFlight(n, p) ==
  \E m \in msgs : \/ m.type = "snap" /\ m.from = n /\ m.to = p
                  \/ m.type = "snapResp" /\ m.from = p /\ m.to = n

\* replicateTo: AppendEntries from nextIndex, or InstallSnapshot when the
\* entry before it is inside the snapshot.  Heartbeats start when becomeLeader
\* is over; before that only a proposal of a client sends.
replicateTo(n, p) ==
  LET next == Max({1, nextIndex[n][p]})
      prev == next - 1
  IN /\ state[n] = "Leader"
     /\ p \in peers(n) \ scenario.down
     /\ noop[n] => lastLogTerm(n) = currentTerm[n]
     /\ Cardinality(msgs) < scenario.inFlight
     /\ msgs' = msgs \cup
          IF prev >= snap[n].index /\ entryKnown(n, prev)
          THEN {[type |-> "append", term |-> currentTerm[n], from |-> n, to |-> p,
                 prev |-> prev, prevTerm |-> entryTerm(n, prev),
                 entries |-> entriesFrom(n, next), commit |-> commitIndex[n]]}
          ELSE IF snap[n].index > 0 /\ ~snapshotInFlight(n, p)
          THEN {[type |-> "snap", term |-> currentTerm[n], from |-> n, to |-> p,
                 snap |-> snap[n]]}
          ELSE {}
     /\ UNCHANGED <<elec, mem, peer, noop, taking, loops, disk, sm, hist>>

\* An RPC or a response is lost, or its channel is full.
lose(m) ==
  /\ msgs' = msgs \ {m}
  /\ UNCHANGED <<elec, mem, peer, noop, taking, loops, disk, sm, hist>>

\* The term and role after accepting an RPC of term t; keep tells whether the
\* role survives when the term does not change.
adoptTerm(n, t, keep) ==
  /\ currentTerm' = [currentTerm EXCEPT ![n] = t]
  /\ votedFor' = [votedFor EXCEPT ![n] = IF t > currentTerm[n] THEN None ELSE @]
  /\ state' = [state EXCEPT ![n] = IF keep /\ t = currentTerm[n] THEN @ ELSE "Follower"]
  /\ UNCHANGED <<campaign, asked, granted>>

appendResponse(n, m, t, ok, match) ==
  msgs' = (msgs \ {m}) \cup
    {[type |-> "appendResp", term |-> t, from |-> n, to |-> m.from, ok |-> ok,
      match |-> match]}

\* appendEntriesLocked: an older term.
appendStale(n, m) ==
  /\ m.term < currentTerm[n]
  /\ appendResponse(n, m, currentTerm[n], FALSE, 0)
  /\ UNCHANGED <<elec, mem, disk, committed>>

\* appendEntriesLocked: entries before PrevLogIndex are missing.
appendGap(n, m) ==
  /\ m.term >= currentTerm[n]
  /\ m.prev > lastIndex(n)
  /\ adoptTerm(n, m.term, FALSE)
  /\ appendResponse(n, m, m.term, FALSE, lastIndex(n))
  /\ UNCHANGED <<mem, disk, committed>>

\* appendEntriesLocked: another entry at PrevLogIndex, dropped with its tail.
appendConflict(n, m) ==
  /\ m.term >= currentTerm[n]
  /\ m.prev <= lastIndex(n) /\ m.prev > snap[n].index
  /\ entryTerm(n, m.prev) # m.prevTerm
  /\ adoptTerm(n, m.term, FALSE)
  /\ log' = [log EXCEPT ![n] = truncateFrom(n, m.prev)]
  /\ wal' = [wal EXCEPT ![n] = TruncateAfter(@, m.prev - 1)]
  /\ appendResponse(n, m, m.term, FALSE, m.prev - 1)
  /\ UNCHANGED <<snap, commitIndex, snapFile, committed>>

\* The entries of m that n does not hold: from the first one past its log or
\* of another term.  Those inside the snapshot are skipped.
missing(n, m) ==
  {j \in 1..Len(m.entries) :
     /\ m.prev + j > snap[n].index
     /\ m.prev + j > lastIndex(n) \/ entryTerm(n, m.prev + j) # m.entries[j].term}

\* Mutant: everything after PrevLogIndex is replaced by the entries of m.
reconcileBlindly(n, m) ==
  [log |-> truncateFrom(n, m.prev + 1) \o m.entries,
   wal |-> TruncateAfter(wal[n], m.prev) \o m.entries]

\* Mutant: the entries are not written to disk.
reconcileUnsaved(n, m) ==
  [log |-> IF missing(n, m) = {} THEN log[n]
           ELSE truncateFrom(n, m.prev + Min(missing(n, m))) \o
                  SubSeq(m.entries, Min(missing(n, m)), Len(m.entries)),
   wal |-> wal[n]]

\* The log and write-ahead log once n holds the entries of m.
reconcile(n, m) ==
  IF missing(n, m) = {} THEN [log |-> log[n], wal |-> wal[n]]
  ELSE LET j        == Min(missing(n, m))
           toAppend == SubSeq(m.entries, j, Len(m.entries))
       IN IF m.prev + j <= lastIndex(n)
          THEN [log |-> truncateFrom(n, m.prev + j) \o toAppend,
                wal |-> TruncateAfter(wal[n], m.prev + j - 1) \o toAppend]
          ELSE [log |-> log[n] \o toAppend, wal |-> wal[n] \o toAppend]

\* appendEntriesLocked: PrevLog matches.
appendAccepted(n, m) ==
  LET last == m.prev + Len(m.entries)
      new  == reconcile(n, m)
  IN /\ m.term >= currentTerm[n]
     /\ m.prev <= lastIndex(n)
     /\ m.prev > snap[n].index => entryTerm(n, m.prev) = m.prevTerm
     /\ adoptTerm(n, m.term, FALSE)
     /\ log' = [log EXCEPT ![n] = new.log]
     /\ wal' = [wal EXCEPT ![n] = new.wal]
     /\ commitIndex' = [commitIndex EXCEPT ![n] = Max({@, Min({m.commit, last})})]
     /\ appendResponse(n, m, m.term, TRUE, last)
     /\ UNCHANGED <<snap, snapFile, committed>>

HandleAppendRequest(n, m) ==
  /\ m.type = "append" /\ m.to = n
  /\ appendStale(n, m) \/ appendGap(n, m) \/ appendConflict(n, m) \/ appendAccepted(n, m)
  /\ UNCHANGED <<peer, noop, taking, loops, sm, crashes, slips>>

\* handleAppendResponse: not a leader, or an answer of an earlier term.
responseIgnored(n, m) ==
  /\ state[n] # "Leader" \/ m.term < currentTerm[n]
  /\ UNCHANGED <<elec, commitIndex, peer, committed>>

\* handleAppendResponse: a newer term.
responseDeposes(n, m) ==
  /\ state[n] = "Leader" /\ m.term > currentTerm[n]
  /\ adoptTerm(n, m.term, FALSE)
  /\ UNCHANGED <<commitIndex, peer, committed>>

\* handleAppendResponse: the follower holds the entries up to m.match.
responseMatches(n, m) ==
  LET match == Max({matchIndex[n][m.from], m.match})
  IN /\ state[n] = "Leader" /\ m.term = currentTerm[n] /\ m.ok
     /\ matchIndex' = [matchIndex EXCEPT ![n][m.from] = match]
     /\ nextIndex' = [nextIndex EXCEPT ![n][m.from] = match + 1]
     /\ maybeAdvanceCommitIndex(n, log[n], matchIndex'[n])
     /\ UNCHANGED elec

\* handleAppendResponse: back up to the hint, or by one.
responseBacksUp(n, m) ==
  /\ state[n] = "Leader" /\ m.term = currentTerm[n] /\ ~m.ok
  /\ nextIndex' = [nextIndex EXCEPT ![n][m.from] =
                     IF m.match + 1 < @ THEN m.match + 1 ELSE IF @ > 1 THEN @ - 1 ELSE @]
  /\ UNCHANGED <<elec, commitIndex, matchIndex, committed>>

handleAppendResponse(n, m) ==
  /\ m.type = "appendResp" /\ m.to = n
  /\ msgs' = msgs \ {m}
  /\ \/ responseIgnored(n, m) \/ responseDeposes(n, m)
     \/ responseMatches(n, m) \/ responseBacksUp(n, m)
  /\ UNCHANGED <<log, snap, noop, taking, loops, disk, sm, crashes, slips>>

----------------------------------------------------------------------------
(***************************************************************************)
(* Snapshots.                                                              *)
(***************************************************************************)

\* takeSnapshot: the applied index and its term, under the node's lock.  applyMu
\* is held from here to the copy of the store.
takeSnapshot(n) ==
  /\ n \in scenario.integration
  /\ state[n] = "Leader"
  /\ taking[n] = noSnapshot /\ applyMu[n] = "free"
  /\ appliedIndex[n] > snap[n].index
  /\ entryKnown(n, appliedIndex[n])
  /\ taking' = [taking EXCEPT ![n] = [index |-> appliedIndex[n],
                                       term  |-> entryTerm(n, appliedIndex[n]),
                                       data  |-> <<>>]]
  /\ applyMu' = [applyMu EXCEPT ![n] = "takeSnapshot"]
  /\ UNCHANGED <<elec, mem, peer, noop, pending, disk, sm, msgs, hist>>

\* takeSnapshot: the store as it is by now, and Snapshotter.Save.
captureStore(n) ==
  LET s == [taking[n] EXCEPT !.data = store[n]]
  IN /\ applyMu[n] = "takeSnapshot"
     /\ applyMu' = [applyMu EXCEPT ![n] = "free"]
     /\ taking' = [taking EXCEPT ![n] = s]
     /\ snapFile' = [snapFile EXCEPT ![n] = IF s.index > @.index THEN s ELSE @]
     /\ UNCHANGED <<elec, mem, peer, noop, pending, wal, sm, msgs, hist>>

\* installLeaderSnapshot: drop the prefix from the log and the WAL.
installLeaderSnapshot(n) ==
  LET s == taking[n]
  IN /\ s # noSnapshot /\ applyMu[n] # "takeSnapshot"
     /\ taking' = [taking EXCEPT ![n] = noSnapshot]
     /\ IF s.index <= snap[n].index \/ s.index > lastIndex(n)
        THEN UNCHANGED <<log, snap, wal>>
        ELSE /\ log' = [log EXCEPT ![n] = SubSeq(@, s.index - snap[n].index + 1, Len(@))]
             /\ snap' = [snap EXCEPT ![n] = s]
             /\ wal' = [wal EXCEPT ![n] = CompactBefore(@, s.index)]
     /\ UNCHANGED <<elec, commitIndex, peer, noop, loops, snapFile, sm, msgs, hist>>

snapshotResponse(n, m, t, ok) ==
  msgs' = (msgs \ {m}) \cup
    {[type |-> "snapResp", term |-> t, from |-> n, to |-> m.from, ok |-> ok,
      reqTerm |-> m.term, index |-> m.snap.index]}

\* HandleSnapshotRequest: an older term, or a snapshot n is already past.
snapshotRefused(n, m) ==
  /\ m.term < currentTerm[n]
  /\ snapshotResponse(n, m, currentTerm[n], FALSE)
  /\ UNCHANGED <<elec, mem, disk, sm, slips>>

snapshotOld(n, m) ==
  /\ m.term >= currentTerm[n]
  /\ m.snap.index <= snap[n].index \/ m.snap.index <= commitIndex[n]
  /\ adoptTerm(n, m.term, TRUE)
  /\ snapshotResponse(n, m, m.term, TRUE)
  /\ UNCHANGED <<mem, disk, sm, slips>>

\* Mutant: the applied index is not moved past the snapshot.
snapshotInstalledNoForward(n, m) ==
  /\ m.term >= currentTerm[n]
  /\ m.snap.index > snap[n].index /\ m.snap.index > commitIndex[n]
  /\ adoptTerm(n, m.term, TRUE)
  /\ store' = [store EXCEPT ![n] = m.snap.data]
  /\ snap' = [snap EXCEPT ![n] = m.snap]
  /\ commitIndex' = [commitIndex EXCEPT ![n] = m.snap.index]
  /\ log' = [log EXCEPT ![n] = <<>>]
  /\ wal' = [wal EXCEPT ![n] = CompactBefore(@, m.snap.index)]
  /\ snapshotResponse(n, m, m.term, TRUE)
  /\ UNCHANGED <<appliedIndex, slips, snapFile>>

\* HandleSnapshotRequest: restore the store, drop the log and the WAL prefix.
\* The payload is kept in memory; no snapshot file is written.
snapshotInstalled(n, m) ==
  /\ m.term >= currentTerm[n]
  /\ m.snap.index > snap[n].index /\ m.snap.index > commitIndex[n]
  /\ adoptTerm(n, m.term, TRUE)
  /\ store' = [store EXCEPT ![n] = m.snap.data]
  /\ appliedIndex' = [appliedIndex EXCEPT ![n] = Max({@, m.snap.index})]
  /\ snap' = [snap EXCEPT ![n] = m.snap]
  /\ commitIndex' = [commitIndex EXCEPT ![n] = m.snap.index]
  /\ log' = [log EXCEPT ![n] = <<>>]
  /\ wal' = [wal EXCEPT ![n] = CompactBefore(@, m.snap.index)]
  /\ snapshotResponse(n, m, m.term, TRUE)
  /\ slips' = slips
       \cup (IF lastIndex(n) > m.snap.index THEN {"droppedTail"} ELSE {})
       \cup (IF pending[n] # <<>> \/ applyMu[n] = "takeSnapshot" THEN {"overtaken"} ELSE {})
  /\ UNCHANGED snapFile

HandleSnapshotRequest(n, m) ==
  /\ m.type = "snap" /\ m.to = n
  /\ snapshotRefused(n, m) \/ snapshotOld(n, m) \/ snapshotInstalled(n, m)
  /\ UNCHANGED <<peer, noop, taking, loops, crashes, committed>>

\* sendInstallSnapshot's goroutine: the follower is in a newer term.
snapshotDeposes(n, m) ==
  /\ m.term > currentTerm[n]
  /\ adoptTerm(n, m.term, FALSE)
  /\ UNCHANGED peer

\* Mutant: the next index stays behind the snapshot.
snapshotCountedStuck(n, m) ==
  /\ m.term <= currentTerm[n]
  /\ matchIndex' = [matchIndex EXCEPT ![n][m.from] =
                      IF m.ok /\ state[n] = "Leader" /\ currentTerm[n] = m.reqTerm
                      THEN Max({@, m.index}) ELSE @]
  /\ UNCHANGED <<elec, nextIndex>>

\* sendInstallSnapshot's goroutine: progress of the peer on an acknowledgement.
snapshotCounted(n, m) ==
  /\ m.term <= currentTerm[n]
  /\ IF m.ok /\ state[n] = "Leader" /\ currentTerm[n] = m.reqTerm
     THEN /\ matchIndex' = [matchIndex EXCEPT ![n][m.from] = Max({@, m.index})]
          /\ nextIndex' = [nextIndex EXCEPT ![n][m.from] = Max({@, m.index + 1})]
     ELSE UNCHANGED peer
  /\ UNCHANGED elec

sendInstallSnapshot(n, m) ==
  /\ m.type = "snapResp" /\ m.to = n
  /\ msgs' = msgs \ {m}
  /\ snapshotDeposes(n, m) \/ snapshotCounted(n, m)
  /\ UNCHANGED <<mem, noop, taking, loops, disk, sm, hist>>

----------------------------------------------------------------------------
(***************************************************************************)
(* Application and restarts.                                               *)
(***************************************************************************)


\* applyLoop, under the node's lock: every committed entry after appliedIndex.
collect(n) ==
  LET from == Max({appliedIndex[n], snap[n].index}) - snap[n].index
      to   == Min({commitIndex[n], lastIndex(n)}) - snap[n].index
  IN /\ n \in scenario.integration
     /\ pending[n] = <<>>
     /\ pending' = [pending EXCEPT ![n] = SubSeq(log[n], from + 1, to)]
     /\ pending'[n] # <<>>
     /\ UNCHANGED <<elec, mem, peer, noop, taking, applyMu, disk, sm, msgs, hist>>

\* applyLoop, under applyMu alone: one entry goes to the store.
applyEntry(n) ==
  /\ pending[n] # <<>> /\ applyMu[n] = "free"
  /\ applyMu' = [applyMu EXCEPT ![n] = "applyLoop"]
  /\ store' = [store EXCEPT ![n] = Append(@, Head(pending[n]))]
  /\ UNCHANGED <<elec, mem, peer, noop, taking, pending, appliedIndex, disk, msgs, hist>>

\* applyLoop, under both locks: the entry is recorded, whatever appliedIndex is by
\* now.
recordApplied(n) ==
  /\ applyMu[n] = "applyLoop"
  /\ applyMu' = [applyMu EXCEPT ![n] = "free"]
  /\ appliedIndex' = [appliedIndex EXCEPT ![n] = Head(pending[n]).index]
  /\ pending' = [pending EXCEPT ![n] = Tail(@)]
  /\ UNCHANGED <<elec, mem, peer, noop, taking, store, disk, msgs, hist>>

applyLoop(n) == collect(n) \/ applyEntry(n) \/ recordApplied(n)

\* A crash, then NewNode and bootstrapState: the newest snapshot file, then
\* the entries of the WAL past it.
restart(n) ==
  /\ n \notin scenario.down /\ crashes < scenario.crashes
  /\ crashes' = crashes + 1
  /\ state' = [state EXCEPT ![n] = "Follower"]
  /\ snap' = [snap EXCEPT ![n] = snapFile[n]]
  /\ log' = [log EXCEPT ![n] = CompactBefore(wal[n], snapFile[n].index)]
  /\ commitIndex' = [commitIndex EXCEPT ![n] = snapFile[n].index]
  /\ appliedIndex' = [appliedIndex EXCEPT ![n] = snapFile[n].index]
  /\ store' = [store EXCEPT ![n] = snapFile[n].data]
  /\ nextIndex' = [nextIndex EXCEPT ![n] = [p \in Node |-> 0]]
  /\ matchIndex' = [matchIndex EXCEPT ![n] = [p \in Node |-> 0]]
  /\ noop' = [noop EXCEPT ![n] = FALSE]
  /\ taking' = [taking EXCEPT ![n] = noSnapshot]
  /\ pending' = [pending EXCEPT ![n] = <<>>]
  /\ applyMu' = [applyMu EXCEPT ![n] = "free"]
  /\ msgs' = {m \in msgs : m.to # n}
  /\ slips' = IF snap[n].index > snapFile[n].index
              THEN slips \cup {"unsavedSnapshot"} ELSE slips
  /\ UNCHANGED <<currentTerm, votedFor, campaign, asked, granted, disk, committed>>

receive(n, m) == \/ HandleAppendRequest(n, m) \/ handleAppendResponse(n, m)
                 \/ HandleSnapshotRequest(n, m) \/ sendInstallSnapshot(n, m)

Next ==
  /\ UNCHANGED scenario
  /\ \/ \E n \in Node :
          \/ campaignStart(n) \/ becomeLeader(n)
          \/ ProposeEntry(n) \/ proposeNoOp(n)
          \/ takeSnapshot(n) \/ captureStore(n) \/ installLeaderSnapshot(n)
          \/ applyLoop(n) \/ restart(n)
     \/ \E n, p \in Node : HandleVoteRequest(n, p) \/ replicateTo(n, p)
     \/ \E m \in msgs : lose(m) \/ \E n \in Node : receive(n, m)

Spec == Init /\ [][Next]_vars

\* Heartbeats go on, and the network, however lossy, gets a request to a node whose
\* store is looked at, and a response back, again and again; of the other nodes only
\* that an RPC ends, if by a timeout.  The loops of a process run.
leaders  == UNION {s.contenders : s \in Scenarios}
appliers == UNION {s.integration : s \in Scenarios}

Fairness ==
  /\ WF_vars(UNCHANGED scenario /\ \E n \in Node : proposeNoOp(n))
  /\ WF_vars(UNCHANGED scenario /\ \E n \in Node : applyLoop(n) \/ captureStore(n))
  /\ WF_vars(UNCHANGED scenario /\ \E m \in msgs : lose(m) \/ \E n \in Node : receive(n, m))
  /\ \A n \in leaders : \A p \in appliers \ {n} :
       /\ SF_vars(UNCHANGED scenario /\ replicateTo(n, p))
       /\ SF_vars(UNCHANGED scenario /\ \E m \in msgs : m.from = n /\ receive(p, m))
       /\ SF_vars(UNCHANGED scenario /\ \E m \in msgs : m.from = p /\ receive(n, m))

FairSpec == Spec /\ Fairness

----------------------------------------------------------------------------
(***************************************************************************)
(* Properties.                                                             *)
(***************************************************************************)

Message ==
  [type : {"append"}, term : 1..MaxTerm, from : Node, to : Node, prev : 0..MaxIndex,
   prevTerm : 0..MaxTerm, entries : Log, commit : 0..MaxIndex]
  \cup [type : {"appendResp"}, term : 1..MaxTerm, from : Node, to : Node,
        ok : BOOLEAN, match : 0..MaxIndex]
  \cup [type : {"snap"}, term : 1..MaxTerm, from : Node, to : Node, snap : Snapshot]
  \cup [type : {"snapResp"}, term : 1..MaxTerm, from : Node, to : Node, ok : BOOLEAN,
        reqTerm : 1..MaxTerm, index : 1..MaxIndex]

\* Every variable has its type.
TypeOK ==
  /\ currentTerm \in [Node -> 0..MaxTerm]
  /\ votedFor \in [Node -> Node \cup {None}]
  /\ state \in [Node -> {"Follower", "Candidate", "Leader"}]
  /\ log \in [Node -> Log] /\ wal \in [Node -> Log] /\ store \in [Node -> Log]
  /\ snap \in [Node -> Snapshot] /\ snapFile \in [Node -> Snapshot]
  /\ taking \in [Node -> Snapshot] /\ pending \in [Node -> Log]
  /\ applyMu \in [Node -> {"free", "applyLoop", "takeSnapshot"}]
  /\ commitIndex \in [Node -> 0..MaxIndex] /\ appliedIndex \in [Node -> 0..MaxIndex]
  /\ nextIndex \in [Node -> [Node -> 0..MaxIndex + 1]]
  /\ matchIndex \in [Node -> [Node -> 0..MaxIndex]]
  /\ noop \in [Node -> BOOLEAN]
  /\ campaign \in [Node -> [term : 0..MaxTerm, lastIndex : 0..MaxIndex,
                            lastTerm : 0..MaxTerm]]
  /\ asked \in [Node -> SUBSET Node] /\ granted \in [Node -> SUBSET Node]
  /\ msgs \subseteq Message
  /\ scenario \in Scenarios /\ crashes \in 0..scenario.crashes
  /\ committed \in Log
  /\ slips \subseteq Slip

\* Entries of the same index and term end the same log, in any two nodes
\* (appendEntriesLocked's check of PrevLogIndex and PrevLogTerm).
LogMatching ==
  slips = {} =>
    \A n, p \in Node : \A i \in 1..Min({Len(fullLog(n)), Len(fullLog(p))}) :
      fullLog(n)[i].term = fullLog(p)[i].term =>
        SubSeq(fullLog(n), 1, i) = SubSeq(fullLog(p), 1, i)

\* A leader holds everything committed in its term or before (isLogUpToDate,
\* maybeAdvanceCommitIndex).
LeaderCompleteness ==
  slips = {} /\ committed # <<>> =>
    \A n \in Node :
      state[n] = "Leader" /\ currentTerm[n] >= Last(committed).term =>
        IsPrefix(committed, fullLog(n))

\* The entry applyLoop has put in the store and not yet recorded counts.
applied(n) == appliedIndex[n] + (IF applyMu[n] = "applyLoop" THEN 1 ELSE 0)

\* Every zone store is the result of applying a prefix of one sequence, and
\* appliedIndex says how long a prefix; what a snapshot file says of the store is
\* true of its data (applyLoop, takeSnapshot).
StateMachineSafety ==
  slips = {} =>
    \A n \in Node : /\ IsPrefix(store[n], committed)
                    /\ Len(store[n]) = applied(n)
                    /\ applied(n) <= commitIndex[n]
                    /\ Len(snapFile[n].data) = snapFile[n].index

\* What a restart of n would bring back.
durable(n) == snapFile[n].data \o CompactBefore(wal[n], snapFile[n].index)

\* What n holds on disk, without the snapshot it has installed and not written.
onDisk(n) ==
  IF snap[n].index <= snapFile[n].index THEN durable(n)
  ELSE snap[n].data \o CompactBefore(wal[n], snap[n].index)

\* A leader's matchIndex counts a follower only for entries the follower holds, in
\* memory and on its disk, until a newer term starts there.  On disk the part that
\* an installed snapshot covers is left out: HandleSnapshotRequest does not write
\* it (appendEntriesLocked persists before it acknowledges).
AckedIsHeld ==
  slips = {} =>
    \A n \in Node : \A p \in peers(n) :
      state[n] = "Leader" /\ currentTerm[p] = currentTerm[n] =>
        LET acked == SubSeq(fullLog(n), 1, matchIndex[n][p])
        IN  IsPrefix(acked, fullLog(p)) /\ IsPrefix(acked, onDisk(p))

\* What is committed is on the disks of a quorum, so that it would survive a
\* restart of every node, but for what a node has from a snapshot it installed:
\* HandleSnapshotRequest acknowledges the snapshot, compacts the log up to it and
\* writes it nowhere (ProposeEntry and appendEntriesLocked write the log before
\* they count it or acknowledge it).
CommittedIsDurable ==
  slips = {} => Cardinality({n \in Node : IsPrefix(committed, onDisk(n))}) >= quorumSize

\* The committed entries and the zone stores behave as ReplicatedLog says, until a
\* snapshot overtakes the apply loop.
Promise == INSTANCE ReplicatedLog WITH chosen <- committed,
                                       lapsed <- "overtaken" \in slips


\* Under a leader that stays, every node ends up having applied the whole log
\* of the leader: what is proposed is committed, and a follower that is behind,
\* even behind the snapshot, catches up.  A snapshot that overtakes the apply loop
\* is excepted: the loop then sets appliedIndex back.
Converges ==
  \A n \in leaders :
    <>[](state[n] = "Leader") =>
      []<>(\/ \A p \in scenario.integration : appliedIndex[p] = lastIndex(n)
           \/ "overtaken" \in slips)
=============================================================================
