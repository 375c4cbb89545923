------------------------- MODULE RaftElectionTypes -------------------------
(***************************************************************************)
(* Every step of RaftElection keeps its type invariant.                    *)
(***************************************************************************)
EXTENDS RaftElection, TLAPS

MsgKind == {"vote", "voteResp", "append", "appendResp", "snap", "snapResp"}

\* A message a node of the cluster builds is a message.
LEMMA MsgType ==
  ASSUME TypeOK,
         NEW type \in MsgKind, NEW t \in Nat, NEW n \in Node, NEW p \in Node,
         NEW rnd \in Nat, NEW g \in BOOLEAN
  PROVE  Msg(type, t, n, p, rnd, g) \in Message
<1>1. inc[n] \in Nat
  BY ConstantsAssumption DEF TypeOK
<1> QED
  BY <1>1 DEF Msg, Message, MsgKind

\* The fields of a message in flight.
LEMMA MsgFields ==
  ASSUME TypeOK, NEW m \in msgs
  PROVE  /\ m \in Message /\ m.type \in MsgKind /\ m.term \in Nat
         /\ m.from \in Node /\ m.to \in Node /\ m.round \in Nat
         /\ m.granted \in BOOLEAN /\ m.inc \in Nat
BY DEF TypeOK, Message, MsgKind

\* An answer keeps msgs a set of messages.
LEMMA ReplyType ==
  ASSUME TypeOK, NEW m \in msgs, NEW resp \in Message, Reply(m, resp)
  PROVE  msgs' \subseteq Message
BY DEF TypeOK, Reply

\* The fields of a node after a term advance that worked or failed.
NodeTypes ==
  /\ hard \in [Node -> HardState] /\ state \in [Node -> State]
  /\ currentTerm \in [Node -> Nat] /\ votedFor \in [Node -> Node \cup {None}]

\* advanceTermLocked keeps the types, given that the caller's role does.
LEMMA AdvanceType ==
  ASSUME TypeOK, NEW n \in Node, NEW t \in Nat, NEW role \in State, NEW r,
         advanceTermLocked(n, t, role, r), r # "ok" => state' \in [Node -> State]
  PROVE  NodeTypes'
BY Zenon DEF advanceTermLocked, saveHardState, HardState, TypeOK, NodeTypes

\* A term advance to follower whose failure leaves the role, or drops it.
LEMMA DeposeType ==
  ASSUME TypeOK, NEW n \in Node, NEW t \in Nat,
         \E r \in SaveOutcomes :
           /\ advanceTermLocked(n, t, "Follower", r)
           /\ r # "ok" => \/ UNCHANGED state
                          \/ state' = [state EXCEPT ![n] = "Follower"]
  PROVE  NodeTypes'
<1>1. PICK r \in SaveOutcomes :
        /\ advanceTermLocked(n, t, "Follower", r)
        /\ r # "ok" => \/ UNCHANGED state
                       \/ state' = [state EXCEPT ![n] = "Follower"]
  OBVIOUS
<1>2. "Follower" \in State /\ (r # "ok" => state' \in [Node -> State])
  BY <1>1 DEF State, TypeOK
<1> QED
  BY <1>1, <1>2, AdvanceType

\* Every step keeps every variable in its type.
LEMMA TypeStep == TypeOK /\ [Next]_vars => TypeOK'
<1> SUFFICES ASSUME TypeOK, [Next]_vars PROVE TypeOK'
  OBVIOUS
<1> USE ConstantsAssumption
<1>1. ASSUME NEW n \in Node, run(n) PROVE TypeOK'
  BY <1>1 DEF run, TypeOK, mem, hist, PC, State
<1>2. ASSUME NEW n \in Node, runFollowerReset(n) PROVE TypeOK'
  BY <1>2 DEF runFollowerReset, TypeOK, mem, loop, hist
<1>3. ASSUME NEW n \in Node, electionTimeout(n) PROVE TypeOK'
  <2>1. PICK r \in SaveOutcomes :
          /\ advanceTermLocked(n, currentTerm[n] + 1, "Candidate", r)
          /\ r # "ok" => state' = IF pc[n] = "candidate"
                                  THEN [state EXCEPT ![n] = "Follower"] ELSE state
    BY <1>3 DEF electionTimeout
  <2>2. hard' \in [Node -> HardState]
    BY <2>1 DEF advanceTermLocked, saveHardState, HardState, TypeOK
  <2>3. state' \in [Node -> State] /\ currentTerm' \in [Node -> Nat]
        /\ votedFor' \in [Node -> Node \cup {None}]
    BY <2>1 DEF advanceTermLocked, TypeOK, State
  <2> QED
    BY Zenon, <1>3, <2>2, <2>3 DEF electionTimeout, TypeOK, hist, PC
<1>4. ASSUME NEW n \in Node, runCandidate(n) PROVE TypeOK'
  <2>1. campTerm' \in [Node -> Nat] /\ round' \in [Node -> Nat]
    <3>1. campTerm' = [campTerm EXCEPT ![n] = currentTerm[n]]
          /\ round' = [round EXCEPT ![n] =
                        IF campTerm[n] = currentTerm[n] THEN round[n] + 1 ELSE 1]
      BY <1>4 DEF runCandidate
    <3> QED
      BY <3>1 DEF TypeOK
  <2>2. msgs' \subseteq Message
    <3>1. \A p \in peers(n) :
            Msg("vote", currentTerm[n], n, p, round'[n], FALSE) \in Message
      BY Zenon, <2>1, MsgType DEF peers, MsgKind, TypeOK
    <3>2. msgs' = msgs \cup
            {Msg("vote", currentTerm[n], n, p, round'[n], FALSE) : p \in peers(n)}
      BY <1>4 DEF runCandidate
    <3>3. msgs \subseteq Message
      BY DEF TypeOK
    <3> QED
      BY Zenon, <3>1, <3>2, <3>3, Zenon
  <2>3. hard' \in [Node -> HardState]
    BY <1>4 DEF runCandidate, saveHardState, HardState, TypeOK
  <2>4. race' \subseteq Race
    <3>1. noteOverwrite(n)
      BY <1>4 DEF runCandidate
    <3> QED
      BY <3>1 DEF noteOverwrite, TypeOK, Race
  <2>5. votedFor' \in [Node -> Node \cup {None}]
    <3>1. votedFor' = [votedFor EXCEPT ![n] = n]
      BY <1>4 DEF runCandidate
    <3> QED
      BY <3>1 DEF TypeOK
  <2>6. ballots' \subseteq Node \X Nat \X Node
    <3>1. ballots' = ballots \cup {<<n, currentTerm[n], n>>}
      BY <1>4 DEF runCandidate
    <3> QED
      BY <3>1 DEF TypeOK
  <2>7. pc' \in [Node -> PC] /\ state' \in [Node -> State]
        /\ leaderID' \in [Node -> Node \cup {None}] /\ elected' \subseteq Nat \X Node
    <3>1. \/ becomeLeader(n, currentTerm[n])
          \/ /\ pc' = [pc EXCEPT ![n] = "candidate"]
             /\ UNCHANGED <<state, leaderID, elected>>
      BY <1>4 DEF runCandidate
    <3> QED
      BY <3>1 DEF becomeLeader, TypeOK, PC, State
  <2>8. /\ votes' \in [Node -> SUBSET Message]
        /\ \A x \in Node : \A v \in votes'[x] : v.type = "voteResp" /\ v.granted
    <3>1. votes' = [votes EXCEPT ![n] = {}]
      BY <1>4 DEF runCandidate
    <3> QED
      BY <3>1 DEF TypeOK
  <2> QED
    BY Zenon, <1>4, <2>1, <2>2, <2>3, <2>4, <2>5, <2>6, <2>7, <2>8
    DEF runCandidate, TypeOK
<1>5. ASSUME NEW n \in Node, runCandidateReset(n) PROVE TypeOK'
  BY <1>5 DEF runCandidateReset, TypeOK, mem, hist, PC
<1>6. ASSUME NEW n \in Node, runLeaderStepDown(n) PROVE TypeOK'
  BY <1>6 DEF runLeaderStepDown, TypeOK, mem, hist, PC
<1>7. ASSUME NEW n \in Node, NewNode(n) PROVE TypeOK'
  <2>1. msgs' \subseteq Message
    BY <1>7 DEF NewNode, TypeOK
  <2> QED
    BY <1>7, <2>1 DEF NewNode, TypeOK, hist, PC, State, HardState
<1>8. ASSUME NEW n \in Node, NEW p \in Node, NEW type \in {"append", "snap"},
             replicateTo(n, p, type) PROVE TypeOK'
  <2>1. msgs' \subseteq Message
    <3>1. Msg(type, currentTerm[n], n, p, 0, FALSE) \in Message
      BY Zenon, MsgType DEF TypeOK, MsgKind
    <3> QED
      BY Zenon, <1>8, <3>1 DEF replicateTo, TypeOK
  <2> QED
    BY Zenon, <1>8, <2>1 DEF replicateTo, TypeOK, mem, loop, hist
<1>9. ASSUME NEW n \in Node, NEW m \in msgs, voteRespNewer(n, m) PROVE TypeOK'
  <2>1. m.term \in Nat
    BY MsgFields
  <2>2. NodeTypes'
    <3>1. CASE m.term > currentTerm[n]
      BY <1>9, <2>1, <3>1, DeposeType DEF voteRespNewer
    <3>2. CASE ~(m.term > currentTerm[n])
      BY <1>9, <3>2 DEF voteRespNewer, TypeOK, NodeTypes, State
    <3> QED
      BY <3>1, <3>2
  <2> QED
    BY Zenon, <1>9, <2>2 DEF NodeTypes, voteRespNewer, Consume, TypeOK, hist, PC
<1>10. ASSUME NEW n \in Node, NEW m \in msgs, voteRespCounted(n, m) PROVE TypeOK'
  <2>1. m \in Message
    BY MsgFields
  <2>2. /\ votes' \in [Node -> SUBSET Message]
        /\ \A x \in Node : \A v \in votes'[x] : v.type = "voteResp" /\ v.granted
    BY <1>10, <2>1 DEF voteRespCounted, TypeOK
  <2>3. race' \subseteq Race
    BY <1>10 DEF voteRespCounted, TypeOK, Race
  <2>4. pc' \in [Node -> PC] /\ state' \in [Node -> State]
        /\ leaderID' \in [Node -> Node \cup {None}] /\ elected' \subseteq Nat \X Node
    BY <1>10 DEF voteRespCounted, becomeLeader, TypeOK, PC, State
  <2> QED
    BY Zenon, <1>10, <2>2, <2>3, <2>4 DEF voteRespCounted, Consume, TypeOK
<1>11. ASSUME NEW n \in Node, NEW m \in msgs, voteRespRefused(n, m) PROVE TypeOK'
  BY <1>11 DEF voteRespRefused, Consume, TypeOK, mem, loop, hist
<1>12. ASSUME NEW n \in Node, NEW m \in msgs, handleAppendResponse(n, m) PROVE TypeOK'
  <2>1. m.term \in Nat
    BY MsgFields
  <2>2. NodeTypes'
    <3>1. CASE state[n] = "Leader" /\ m.term > currentTerm[n]
      BY <1>12, <2>1, <3>1, DeposeType DEF handleAppendResponse
    <3>2. CASE ~(state[n] = "Leader" /\ m.term > currentTerm[n])
      BY <1>12, <3>2 DEF handleAppendResponse, TypeOK, NodeTypes, State
    <3> QED
      BY <3>1, <3>2
  <2> QED
    BY <1>12, <2>2 DEF NodeTypes, handleAppendResponse, Consume, TypeOK, loop, hist
<1>13. ASSUME NEW n \in Node, NEW m \in msgs, HandleVoteRequest(n, m) PROVE TypeOK'
  <2>1. m.term \in Nat /\ m.from \in Node /\ m.round \in Nat /\ currentTerm[n] \in Nat
    BY MsgFields DEF TypeOK
  <2>2. \A t \in Nat, g \in BOOLEAN : Msg("voteResp", t, n, m.from, m.round, g) \in Message
    BY <2>1, MsgType DEF MsgKind
  <2>3. ASSUME NEW t \in Nat, NEW g \in BOOLEAN, voteResponse(n, m, t, g)
        PROVE  msgs' \subseteq Message
    BY <2>2, <2>3, ReplyType DEF voteResponse
  <2>4. diskInTerm(n, m) \in [Node -> HardState]
    BY <2>1 DEF diskInTerm, saveHardState, HardState, TypeOK
  <2>5. voteInTerm(n, m) \in Node \cup {None}
    BY DEF voteInTerm, TypeOK
  <2>6. ASSUME NEW disk \in [Node -> HardState], NEW r, NEW v \in Node \cup {None}
        PROVE  saveHardState(disk, n, m.term, v, r) \in [Node -> HardState]
    BY <2>1 DEF saveHardState, HardState
  <2>7. ASSUME adoptTerm(n, m)
        PROVE  currentTerm' \in [Node -> Nat] /\ state' \in [Node -> State]
    BY <2>1, <2>7 DEF adoptTerm, TypeOK, State
  <2>8. CASE voteStale(n, m)
    BY Zenon, <2>1, <2>3, <2>8 DEF voteStale, TypeOK, mem, loop, hist
  <2>9. CASE voteTermUnsaved(n, m)
    <3>1. hard' \in [Node -> HardState]
      BY <2>6, <2>9 DEF voteTermUnsaved, TypeOK
    <3> QED
      BY Zenon, <2>1, <2>3, <2>9, <3>1 DEF voteTermUnsaved, TypeOK, mem, loop, hist
  <2>10. CASE voteRefused(n, m)
    <3>1. votedFor' \in [Node -> Node \cup {None}]
      BY <2>5, <2>10 DEF voteRefused, TypeOK
    <3> QED
      BY Zenon, <2>1, <2>3, <2>4, <2>7, <2>10, <3>1 DEF voteRefused, TypeOK, loop, hist
  <2>11. CASE voteUnsaved(n, m)
    <3>1. votedFor' \in [Node -> Node \cup {None}]
      BY <2>11 DEF voteUnsaved, TypeOK
    <3>2. hard' \in [Node -> HardState]
      BY <2>1, <2>4, <2>6, <2>11 DEF voteUnsaved
    <3> QED
      BY Zenon, <2>1, <2>3, <2>7, <2>11, <3>1, <3>2 DEF voteUnsaved, TypeOK, loop, hist
  <2>12. CASE voteGranted(n, m)
    <3>1. votedFor' \in [Node -> Node \cup {None}]
      BY <2>1, <2>12 DEF voteGranted, TypeOK
    <3>2. hard' \in [Node -> HardState]
      BY <2>1, <2>4, <2>6, <2>12 DEF voteGranted, TypeOK
    <3>3. ballots' \subseteq Node \X Nat \X Node /\ resetCh' \in [Node -> BOOLEAN]
      BY <2>1, <2>12 DEF voteGranted, TypeOK
    <3> QED
      BY Zenon, <2>1, <2>3, <2>7, <2>12, <3>1, <3>2, <3>3 DEF voteGranted, TypeOK, loop
  <2> QED
    BY <1>13, <2>8, <2>9, <2>10, <2>11, <2>12 DEF HandleVoteRequest
<1>14. ASSUME NEW n \in Node, NEW m \in msgs, HandleAppendRequest(n, m) PROVE TypeOK'
  <2>1. m.term \in Nat /\ m.from \in Node /\ currentTerm[n] \in Nat
    BY MsgFields DEF TypeOK
  <2>2. \A t \in Nat : Msg("appendResp", t, n, m.from, 0, FALSE) \in Message
    BY Zenon, <2>1, MsgType DEF MsgKind
  <2>3. ASSUME NEW t \in Nat, appendResponse(n, m, t)
        PROVE  msgs' \subseteq Message
    BY Zenon, <2>2, <2>3, ReplyType DEF appendResponse
  <2>4. CASE appendStale(n, m)
    BY <2>1, <2>3, <2>4 DEF appendStale, TypeOK, mem, loop, hist
  <2>5. CASE appendTermUnsaved(n, m)
    <3>1. hard' \in [Node -> HardState]
      BY <2>1, <2>5 DEF appendTermUnsaved, saveHardState, HardState, TypeOK
    <3> QED
      BY <2>1, <2>3, <2>5, <3>1 DEF appendTermUnsaved, TypeOK, mem, loop, hist
  <2>6. CASE appendAccepted(n, m)
    <3>1. hard' \in [Node -> HardState]
      BY <2>1, <2>6 DEF appendAccepted, diskInTerm, saveHardState, HardState, TypeOK
    <3>2. currentTerm' \in [Node -> Nat] /\ votedFor' \in [Node -> Node \cup {None}]
      BY <2>1, <2>6 DEF appendAccepted, voteInTerm, TypeOK
    <3>3. /\ state' \in [Node -> State] /\ leaderID' \in [Node -> Node \cup {None}]
          /\ resetCh' \in [Node -> BOOLEAN]
      BY <2>1, <2>6 DEF appendAccepted, TypeOK, State
    <3> QED
      BY <2>1, <2>3, <2>6, <3>1, <3>2, <3>3 DEF appendAccepted, TypeOK, loop, hist
  <2> QED
    BY <1>14, <2>4, <2>5, <2>6 DEF HandleAppendRequest
<1>15. ASSUME NEW n \in Node, NEW m \in msgs, HandleSnapshotRequest(n, m) PROVE TypeOK'
  <2>1. m.term \in Nat /\ m.from \in Node /\ currentTerm[n] \in Nat
    BY MsgFields DEF TypeOK
  <2>2. \A t \in Nat : Msg("snapResp", t, n, m.from, 0, FALSE) \in Message
    BY Zenon, <2>1, MsgType DEF MsgKind
  <2>3. NodeTypes'
    <3>1. CASE m.term > currentTerm[n]
      BY Zenon, <1>15, <2>1, <3>1, DeposeType DEF HandleSnapshotRequest
    <3>2. CASE ~(m.term > currentTerm[n])
      BY <1>15, <3>2 DEF HandleSnapshotRequest, TypeOK, NodeTypes, State
    <3> QED
      BY <3>1, <3>2
  <2>4. msgs' \subseteq Message
    <3>1. currentTerm'[n] \in Nat
      BY <2>3 DEF NodeTypes
    <3>2. \/ Reply(m, Msg("snapResp", currentTerm'[n], n, m.from, 0, FALSE))
          \/ Reply(m, Msg("snapResp", currentTerm[n], n, m.from, 0, FALSE))
      BY Zenon, <1>15 DEF HandleSnapshotRequest
    <3> QED
      BY Zenon, <2>1, <2>2, <3>1, <3>2, ReplyType
  <2> QED
    BY <1>15, <2>3, <2>4 DEF NodeTypes, HandleSnapshotRequest, TypeOK, loop, hist
<1>16. ASSUME NEW n \in Node, NEW m \in msgs, snapshotAcknowledged(n, m) PROVE TypeOK'
  <2>1. m.term \in Nat
    BY MsgFields
  <2>2. NodeTypes'
    <3>1. CASE m.term > currentTerm[n]
      BY <1>16, <2>1, <3>1, DeposeType DEF snapshotAcknowledged
    <3>2. CASE ~(m.term > currentTerm[n])
      BY <1>16, <3>2 DEF snapshotAcknowledged, TypeOK, NodeTypes, State
    <3> QED
      BY <3>1, <3>2
  <2> QED
    BY <1>16, <2>2 DEF NodeTypes, snapshotAcknowledged, Consume, TypeOK, loop, hist
<1>17. ASSUME NEW n \in Node, selfVoteUnsaved(n) PROVE TypeOK'
  <2>1. hard' \in [Node -> HardState]
    BY <1>17 DEF selfVoteUnsaved, saveHardState, HardState, TypeOK
  <2>2. race' \subseteq Race
    BY <1>17 DEF selfVoteUnsaved, noteOverwrite, TypeOK, Race
  <2> QED
    BY Zenon, <1>17, <2>1, <2>2 DEF selfVoteUnsaved, TypeOK, PC, State
<1>18. CASE UNCHANGED vars
  BY <1>18 DEF vars, mem, loop, hist, TypeOK
<1> QED
  BY <1>1, <1>2, <1>3, <1>4, <1>5, <1>6, <1>7, <1>8, <1>9, <1>10, <1>11,
     <1>12, <1>13, <1>14, <1>15, <1>16, <1>17, <1>18 DEF Next, step
=============================================================================
