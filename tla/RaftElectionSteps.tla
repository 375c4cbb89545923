------------------------- MODULE RaftElectionSteps -------------------------
(***************************************************************************)
(* What one step of RaftElection does to a node and to the messages: the   *)
(* summary of every action that the invariants are proved from.            *)
(***************************************************************************)
EXTENDS RaftElectionTypes

(***************************************************************************)
(* What a step of node n does to terms, votes, files and ballots: nothing  *)
(* to the other nodes, and to n only what keeps its vote of a term.        *)
(***************************************************************************)
NodeEffect(n) ==
  /\ \A x \in Node \ {n} : /\ currentTerm'[x] = currentTerm[x]
                           /\ votedFor'[x] = votedFor[x]
                           /\ hard'[x] = hard[x]
  /\ currentTerm[n] <= currentTerm'[n] /\ currentTerm'[n] <= hard'[n].term
  /\ ballots \subseteq ballots'
  /\ \A b \in ballots' : b \in ballots \/ b = <<n, currentTerm'[n], votedFor'[n]>>
  /\ race \subseteq race'
  /\ "voteOverwrite" \notin race' =>
       /\ hard'[n].term = currentTerm'[n] /\ votedFor'[n] # None
            => hard'[n].vote = votedFor'[n]
       /\ currentTerm'[n] = currentTerm[n] /\ votedFor[n] # None
            => votedFor'[n] = votedFor[n]

\* What a step of n adds to the messages: its own, and only votes it has cast.
MsgEffect(n) ==
  \A m \in msgs' : \/ m \in msgs
                   \/ /\ m.from = n /\ m.to # n
                      /\ m.term <= currentTerm'[n]
                      /\ m.type = "voteResp" /\ m.granted
                           => <<n, m.term, m.to>> \in ballots'

Effect(n) == NodeEffect(n) /\ MsgEffect(n)

Pre == TypeOK /\ TermOrder /\ VoteKept

\* What Pre says of one node.
LEMMA Shapes ==
  ASSUME Pre, NEW n \in Node
  PROVE  /\ currentTerm \in [Node -> Nat] /\ votedFor \in [Node -> Node \cup {None}]
         /\ hard \in [Node -> HardState] /\ hard[n].term \in Nat
         /\ currentTerm[n] \in Nat /\ currentTerm[n] <= hard[n].term
         /\ "voteOverwrite" \notin race =>
              (hard[n].term = currentTerm[n] /\ votedFor[n] # None
                 => hard[n].vote = votedFor[n])
<1>1. /\ currentTerm \in [Node -> Nat] /\ votedFor \in [Node -> Node \cup {None}]
      /\ hard \in [Node -> HardState]
  BY DEF Pre, TypeOK
<1>2. hard[n].term \in Nat /\ currentTerm[n] \in Nat
  BY <1>1 DEF HardState
<1>3. currentTerm[n] <= hard[n].term
  BY DEF Pre, TermOrder
<1>4. "voteOverwrite" \notin race =>
        (hard[n].term = currentTerm[n] /\ votedFor[n] # None
           => hard[n].vote = votedFor[n])
  BY DEF Pre, VoteKept
<1> QED
  BY <1>1, <1>2, <1>3, <1>4

\* The file after a save of node n, and the files of the others.
LEMMA SavedFile ==
  ASSUME NEW disk \in [Node -> HardState], NEW n \in Node, NEW t, NEW v, NEW r
  PROVE  /\ saveHardState(disk, n, t, v, r)[n] =
              IF r = "fail" THEN disk[n] ELSE [term |-> t, vote |-> v]
         /\ \A x \in Node \ {n} : saveHardState(disk, n, t, v, r)[x] = disk[x]
BY DEF saveHardState

\* A step that leaves term, vote and file alone.
LEMMA QuietNode ==
  ASSUME Pre, NEW n \in Node,
         UNCHANGED <<currentTerm, votedFor, hard, ballots>>, race \subseteq race'
  PROVE  NodeEffect(n)
<1>1. currentTerm[n] \in Nat /\ hard[n].term \in Nat
  BY DEF Pre, TypeOK, HardState
<1> QED
  BY <1>1 DEF Pre, TermOrder, VoteKept, NodeEffect

\* advanceTermLocked, whatever became of the save.
LEMMA AdvanceNode ==
  ASSUME Pre, NEW n \in Node, NEW t \in Nat, t > currentTerm[n], NEW role, NEW r,
         advanceTermLocked(n, t, role, r), UNCHANGED <<ballots, race>>
  PROVE  NodeEffect(n)
<1>1. currentTerm[n] \in Nat /\ hard[n].term \in Nat /\ hard[n] \in HardState
  BY DEF Pre, TypeOK, HardState
<1>2. currentTerm[n] <= hard[n].term
  BY DEF Pre, TermOrder
<1>3. CASE r = "ok"
  BY <1>1, <1>2, <1>3 DEF Pre, TypeOK, advanceTermLocked, saveHardState, NodeEffect
<1>4. CASE r # "ok"
  BY <1>1, <1>2, <1>4
  DEF Pre, TypeOK, VoteKept, advanceTermLocked, saveHardState, NodeEffect
<1> QED
  BY <1>3, <1>4

\* The files while a vote request of the term m.term is answered.
LEMMA DiskInTerm ==
  ASSUME Pre, NEW n \in Node, NEW m, m.term \in Nat, m.term >= currentTerm[n]
  PROVE  /\ diskInTerm(n, m) \in [Node -> HardState]
         /\ m.term <= diskInTerm(n, m)[n].term
         /\ \A x \in Node \ {n} : diskInTerm(n, m)[x] = hard[x]
<1>1. CASE m.term > currentTerm[n]
  <2>1. diskInTerm(n, m) = [hard EXCEPT ![n] = [term |-> m.term, vote |-> None]]
    BY <1>1 DEF diskInTerm, saveHardState
  <2>2. [term |-> m.term, vote |-> None] \in HardState
    BY DEF HardState
  <2> QED
    BY <2>1, <2>2, Shapes
<1>2. CASE ~(m.term > currentTerm[n])
  <2>1. diskInTerm(n, m) = hard
    BY <1>2 DEF diskInTerm
  <2> QED
    BY <1>2, <2>1, Shapes
<1> QED
  BY <1>1, <1>2

\* A save of a newer term that was reported as failed.
LEMMA UnsavedTerm ==
  ASSUME Pre, NEW n \in Node, NEW t \in Nat, t > currentTerm[n], NEW r,
         hard' = saveHardState(hard, n, t, None, r),
         UNCHANGED <<currentTerm, votedFor, ballots, race>>
  PROVE  NodeEffect(n)
<1>1. currentTerm[n] \in Nat /\ hard[n].term \in Nat /\ hard[n] \in HardState
  BY DEF Pre, TypeOK, HardState
<1>2. currentTerm[n] <= hard[n].term
  BY DEF Pre, TermOrder
<1> QED
  BY <1>1, <1>2 DEF Pre, TypeOK, VoteKept, saveHardState, NodeEffect

\* Taking a message, and answering it.
LEMMA ConsumeMsgs ==
  ASSUME NEW n \in Node, NEW m, Consume(m)
  PROVE  MsgEffect(n)
BY DEF Consume, MsgEffect

\* Answering a message changes what is in flight as an effect may.
LEMMA ReplyMsgs ==
  ASSUME NEW n \in Node, NEW m, NEW resp, Reply(m, resp),
         resp.from = n, resp.to # n, resp.term <= currentTerm'[n],
         resp.type = "voteResp" /\ resp.granted => <<n, resp.term, resp.to>> \in ballots'
  PROVE  MsgEffect(n)
BY DEF Reply, MsgEffect

\* Every step is an effect of one node.
LEMMA StepEffect == ASSUME Pre, Next PROVE \E n \in Node : Effect(n)
<1> USE ConstantsAssumption
<1>1. ASSUME NEW n \in Node, run(n) \/ runFollowerReset(n) \/ runCandidateReset(n)
                             \/ runLeaderStepDown(n)
      PROVE  Effect(n)
  <2>1. UNCHANGED <<currentTerm, votedFor, hard, ballots, race, msgs>>
    BY <1>1 DEF run, runFollowerReset, runCandidateReset, runLeaderStepDown, mem, hist
  <2> QED
    BY <2>1, QuietNode DEF Effect, MsgEffect
<1>2. ASSUME NEW n \in Node, electionTimeout(n) PROVE Effect(n)
  <2>1. PICK r \in SaveOutcomes : advanceTermLocked(n, currentTerm[n] + 1, "Candidate", r)
    BY <1>2 DEF electionTimeout
  <2>2. currentTerm[n] + 1 \in Nat /\ currentTerm[n] + 1 > currentTerm[n]
    BY DEF Pre, TypeOK
  <2>3. UNCHANGED <<msgs, ballots, race>>
    BY <1>2 DEF electionTimeout, hist
  <2> QED
    BY <2>1, <2>2, <2>3, AdvanceNode DEF Effect, MsgEffect
<1>3. ASSUME NEW n \in Node, selfVoteUnsaved(n) PROVE Effect(n)
  <2>1. UNCHANGED <<currentTerm, votedFor, ballots, msgs>>
    BY <1>3 DEF selfVoteUnsaved
  <2>2. PICK r \in SaveOutcomes : hard' = saveHardState(hard, n, currentTerm[n], n, r)
    BY <1>3 DEF selfVoteUnsaved
  <2>3. /\ race \subseteq race'
        /\ "voteOverwrite" \notin race' => votedFor[n] = None
    BY <1>3 DEF selfVoteUnsaved, noteOverwrite
  <2>4. currentTerm[n] \in Nat /\ hard[n].term \in Nat /\ currentTerm[n] <= hard[n].term
    BY DEF Pre, TypeOK, HardState, TermOrder
  <2>5. NodeEffect(n)
    BY <2>1, <2>2, <2>3, <2>4 DEF Pre, TypeOK, saveHardState, NodeEffect
  <2> QED
    BY <2>1, <2>5 DEF Effect, MsgEffect
<1>4. ASSUME NEW n \in Node, runCandidate(n) PROVE Effect(n)
  <2>1. /\ UNCHANGED currentTerm
        /\ votedFor' = [votedFor EXCEPT ![n] = n]
        /\ ballots' = ballots \cup {<<n, currentTerm[n], n>>}
        /\ hard' = IF votedFor[n] = n THEN hard
                   ELSE saveHardState(hard, n, currentTerm[n], n, "ok")
        /\ msgs' = msgs \cup
             {Msg("vote", currentTerm[n], n, p, round'[n], FALSE) : p \in peers(n)}
    BY <1>4 DEF runCandidate
  <2>2. /\ race \subseteq race'
        /\ "voteOverwrite" \notin race' => votedFor[n] \in {None, n}
    BY <1>4 DEF runCandidate, noteOverwrite
  <2>3. currentTerm[n] \in Nat /\ hard[n].term \in Nat /\ currentTerm[n] <= hard[n].term
    BY DEF Pre, TypeOK, HardState, TermOrder
  <2>4. NodeEffect(n)
    <3>1. /\ votedFor'[n] = n /\ n # None /\ currentTerm' = currentTerm
          /\ \A x \in Node \ {n} : votedFor'[x] = votedFor[x]
      BY <2>1, Shapes
    <3>2. /\ currentTerm[n] <= hard'[n].term
          /\ \A x \in Node \ {n} : hard'[x] = hard[x]
          /\ "voteOverwrite" \notin race' =>
               (hard'[n].term = currentTerm[n] => hard'[n].vote = n)
      <4>1. CASE votedFor[n] = n
        BY <2>1, <2>2, <2>3, <3>1, <4>1, Shapes
      <4>2. CASE votedFor[n] # n
        <5>1. hard' = saveHardState(hard, n, currentTerm[n], n, "ok")
          BY <2>1, <4>2
        <5>2. hard'[n] = [term |-> currentTerm[n], vote |-> n]
              /\ \A x \in Node \ {n} : hard'[x] = hard[x]
          BY <5>1, Shapes, SavedFile
        <5> QED
          BY <5>2, <2>3
      <4> QED
        BY <4>1, <4>2
    <3> QED
      BY <2>1, <2>2, <2>3, <3>1, <3>2 DEF NodeEffect
  <2>5. MsgEffect(n)
    <3> SUFFICES ASSUME NEW m \in msgs', m \notin msgs
                 PROVE  /\ m.from = n /\ m.to # n /\ m.term <= currentTerm'[n]
                        /\ m.type # "voteResp"
      BY DEF MsgEffect
    <3>1. PICK p \in peers(n) : m = Msg("vote", currentTerm[n], n, p, round'[n], FALSE)
      BY Zenon, <2>1
    <3>2. m.from = n /\ m.to = p /\ m.term = currentTerm[n] /\ m.type = "vote"
      BY <3>1 DEF Msg
    <3>3. p # n
      BY DEF peers
    <3>4. currentTerm'[n] = currentTerm[n]
      BY <2>1
    <3> QED
      BY <2>3, <3>2, <3>3, <3>4
  <2> QED
    BY <2>4, <2>5 DEF Effect
<1>5. ASSUME NEW n \in Node, NewNode(n) PROVE Effect(n)
  <2>1. /\ currentTerm' = [currentTerm EXCEPT ![n] = hard[n].term]
        /\ votedFor' = [votedFor EXCEPT ![n] = hard[n].vote]
        /\ msgs' \subseteq msgs
        /\ UNCHANGED <<hard, ballots, race>>
    BY <1>5 DEF NewNode, hist
  <2>2. currentTerm[n] \in Nat /\ hard[n].term \in Nat /\ currentTerm[n] <= hard[n].term
    BY DEF Pre, TypeOK, HardState, TermOrder
  <2>3. /\ currentTerm'[n] = hard[n].term /\ votedFor'[n] = hard[n].vote
        /\ \A x \in Node \ {n} : currentTerm'[x] = currentTerm[x] /\ votedFor'[x] = votedFor[x]
    BY <2>1, Shapes
  <2>4. NodeEffect(n)
    BY <2>1, <2>2, <2>3, Shapes DEF NodeEffect
  <2> QED
    BY <2>1, <2>4 DEF Effect, MsgEffect
<1>6. ASSUME NEW n \in Node, NEW p \in Node, NEW type \in {"append", "snap"},
             replicateTo(n, p, type)
      PROVE  Effect(n)
  <2>1. /\ msgs' = msgs \cup {Msg(type, currentTerm[n], n, p, 0, FALSE)}
        /\ UNCHANGED <<currentTerm, votedFor, hard, ballots, race>> /\ p # n
    BY <1>6 DEF replicateTo, mem, hist, peers
  <2>2. MsgEffect(n)
    BY <2>1 DEF MsgEffect, Msg, Pre, TypeOK
  <2> QED
    BY <2>1, <2>2, QuietNode DEF Effect
<1>7. ASSUME NEW n \in Node, NEW m \in msgs, voteRespNewer(n, m) PROVE Effect(n)
  <2>1. m.term \in Nat /\ UNCHANGED <<ballots, race>>
    BY <1>7, MsgFields DEF Pre, voteRespNewer, hist
  <2>2. CASE m.term > currentTerm[n]
    <3>1. PICK r \in SaveOutcomes : advanceTermLocked(n, m.term, "Follower", r)
      BY <1>7, <2>2 DEF voteRespNewer
    <3> QED
      BY <1>7, <2>1, <2>2, <3>1, AdvanceNode, ConsumeMsgs DEF Effect, voteRespNewer
  <2>3. CASE ~(m.term > currentTerm[n])
    BY <1>7, <2>1, <2>3, QuietNode, ConsumeMsgs DEF Effect, voteRespNewer
  <2> QED
    BY <2>2, <2>3
<1>8. ASSUME NEW n \in Node, NEW m \in msgs, voteRespCounted(n, m) PROVE Effect(n)
  <2>1. UNCHANGED <<currentTerm, votedFor, hard, ballots>> /\ race \subseteq race'
        /\ Consume(m)
    BY <1>8 DEF voteRespCounted
  <2> QED
    BY <2>1, QuietNode, ConsumeMsgs DEF Effect
<1>9. ASSUME NEW n \in Node, NEW m \in msgs, voteRespRefused(n, m) PROVE Effect(n)
  BY <1>9, QuietNode, ConsumeMsgs DEF Effect, voteRespRefused, mem, hist
<1>10. ASSUME NEW n \in Node, NEW m \in msgs, handleAppendResponse(n, m) PROVE Effect(n)
  <2>1. m.term \in Nat /\ UNCHANGED <<ballots, race>>
    BY <1>10, MsgFields DEF Pre, handleAppendResponse, hist
  <2>2. CASE state[n] = "Leader" /\ m.term > currentTerm[n]
    <3>1. PICK r \in SaveOutcomes : advanceTermLocked(n, m.term, "Follower", r)
      BY <1>10, <2>2 DEF handleAppendResponse
    <3> QED
      BY <1>10, <2>1, <2>2, <3>1, AdvanceNode, ConsumeMsgs DEF Effect, handleAppendResponse
  <2>3. CASE ~(state[n] = "Leader" /\ m.term > currentTerm[n])
    BY <1>10, <2>1, <2>3, QuietNode, ConsumeMsgs DEF Effect, handleAppendResponse
  <2> QED
    BY <2>2, <2>3
<1>11. ASSUME NEW n \in Node, NEW m \in msgs, snapshotAcknowledged(n, m) PROVE Effect(n)
  <2>1. m.term \in Nat /\ UNCHANGED <<ballots, race>>
    BY <1>11, MsgFields DEF Pre, snapshotAcknowledged, hist
  <2>2. CASE m.term > currentTerm[n]
    <3>1. PICK r \in SaveOutcomes : advanceTermLocked(n, m.term, "Follower", r)
      BY <1>11, <2>2 DEF snapshotAcknowledged
    <3> QED
      BY <1>11, <2>1, <2>2, <3>1, AdvanceNode, ConsumeMsgs DEF Effect, snapshotAcknowledged
  <2>3. CASE ~(m.term > currentTerm[n])
    BY <1>11, <2>1, <2>3, QuietNode, ConsumeMsgs DEF Effect, snapshotAcknowledged
  <2> QED
    BY <2>2, <2>3
<1>12. ASSUME NEW n \in Node, NEW m \in msgs, HandleSnapshotRequest(n, m) PROVE Effect(n)
  <2>1. m.term \in Nat /\ m.from # n /\ UNCHANGED <<ballots, race>> /\ currentTerm[n] \in Nat
    BY <1>12, MsgFields DEF Pre, TypeOK, TermOrder, HandleSnapshotRequest, hist
  <2>3. CASE m.term > currentTerm[n]
    <3>1. PICK r \in SaveOutcomes :
            /\ advanceTermLocked(n, m.term, "Follower", r)
            /\ Reply(m, Msg("snapResp", currentTerm'[n], n, m.from, 0, FALSE))
      BY Zenon, <1>12, <2>3 DEF HandleSnapshotRequest
    <3>2. currentTerm'[n] \in Nat
      BY <2>1, <3>1 DEF advanceTermLocked, Pre, TypeOK
    <3>3. MsgEffect(n)
      BY <2>1, <3>1, <3>2 DEF Reply, Msg, MsgEffect
    <3> QED
      BY <2>1, <2>3, <3>1, <3>3, AdvanceNode DEF Effect
  <2>4. CASE ~(m.term > currentTerm[n])
    <3>1. UNCHANGED <<currentTerm, votedFor, hard>>
          /\ Reply(m, Msg("snapResp", currentTerm[n], n, m.from, 0, FALSE))
      BY Zenon, <1>12, <2>4 DEF HandleSnapshotRequest
    <3>2. MsgEffect(n)
      BY <2>1, <3>1 DEF Reply, Msg, MsgEffect
    <3> QED
      BY <2>1, <3>1, <3>2, QuietNode DEF Effect
  <2> QED
    BY <2>3, <2>4
<1>13. ASSUME NEW n \in Node, NEW m \in msgs, HandleAppendRequest(n, m) PROVE Effect(n)
  <2>1. m.term \in Nat /\ m.from \in Node /\ currentTerm[n] \in Nat
    BY MsgFields DEF Pre, TypeOK
  <2>2. ASSUME NEW t, t <= currentTerm'[n], appendResponse(n, m, t), m.to = n
        PROVE  MsgEffect(n)
    <3>1. m.from # n
      BY <2>2 DEF Pre, TermOrder
    <3> QED
      BY Zenon, <2>2, <3>1, ReplyMsgs DEF appendResponse, Msg
  <2>3. CASE appendStale(n, m)
    <3>1. UNCHANGED <<currentTerm, votedFor, hard, ballots, race>>
      BY <2>3 DEF appendStale, mem, hist
    <3>2. MsgEffect(n)
      BY <2>1, <2>2, <2>3, <3>1 DEF appendStale
    <3>3. NodeEffect(n)
      BY <3>1, QuietNode
    <3> QED
      BY <3>2, <3>3 DEF Effect
  <2>4. CASE appendTermUnsaved(n, m)
    <3>1. PICK r \in SaveOutcomes : hard' = saveHardState(hard, n, m.term, None, r)
      BY <2>4 DEF appendTermUnsaved
    <3>2. UNCHANGED <<currentTerm, votedFor, ballots, race>> /\ m.term > currentTerm[n]
      BY <2>4 DEF appendTermUnsaved, mem, hist
    <3>3. NodeEffect(n)
      BY <2>1, <3>1, <3>2, UnsavedTerm
    <3>4. MsgEffect(n)
      BY <2>1, <2>2, <2>4, <3>2 DEF appendTermUnsaved
    <3> QED
      BY <3>3, <3>4 DEF Effect
  <2>5. CASE appendAccepted(n, m)
    <3>1. currentTerm'[n] = m.term /\ UNCHANGED <<ballots, race>>
      BY <2>5 DEF appendAccepted, Pre, TypeOK, hist
    <3>2. CASE m.term > currentTerm[n]
      <4>1. advanceTermLocked(n, m.term, "Follower", "ok")
        BY <2>5, <3>2 DEF appendAccepted, advanceTermLocked, diskInTerm, voteInTerm
      <4>2. NodeEffect(n)
        BY <2>1, <3>1, <3>2, <4>1, AdvanceNode
      <4>3. MsgEffect(n)
        BY <2>1, <2>2, <2>5, <3>1 DEF appendAccepted
      <4> QED
        BY <4>2, <4>3 DEF Effect
    <3>3. CASE ~(m.term > currentTerm[n])
      <4>1. m.term = currentTerm[n]
        BY <2>1, <2>5, <3>3 DEF appendAccepted
      <4>2. UNCHANGED <<currentTerm, votedFor, hard>>
        BY <2>5, <3>3, <4>1 DEF appendAccepted, diskInTerm, voteInTerm, Pre, TypeOK
      <4> QED
        BY <2>1, <2>2, <2>5, <3>1, <4>2, QuietNode DEF appendAccepted, Effect
    <3> QED
      BY <3>2, <3>3
  <2> QED
    BY <1>13, <2>3, <2>4, <2>5 DEF HandleAppendRequest
<1>14. ASSUME NEW n \in Node, NEW m \in msgs, HandleVoteRequest(n, m) PROVE Effect(n)
  <2>1. /\ m.term \in Nat /\ m.from \in Node /\ m.from # None
        /\ currentTerm[n] \in Nat /\ hard[n].term \in Nat
        /\ hard[n].term >= currentTerm[n]
    BY MsgFields DEF Pre, TypeOK, HardState, TermOrder
  <2>2. m.to = n => m.from # n
    BY DEF Pre, TermOrder
  <2>3. CASE voteStale(n, m)
    <3>1. UNCHANGED <<currentTerm, votedFor, hard, ballots, race>>
      BY <2>3 DEF voteStale, mem, hist
    <3>2. MsgEffect(n)
      BY <2>1, <2>2, <2>3, <3>1
      DEF voteStale, isVoteRequest, voteResponse, Reply, Msg, MsgEffect
    <3> QED
      BY <3>1, <3>2, QuietNode DEF Effect
  <2>4. CASE voteTermUnsaved(n, m)
    <3>1. PICK r \in SaveOutcomes : hard' = saveHardState(hard, n, m.term, None, r)
      BY <2>4 DEF voteTermUnsaved
    <3>2. UNCHANGED <<currentTerm, votedFor, ballots, race>> /\ m.term > currentTerm[n]
      BY <2>4 DEF voteTermUnsaved, mem, hist
    <3>3. MsgEffect(n)
      BY <2>1, <2>2, <2>4, <3>2
      DEF voteTermUnsaved, isVoteRequest, voteResponse, Reply, Msg, MsgEffect
    <3> QED
      BY <2>1, <3>1, <3>2, <3>3, UnsavedTerm DEF Effect
  <2>5. CASE voteRefused(n, m)
    <3>1. /\ currentTerm' = [currentTerm EXCEPT ![n] = m.term]
          /\ currentTerm'[n] = m.term /\ UNCHANGED <<ballots, race>>
      BY <2>5 DEF voteRefused, adoptTerm, Pre, TypeOK, hist
    <3>2. MsgEffect(n)
      BY <2>1, <2>2, <2>5, <3>1
      DEF voteRefused, isVoteRequest, voteResponse, Reply, Msg, MsgEffect
    <3>3. CASE m.term > currentTerm[n]
      <4>1. advanceTermLocked(n, m.term, "Follower", "ok")
        BY <2>5, <3>3
        DEF voteRefused, adoptTerm, advanceTermLocked, diskInTerm, voteInTerm
      <4> QED
        BY <2>1, <3>1, <3>2, <3>3, <4>1, AdvanceNode DEF Effect
    <3>4. CASE ~(m.term > currentTerm[n])
      <4>1. m.term = currentTerm[n]
        BY <2>1, <2>5, <3>4 DEF voteRefused, adoptTerm
      <4>2. UNCHANGED <<currentTerm, votedFor, hard>>
        BY <2>5, <3>1, <3>4, <4>1 DEF voteRefused, diskInTerm, voteInTerm, Pre, TypeOK
      <4> QED
        BY <3>1, <3>2, <4>2, QuietNode DEF Effect
    <3> QED
      BY <3>3, <3>4
  <2>6. CASE voteUnsaved(n, m)
    <3>1. /\ currentTerm' = [currentTerm EXCEPT ![n] = m.term]
          /\ votedFor' = [votedFor EXCEPT ![n] = None]
          /\ currentTerm'[n] = m.term /\ UNCHANGED <<ballots, race>>
          /\ m.term >= currentTerm[n] /\ voteInTerm(n, m) = None
      BY <2>6 DEF voteUnsaved, adoptTerm, Pre, TypeOK, hist
    <3>2. MsgEffect(n)
      BY <2>1, <2>2, <2>6, <3>1
      DEF voteUnsaved, isVoteRequest, voteResponse, Reply, Msg, MsgEffect
    <3>3. PICK r \in SaveOutcomes :
            hard' = saveHardState(diskInTerm(n, m), n, m.term, m.from, r)
      BY <2>6 DEF voteUnsaved
    <3>4. diskInTerm(n, m) \in [Node -> HardState] /\ m.term <= diskInTerm(n, m)[n].term
          /\ \A x \in Node \ {n} : diskInTerm(n, m)[x] = hard[x]
      BY <2>1, <3>1, DiskInTerm
    <3>5. m.term <= hard'[n].term /\ \A x \in Node \ {n} : hard'[x] = hard[x]
      <4>1. /\ hard'[n] = IF r = "fail" THEN diskInTerm(n, m)[n]
                         ELSE [term |-> m.term, vote |-> m.from]
            /\ \A x \in Node \ {n} : hard'[x] = diskInTerm(n, m)[x]
        BY <3>3, <3>4, SavedFile
      <4> QED
        BY <2>1, <3>4, <4>1
    <3>6. currentTerm'[n] = currentTerm[n] => votedFor[n] = None
      BY <2>1, <3>1 DEF voteInTerm
    <3>7. NodeEffect(n)
      BY <2>1, <3>1, <3>5, <3>6 DEF NodeEffect, Pre, TypeOK
    <3> QED
      BY <3>2, <3>7 DEF Effect
  <2>7. CASE voteGranted(n, m)
    <3>1. /\ currentTerm' = [currentTerm EXCEPT ![n] = m.term]
          /\ votedFor' = [votedFor EXCEPT ![n] = m.from]
          /\ currentTerm'[n] = m.term /\ votedFor'[n] = m.from
          /\ ballots' = ballots \cup {<<n, m.term, m.from>>} /\ UNCHANGED race
          /\ m.term >= currentTerm[n] /\ voteInTerm(n, m) \in {None, m.from}
      BY <2>7 DEF voteGranted, adoptTerm, Pre, TypeOK
    <3>2. MsgEffect(n)
      BY <2>1, <2>2, <2>7, <3>1
      DEF voteGranted, isVoteRequest, voteResponse, Reply, Msg, MsgEffect
    <3>3. currentTerm'[n] = currentTerm[n] => votedFor[n] \in {None, m.from}
      BY <2>1, <3>1 DEF voteInTerm
    <3>4. CASE voteInTerm(n, m) = m.from
      <4>1. UNCHANGED hard
        BY <2>7, <3>4 DEF voteGranted
      <4>2. m.term = currentTerm[n] /\ votedFor[n] = m.from
        BY <2>1, <3>1, <3>4 DEF voteInTerm
      <4>3. NodeEffect(n)
        BY <2>1, <3>1, <3>3, <4>1, <4>2 DEF NodeEffect, Pre, TypeOK, VoteKept
      <4> QED
        BY <3>2, <4>3 DEF Effect
    <3>5. CASE voteInTerm(n, m) # m.from
      <4>1. hard' = saveHardState(diskInTerm(n, m), n, m.term, m.from, "ok")
        BY <2>7, <3>5 DEF voteGranted
      <4>2. diskInTerm(n, m) \in [Node -> HardState]
            /\ \A x \in Node \ {n} : diskInTerm(n, m)[x] = hard[x]
        BY <2>1, <3>1, DiskInTerm
      <4>3. /\ hard'[n] = [term |-> m.term, vote |-> m.from]
            /\ \A x \in Node \ {n} : hard'[x] = hard[x]
        BY <4>1, <4>2, SavedFile
      <4>4. \A x \in Node \ {n} : currentTerm'[x] = currentTerm[x] /\ votedFor'[x] = votedFor[x]
        BY <3>1, Shapes
      <4>5. NodeEffect(n)
        BY <2>1, <3>1, <3>3, <4>3, <4>4, Shapes DEF NodeEffect
      <4> QED
        BY <3>2, <4>5 DEF Effect
    <3> QED
      BY <3>4, <3>5
  <2> QED
    BY <1>14, <2>3, <2>4, <2>5, <2>6, <2>7 DEF HandleVoteRequest
<1> QED
  BY <1>1, <1>2, <1>3, <1>4, <1>5, <1>6, <1>7, <1>8, <1>9, <1>10, <1>11, <1>12,
     <1>13, <1>14 DEF Next, step
=============================================================================
