------------------------- MODULE RaftElectionProofs -------------------------
(***************************************************************************)
(* Proofs about RaftElection, for every cluster size and every bound.      *)
(***************************************************************************)
EXTENDS RaftElectionSteps, FiniteSetTheorems

\* Terms stay in order: message and ballot, then memory, then file.
LEMMA TermOrderStep == ASSUME Pre, TypeOK', NEW n \in Node, Effect(n) PROVE TermOrder'
<1>1. /\ \A x \in Node : /\ currentTerm[x] \in Nat /\ currentTerm'[x] \in Nat
                         /\ hard[x].term \in Nat /\ hard'[x].term \in Nat
      /\ \A m \in msgs : m.from \in Node /\ m.term \in Nat
      /\ \A m \in msgs' : m.from \in Node /\ m.term \in Nat
      /\ \A b \in ballots : b[1] \in Node /\ b[2] \in Nat
  <2>1. \A x \in Node : currentTerm[x] \in Nat /\ hard[x].term \in Nat
    BY Shapes
  <2>2. \A x \in Node : currentTerm'[x] \in Nat /\ hard'[x].term \in Nat
    <3>1. currentTerm' \in [Node -> Nat] /\ hard' \in [Node -> HardState]
      BY DEF TypeOK
    <3> QED
      BY <3>1 DEF HardState
  <2>3. msgs \subseteq Message /\ ballots \subseteq Node \X Nat \X Node
    BY DEF Pre, TypeOK
  <2>4. msgs' \subseteq Message
    BY DEF TypeOK
  <2>5. \A m \in Message : m.from \in Node /\ m.term \in Nat
    BY DEF Message
  <2> QED
    BY <2>1, <2>2, <2>3, <2>4, <2>5
<1>2. \A x \in Node : currentTerm[x] <= currentTerm'[x]
  BY <1>1 DEF Effect, NodeEffect
<1>3. \A x \in Node : currentTerm'[x] <= hard'[x].term
  BY <1>1 DEF Effect, NodeEffect, Pre, TermOrder
<1>4. \A m \in msgs' : m.term <= currentTerm'[m.from] /\ m.from # m.to
  <2> SUFFICES ASSUME NEW m \in msgs'
               PROVE  m.term <= currentTerm'[m.from] /\ m.from # m.to
    OBVIOUS
  <2>1. CASE m \in msgs
    <3>1. m.term <= currentTerm[m.from] /\ m.from # m.to
      BY <2>1 DEF Pre, TermOrder
    <3>2. m.term \in Nat /\ m.from \in Node
      BY <1>1, <2>1
    <3>3. /\ currentTerm[m.from] \in Nat /\ currentTerm'[m.from] \in Nat
          /\ currentTerm[m.from] <= currentTerm'[m.from]
      BY <1>1, <1>2, <3>2
    <3> QED
      BY <3>1, <3>2, <3>3
  <2>2. CASE m.from = n /\ m.to # n /\ m.term <= currentTerm'[n]
    BY <2>2
  <2> QED
    BY Zenon, <2>1, <2>2 DEF Effect, MsgEffect
<1>5. \A b \in ballots' : b[2] <= currentTerm'[b[1]]
  <2> SUFFICES ASSUME NEW b \in ballots' PROVE b[2] <= currentTerm'[b[1]]
    OBVIOUS
  <2>1. CASE b \in ballots
    BY <1>1, <1>2, <2>1 DEF Pre, TermOrder
  <2>2. CASE b = <<n, currentTerm'[n], votedFor'[n]>>
    BY <1>1, <2>2
  <2> QED
    BY <2>1, <2>2 DEF Effect, NodeEffect
<1> QED
  BY Zenon, <1>3, <1>4, <1>5 DEF TermOrder

\* The vote of a term is kept.
LEMMA VoteKeptStep == ASSUME Pre, TypeOK', NEW n \in Node, Effect(n) PROVE VoteKept'
<1> SUFFICES ASSUME "voteOverwrite" \notin race'
             PROVE  /\ \A b \in ballots' : b[2] = currentTerm'[b[1]] => votedFor'[b[1]] = b[3]
                    /\ \A x \in Node : hard'[x].term = currentTerm'[x] /\ votedFor'[x] # None
                                         => hard'[x].vote = votedFor'[x]
                    /\ VoteOnce'
  BY DEF VoteKept
<1>1. /\ \A b \in ballots : b[2] = currentTerm[b[1]] => votedFor[b[1]] = b[3]
      /\ \A x \in Node : hard[x].term = currentTerm[x] /\ votedFor[x] # None
                           => hard[x].vote = votedFor[x]
      /\ VoteOnce
  BY DEF Effect, NodeEffect, Pre, VoteKept
<1>2. /\ \A x \in Node : currentTerm[x] \in Nat /\ currentTerm'[x] \in Nat
      /\ \A b \in ballots : /\ b[1] \in Node /\ b[2] \in Nat /\ b[3] \in Node
                            /\ b[2] <= currentTerm[b[1]]
      /\ currentTerm[n] <= currentTerm'[n] /\ None \notin Node
  <2>1. \A x \in Node : currentTerm[x] \in Nat
    BY Shapes
  <2>2. \A x \in Node : currentTerm'[x] \in Nat
    BY DEF TypeOK
  <2>3. ballots \subseteq Node \X Nat \X Node
    BY DEF Pre, TypeOK
  <2>4. \A b \in ballots : b[2] <= currentTerm[b[1]]
    BY DEF Pre, TermOrder
  <2>5. currentTerm[n] <= currentTerm'[n]
    BY DEF Effect, NodeEffect
  <2> QED
    BY <2>1, <2>2, <2>3, <2>4, <2>5, ConstantsAssumption
<1>3. ASSUME NEW b \in ballots, b[1] = n, b[2] = currentTerm'[n]
      PROVE  votedFor'[n] = b[3] /\ votedFor[n] # None
  BY <1>1, <1>2, <1>3 DEF Effect, NodeEffect
<1>4. \A b \in ballots' : b[2] = currentTerm'[b[1]] => votedFor'[b[1]] = b[3]
  <2> SUFFICES ASSUME NEW b \in ballots', b[2] = currentTerm'[b[1]]
               PROVE  votedFor'[b[1]] = b[3]
    OBVIOUS
  <2>1. CASE b \in ballots /\ b[1] = n
    BY <1>3, <2>1
  <2>2. CASE b \in ballots /\ b[1] # n
    BY <1>1, <1>2, <2>2 DEF Effect, NodeEffect
  <2>3. CASE b = <<n, currentTerm'[n], votedFor'[n]>>
    BY <2>3
  <2> QED
    BY <2>1, <2>2, <2>3 DEF Effect, NodeEffect
<1>5. \A x \in Node : hard'[x].term = currentTerm'[x] /\ votedFor'[x] # None
                        => hard'[x].vote = votedFor'[x]
  BY <1>1 DEF Effect, NodeEffect
<1>6. VoteOnce'
  <2> SUFFICES ASSUME NEW b \in ballots', NEW c \in ballots', b[1] = c[1], b[2] = c[2]
               PROVE  b[3] = c[3]
    BY DEF VoteOnce
  <2>1. CASE b \in ballots /\ c \in ballots
    BY <1>1, <2>1 DEF VoteOnce
  <2>2. CASE b \in ballots /\ c = <<n, currentTerm'[n], votedFor'[n]>>
    BY <1>3, <2>2
  <2>3. CASE c \in ballots /\ b = <<n, currentTerm'[n], votedFor'[n]>>
    BY <1>3, <2>3
  <2>4. CASE b = <<n, currentTerm'[n], votedFor'[n]>> /\ c = <<n, currentTerm'[n], votedFor'[n]>>
    BY <2>4
  <2> QED
    BY <2>1, <2>2, <2>3, <2>4 DEF Effect, NodeEffect
<1> QED
  BY <1>4, <1>5, <1>6

\* Type, term order and votes form an inductive invariant.
LEMMA PreStep == Pre /\ [Next]_vars => Pre'
<1> SUFFICES ASSUME Pre, [Next]_vars PROVE Pre'
  OBVIOUS
<1>1. TypeOK'
  BY TypeStep DEF Pre
<1>2. CASE Next
  <2>1. PICK n \in Node : Effect(n)
    BY <1>2, StepEffect
  <2> QED
    BY <1>1, <2>1, TermOrderStep, VoteKeptStep DEF Pre
<1>3. CASE UNCHANGED vars
  BY <1>1, <1>3
  DEF Pre, TermOrder, VoteKept, VoteOnce, vars, mem, hist
<1> QED
  BY <1>2, <1>3

\* The initial state satisfies it.
LEMMA PreInit == Init => Pre
<1> SUFFICES ASSUME Init PROVE Pre
  OBVIOUS
<1>1. TypeOK
  BY ConstantsAssumption DEF Init, TypeOK, HardState, State, PC, Race
<1>2. TermOrder
  BY DEF Init, TermOrder
<1>3. VoteKept
  BY DEF Init, VoteKept, VoteOnce
<1> QED
  BY <1>1, <1>2, <1>3 DEF Pre

\* So it holds in every reachable state.
LEMMA PreAlways == Spec => []Pre
BY PreInit, PreStep, PTL DEF Spec

\* Every reachable state is well typed.
THEOREM TypeCorrect == Spec => []TypeOK
<1>1. Pre => TypeOK
  BY DEF Pre
<1> QED
  BY <1>1, PreAlways, PTL

\* Nothing a node has said or holds in memory is ahead of its HardState file.
THEOREM Durable == Spec => []DurableBeforeVisible
<1>1. Pre => DurableBeforeVisible
  <2> SUFFICES ASSUME Pre PROVE DurableBeforeVisible
    OBVIOUS
  <2>1. /\ \A x \in Node : currentTerm[x] \in Nat /\ hard[x].term \in Nat
        /\ \A m \in msgs : m.from \in Node /\ m.term \in Nat
        /\ \A b \in ballots : b[1] \in Node /\ b[2] \in Nat
    BY DEF Pre, TypeOK, HardState, Message
  <2> QED
    BY <2>1 DEF Pre, TermOrder, DurableBeforeVisible
<1> QED
  BY <1>1, PreAlways, PTL

\* A node votes once per term unless runCandidate overwrites a vote.
THEOREM VotesOnce == Spec => []VoteOnceUnlessOverwritten
<1>1. Pre => VoteOnceUnlessOverwritten
  BY DEF Pre, VoteKept, VoteOnceUnlessOverwritten
<1> QED
  BY <1>1, PreAlways, PTL

\* No step, a restart after a failed save included, lowers a node's term.
THEOREM TermsNeverFall == Spec => TermNeverFalls
<1>1. Pre /\ [Next]_vars => [termsKept]_vars
  <2> SUFFICES ASSUME Pre, Next, NEW x \in Node PROVE currentTerm'[x] >= currentTerm[x]
    BY DEF termsKept
  <2>1. PICK n \in Node : Effect(n)
    BY StepEffect
  <2>2. TypeOK'
    BY TypeStep DEF Pre
  <2>3. currentTerm[x] \in Nat /\ currentTerm'[x] \in Nat
    BY <2>2 DEF Pre, TypeOK
  <2> QED
    BY <2>1, <2>3 DEF Effect, NodeEffect
<1> QED
  BY <1>1, PreAlways, PTL DEF Spec, TermNeverFalls

----------------------------------------------------------------------------
(***************************************************************************)
(* Counting votes.  Only runCandidate, voteRespCounted and NewNode touch   *)
(* votes, campTerm and elected, or enter runCandidate's select.            *)
(***************************************************************************)
QuietCount ==
  /\ UNCHANGED <<votes, campTerm, elected>>
  /\ \A x \in Node : pc'[x] = "candidate" => pc[x] = "candidate"

\* Every other step leaves the count alone.
LEMMA CountStep ==
  ASSUME TypeOK, [Next]_vars
  PROVE  \/ QuietCount
         \/ \E n \in Node : runCandidate(n) \/ NewNode(n)
         \/ \E n \in Node : \E m \in msgs : voteRespCounted(n, m)
<1>1. ASSUME NEW n \in Node, run(n) PROVE QuietCount
  BY <1>1 DEF run, hist, QuietCount, TypeOK, State
<1>2. ASSUME NEW n \in Node, runFollowerReset(n) PROVE QuietCount
  BY <1>2 DEF runFollowerReset, loop, hist, QuietCount
<1>3. ASSUME NEW n \in Node, electionTimeout(n) PROVE QuietCount
  BY <1>3 DEF electionTimeout, hist, QuietCount, TypeOK
<1>4. ASSUME NEW n \in Node, selfVoteUnsaved(n) PROVE QuietCount
  BY <1>4 DEF selfVoteUnsaved, QuietCount, TypeOK
<1>5. ASSUME NEW n \in Node, runCandidateReset(n) PROVE QuietCount
  BY <1>5 DEF runCandidateReset, hist, QuietCount, TypeOK
<1>6. ASSUME NEW n \in Node, runLeaderStepDown(n) PROVE QuietCount
  BY <1>6 DEF runLeaderStepDown, hist, QuietCount, TypeOK
<1>7. ASSUME NEW n \in Node, NEW p \in Node, NEW type, replicateTo(n, p, type) PROVE QuietCount
  BY <1>7 DEF replicateTo, loop, hist, QuietCount
<1>8. ASSUME NEW n \in Node, NEW m \in msgs, voteRespNewer(n, m) PROVE QuietCount
  BY <1>8 DEF voteRespNewer, hist, QuietCount, TypeOK
<1>9. ASSUME NEW n \in Node, NEW m \in msgs, voteRespRefused(n, m) PROVE QuietCount
  BY <1>9 DEF voteRespRefused, loop, hist, QuietCount
<1>10. ASSUME NEW n \in Node, NEW m \in msgs, handleAppendResponse(n, m) PROVE QuietCount
  BY <1>10 DEF handleAppendResponse, loop, hist, QuietCount
<1>11. ASSUME NEW n \in Node, NEW m \in msgs, HandleVoteRequest(n, m) PROVE QuietCount
  BY Zenon, <1>11 DEF HandleVoteRequest, voteStale, voteTermUnsaved, voteRefused, voteUnsaved,
               voteGranted, loop, hist, QuietCount
<1>12. ASSUME NEW n \in Node, NEW m \in msgs, HandleAppendRequest(n, m) PROVE QuietCount
  BY Zenon, <1>12 DEF HandleAppendRequest, appendStale, appendTermUnsaved, appendAccepted,
               loop, hist, QuietCount
<1>13. ASSUME NEW n \in Node, NEW m \in msgs, HandleSnapshotRequest(n, m) PROVE QuietCount
  BY Zenon, <1>13 DEF HandleSnapshotRequest, loop, hist, QuietCount
<1>14. ASSUME NEW n \in Node, NEW m \in msgs, snapshotAcknowledged(n, m) PROVE QuietCount
  BY <1>14 DEF snapshotAcknowledged, loop, hist, QuietCount
<1>15. CASE UNCHANGED vars
  BY <1>15 DEF vars, loop, hist, QuietCount
<1> QED
  BY Zenon, <1>1, <1>2, <1>3, <1>4, <1>5, <1>6, <1>7, <1>8, <1>9, <1>10, <1>11, <1>12,
     <1>13, <1>14, <1>15 DEF Next, step

\* Votes of distinct peers and the candidate itself are as many as they look.
LEMMA VotersCount ==
  ASSUME NEW S, IsFiniteSet(S), NEW n, \A v \in S : v.from # n,
         \A v, w \in S : v.from = w.from => v = w
  PROVE  LET Q == {v.from : v \in S} \cup {n}
         IN  IsFiniteSet(Q) /\ Cardinality(Q) = Cardinality(S) + 1
<1> DEFINE T == {v.from : v \in S}
           f == [v \in S |-> v.from]
<1>1. f \in [S -> T] /\ (\A t \in T : \E v \in S : f[v] = t)
  OBVIOUS
<1>2. \A a, b \in DOMAIN f : f[a] = f[b] => a = b
  OBVIOUS
<1>3. f \in Bijection(S, T)
  BY <1>1, <1>2 DEF Bijection, Injection, Surjection, IsInjective
<1>4. ExistsBijection(S, T)
  BY <1>3 DEF ExistsBijection
<1>5. IsFiniteSet(T) /\ Cardinality(T) = Cardinality(S)
  BY <1>4, FS_Bijection
<1>6. n \notin T
  OBVIOUS
<1> QED
  BY Zenon, <1>5, <1>6, FS_AddElement

\* A quorum is a majority.
LEMMA QuorumIsMajority ==
  ASSUME NEW Q \in SUBSET Node, NEW R \in SUBSET Node,
         Cardinality(Q) >= quorumSize, Cardinality(R) >= quorumSize
  PROVE  Q \cap R # {}
<1>1. IsFiniteSet(Node) /\ Cardinality(Node) \in Nat
  BY ConstantsAssumption, FS_CardinalityType
<1>2. Cardinality(Q) \in Nat /\ Cardinality(R) \in Nat
  BY <1>1, FS_Subset, FS_CardinalityType
<1>3. Cardinality(Q) + Cardinality(R) > Cardinality(Node)
  BY <1>1, <1>2 DEF quorumSize
<1> QED
  BY <1>1, <1>3, FS_MajoritiesIntersect

\* A step keeps every ballot, forgets no race, and casts the votes it sends.
LEMMA HistoryGrows ==
  ASSUME Inv, [Next]_vars
  PROVE  /\ ballots \subseteq ballots' /\ race \subseteq race'
         /\ \A m \in msgs' : m.type = "voteResp" /\ m.granted
                               => <<m.from, m.term, m.to>> \in ballots'
<1>1. CASE Next
  <2>1. PICK n \in Node : Effect(n)
    BY <1>1, StepEffect DEF Inv, Pre
  <2> QED
    BY Zenon, <2>1 DEF Effect, NodeEffect, MsgEffect, Inv, VotesAreBallots
<1>2. CASE UNCHANGED vars
  BY <1>2 DEF vars, hist, Inv, VotesAreBallots
<1> QED
  BY <1>1, <1>2

\* Counted votes are ballots.
LEMMA BallotsStep == Inv /\ [Next]_vars => VotesAreBallots'
<1> SUFFICES ASSUME Inv, [Next]_vars PROVE VotesAreBallots'
  OBVIOUS
<1> DEFINE counted(x) == /\ IsFiniteSet(votes'[x])
                         /\ \A v \in votes'[x] : v.from # x /\ <<v.from, v.term, x>> \in ballots'
           self(x)    == pc'[x] = "candidate" => <<x, campTerm'[x], x>> \in ballots'
<1>1. SUFFICES ASSUME NEW x \in Node PROVE counted(x) /\ self(x)
  BY Zenon, HistoryGrows DEF VotesAreBallots
<1>2. /\ ballots \subseteq ballots' /\ IsFiniteSet(votes[x])
      /\ \A v \in votes[x] : v.from # x /\ <<v.from, v.term, x>> \in ballots
      /\ pc[x] = "candidate" => <<x, campTerm[x], x>> \in ballots
  BY HistoryGrows DEF Inv, VotesAreBallots
<1>3. TypeOK
  BY DEF Inv
<1>4. CASE QuietCount
  BY <1>2, <1>4 DEF QuietCount
<1>5. ASSUME NEW n \in Node, runCandidate(n) PROVE counted(x) /\ self(x)
  <2>1. /\ votes' = [votes EXCEPT ![n] = {}]
        /\ campTerm' = [campTerm EXCEPT ![n] = currentTerm[n]]
        /\ \A y \in Node \ {n} : pc'[y] = pc[y]
        /\ <<n, currentTerm[n], n>> \in ballots'
    BY <1>3, <1>5 DEF runCandidate, becomeLeader, TypeOK
  <2>2. CASE x = n
    BY <1>3, <2>1, <2>2, FS_EmptySet DEF TypeOK
  <2>3. CASE x # n
    BY <1>2, <1>3, <2>1, <2>3 DEF TypeOK
  <2> QED
    BY <2>2, <2>3
<1>6. ASSUME NEW n \in Node, NewNode(n) PROVE counted(x) /\ self(x)
  <2>1. /\ votes' = [votes EXCEPT ![n] = {}] /\ pc' = [pc EXCEPT ![n] = "dispatch"]
        /\ campTerm' = [campTerm EXCEPT ![n] = 0]
    BY <1>6 DEF NewNode
  <2>2. CASE x = n
    BY <1>3, <2>1, <2>2, FS_EmptySet DEF TypeOK
  <2>3. CASE x # n
    BY <1>2, <1>3, <2>1, <2>3 DEF TypeOK
  <2> QED
    BY <2>2, <2>3
<1>7. ASSUME NEW n \in Node, NEW m \in msgs, voteRespCounted(n, m) PROVE counted(x) /\ self(x)
  <2>1. /\ votes' = [votes EXCEPT ![n] = votes[n] \cup {m}]
        /\ UNCHANGED campTerm /\ pc[n] = "candidate"
        /\ \A y \in Node \ {n} : pc'[y] = pc[y]
        /\ m.type = "voteResp" /\ m.granted /\ m.to = n
    BY <1>3, <1>7 DEF voteRespCounted, becomeLeader, TypeOK
  <2>2. m.from # n /\ <<m.from, m.term, n>> \in ballots
    BY <2>1 DEF Inv, TermOrder, VotesAreBallots
  <2>3. CASE x = n
    <3>1. votes'[n] = votes[n] \cup {m}
      BY <1>3, <2>1 DEF TypeOK
    <3>2. IsFiniteSet(votes'[n])
      BY <1>2, <2>3, <3>1, FS_AddElement
    <3> QED
      BY <1>2, <2>1, <2>2, <2>3, <3>1, <3>2
  <2>4. CASE x # n
    BY <1>2, <1>3, <2>1, <2>4 DEF TypeOK
  <2> QED
    BY <2>3, <2>4
<1> QED
  BY <1>3, <1>4, <1>5, <1>6, <1>7, CountStep

\* Without a race, a leader has a majority of the ballots of its term.
LEMMA MajorityStep == Inv /\ [Next]_vars => WonByMajority'
<1> DEFINE own(x)    == \A v \in votes[x] : v.term = campTerm[x]
           single(x) == \A v, w \in votes[x] : v.from = w.from => v = w
           won(e)    == \E Q \in SUBSET Node :
                          /\ Cardinality(Q) >= quorumSize
                          /\ \A q \in Q : <<q, e[1], e[2]>> \in ballots
           wonNow(e) == \E Q \in SUBSET Node :
                          /\ Cardinality(Q) >= quorumSize
                          /\ \A q \in Q : <<q, e[1], e[2]>> \in ballots'
<1> SUFFICES ASSUME Inv, [Next]_vars, race' = {}
             PROVE  /\ \A x \in Node : own(x)' /\ single(x)'
                    /\ \A e \in elected' : wonNow(e)
  BY DEF WonByMajority
<1>1. /\ ballots \subseteq ballots' /\ race = {} /\ TypeOK
      /\ \A x \in Node : own(x) /\ single(x)
      /\ \A e \in elected : won(e)
  BY HistoryGrows DEF Inv, WonByMajority
<1>2. \A e \in elected : wonNow(e)
  BY <1>1
<1>3. CASE QuietCount
  BY <1>1, <1>2, <1>3 DEF QuietCount
<1>4. ASSUME NEW n \in Node, votes'[n] = {},
             \A x \in Node \ {n} : votes'[x] = votes[x] /\ campTerm'[x] = campTerm[x]
      PROVE  \A x \in Node : own(x)' /\ single(x)'
  BY <1>1, <1>4
<1>5. ASSUME NEW n \in Node, NewNode(n)
      PROVE  /\ \A x \in Node : own(x)' /\ single(x)'
             /\ \A e \in elected' : wonNow(e)
  <2>1. /\ votes' = [votes EXCEPT ![n] = {}] /\ UNCHANGED elected
        /\ campTerm' = [campTerm EXCEPT ![n] = 0]
    BY <1>5 DEF NewNode, hist
  <2>2. votes'[n] = {} /\ \A x \in Node \ {n} : votes'[x] = votes[x] /\ campTerm'[x] = campTerm[x]
    BY <1>1, <2>1 DEF TypeOK
  <2> QED
    BY <1>2, <1>4, <2>1, <2>2
<1>6. ASSUME NEW n \in Node, runCandidate(n)
      PROVE  /\ \A x \in Node : own(x)' /\ single(x)'
             /\ \A e \in elected' : wonNow(e)
  <2>1. /\ votes' = [votes EXCEPT ![n] = {}]
        /\ campTerm' = [campTerm EXCEPT ![n] = currentTerm[n]]
        /\ <<n, currentTerm[n], n>> \in ballots'
        /\ elected' = elected \/ (quorumSize <= 1 /\ elected' = elected \cup {<<currentTerm[n], n>>})
    BY <1>6 DEF runCandidate, becomeLeader
  <2>2. votes'[n] = {} /\ \A x \in Node \ {n} : votes'[x] = votes[x] /\ campTerm'[x] = campTerm[x]
    BY <1>1, <2>1 DEF TypeOK
  <2>3. quorumSize <= 1 => wonNow(<<currentTerm[n], n>>)
    <3>1. Cardinality({n}) = 1 /\ Cardinality(Node) \in Nat
      BY Zenon, FS_Singleton, FS_CardinalityType, ConstantsAssumption
    <3>2. quorumSize <= 1 => Cardinality({n}) >= quorumSize
      BY <3>1 DEF quorumSize
    <3>3. \A q \in {n} : <<q, currentTerm[n], n>> \in ballots'
      BY <2>1
    <3>4. {n} \in SUBSET Node
      OBVIOUS
    <3> QED
      BY <3>2, <3>3, <3>4
  <2> QED
    BY <1>2, <1>4, <2>1, <2>2, <2>3
<1>7. ASSUME NEW n \in Node, NEW m \in msgs, voteRespCounted(n, m)
      PROVE  /\ \A x \in Node : own(x)' /\ single(x)'
             /\ \A e \in elected' : wonNow(e)
  <2> DEFINE S == votes[n] \cup {m}
             wins == 1 + Cardinality(S) >= quorumSize
             Q == {v.from : v \in S} \cup {n}
  <2>1. /\ votes' = [votes EXCEPT ![n] = S] /\ UNCHANGED campTerm
        /\ pc[n] = "candidate" /\ m.type = "voteResp" /\ m.granted /\ m.to = n
        /\ m.term <= campTerm[n]
        /\ ~(m.term < campTerm[n])
        /\ ~(\E v \in votes[n] : v.from = m.from)
        /\ wins => currentTerm[n] = campTerm[n]
        /\ elected' = IF wins THEN elected \cup {<<currentTerm[n], n>>} ELSE elected
    BY <1>7 DEF voteRespCounted, becomeLeader
  <2>2. m.term = campTerm[n] /\ m.from \in Node /\ m.from # n
        /\ <<m.from, m.term, n>> \in ballots
    <3>1. m.term \in Nat /\ m.from \in Node /\ campTerm[n] \in Nat
      BY <1>1, MsgFields DEF TypeOK
    <3> QED
      BY <2>1, <3>1 DEF Inv, TermOrder, VotesAreBallots
  <2>3. votes'[n] = S /\ \A x \in Node \ {n} : votes'[x] = votes[x]
    BY <1>1, <2>1 DEF TypeOK
  <2>4. /\ \A v \in S : v.term = campTerm[n]
        /\ \A v, w \in S : v.from = w.from => v = w
    BY <1>1, <2>1, <2>2
  <2>5. \A x \in Node : own(x)' /\ single(x)'
    BY <1>1, <2>1, <2>3, <2>4
  <2>6. /\ IsFiniteSet(S) /\ \A v \in S : v.from # n /\ v.from \in Node
        /\ \A v \in S : <<v.from, v.term, n>> \in ballots
    <3>1. IsFiniteSet(S)
      BY FS_AddElement DEF Inv, VotesAreBallots
    <3>2. \A v \in votes[n] : v.from # n /\ <<v.from, v.term, n>> \in ballots
      BY DEF Inv, VotesAreBallots
    <3>3. \A v \in votes[n] : v.from \in Node
      BY <1>1 DEF TypeOK, Message
    <3> QED
      BY Zenon, <2>2, <3>1, <3>2, <3>3
  <2>7. Cardinality(Q) = Cardinality(S) + 1 /\ Cardinality(S) \in Nat
    BY Zenon, <2>4, <2>6, VotersCount, FS_CardinalityType
  <2>8. Q \in SUBSET Node
    BY <2>6
  <2>9. \A q \in Q : <<q, campTerm[n], n>> \in ballots
    <3>1. <<n, campTerm[n], n>> \in ballots
      BY <2>1 DEF Inv, VotesAreBallots
    <3> QED
      BY <2>4, <2>6, <3>1
  <2>10. wins => wonNow(<<currentTerm[n], n>>)
    <3> SUFFICES ASSUME wins
                 PROVE \E R \in SUBSET Node : /\ Cardinality(R) >= quorumSize
                                              /\ \A q \in R : <<q, currentTerm[n], n>> \in ballots'
      OBVIOUS
    <3>1. Cardinality(Q) >= quorumSize
      BY <2>7
    <3>2. \A q \in Q : <<q, currentTerm[n], n>> \in ballots'
      BY <1>1, <2>1, <2>9
    <3> QED
      BY <2>8, <3>1, <3>2
  <2> QED
    BY <1>2, <2>1, <2>5, <2>10
<1> QED
  BY <1>1, <1>2, <1>3, <1>5, <1>6, <1>7, CountStep DEF QuietCount

\* The invariant is inductive.
THEOREM Invariance == Spec => []Inv
<1>1. Init => Inv
  <2> SUFFICES ASSUME Init PROVE Inv
    OBVIOUS
  <2>1. Pre
    BY PreInit
  <2>2. VotesAreBallots /\ WonByMajority
    BY Zenon, FS_EmptySet DEF Init, VotesAreBallots, WonByMajority
  <2> QED
    BY <2>1, <2>2 DEF Pre, Inv
<1>2. Inv /\ [Next]_vars => Inv'
  BY PreStep, BallotsStep, MajorityStep DEF Inv, Pre
<1> QED
  BY <1>1, <1>2, PTL DEF Spec

\* Unless one of the four races happens, a term has one leader.
THEOREM ElectionsAreSafe == Spec => []ElectionSafetyUnlessRace
<1>1. Inv => ElectionSafetyUnlessRace
  <2> SUFFICES ASSUME Inv, race = {}, NEW e \in elected, NEW f \in elected, e[1] = f[1]
               PROVE  e[2] = f[2]
    BY DEF ElectionSafetyUnlessRace, ElectionSafety
  <2>1. PICK Q \in SUBSET Node : /\ Cardinality(Q) >= quorumSize
                                 /\ \A q \in Q : <<q, e[1], e[2]>> \in ballots
    BY DEF Inv, WonByMajority
  <2>2. PICK R \in SUBSET Node : /\ Cardinality(R) >= quorumSize
                                 /\ \A q \in R : <<q, f[1], f[2]>> \in ballots
    BY DEF Inv, WonByMajority
  <2>3. PICK q \in Q \cap R : TRUE
    BY <2>1, <2>2, QuorumIsMajority
  <2>4. <<q, e[1], e[2]>> \in ballots /\ <<q, e[1], f[2]>> \in ballots
    BY <2>1, <2>2, <2>3
  <2>5. VoteOnce
    BY DEF Inv, VoteKept
  <2> QED
    BY <2>4, <2>5 DEF VoteOnce
<1> QED
  BY <1>1, Invariance, PTL
=============================================================================
