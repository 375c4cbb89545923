---------------------------- MODULE RaftElection ----------------------------
(***************************************************************************)
(* Leader election of internal/cluster/raft: the run loop of every node    *)
(* (run, runFollower, runCandidate, runLeader), the RPC handlers that run  *)
(* beside it under the node lock, and the HardState file.                  *)
(*                                                                         *)
(* Two threads of one node share its state: the run loop, whose position   *)
(* is pc[n], and the RPC server, whose handlers take the lock and may fire *)
(* between any two critical sections of the loop.  One action is one       *)
(* critical section.  The log is abstracted: a vote request meets a log    *)
(* that is or is not up to date (isLogUpToDate), either way.               *)
(*                                                                         *)
(* msgs holds the RPCs in flight and the responses not yet consumed (those *)
(* still in voteRespCh and appendRespCh included).  A message that is lost *)
(* or that meets a full channel is one that is never picked up again.      *)
(***************************************************************************)
EXTENDS Integers, FiniteSets

CONSTANTS Node,          \* the cluster members
          None,          \* votedFor = "" and leaderID = ""
          Scenarios      \* the scenarios explored, see Scenario

(***************************************************************************)
(* saveHardState writes a temporary file, renames it over the old one and  *)
(* fsyncs the directory.  "ok": all of it worked.  "fail": an error before *)
(* the rename, the old file stays.  "late": the rename happened and the    *)
(* directory fsync failed, so the caller sees an error and the disk has    *)
(* the new value.                                                          *)
(***************************************************************************)
SaveOutcome == {"ok", "fail", "late"}

(***************************************************************************)
(* What a behaviour is limited to: bounds on the terms a node starts, on   *)
(* its campaigns in one term and on its restarts; the nodes whose election *)
(* timer ever fires; the nodes that are down throughout; the RPCs leaders  *)
(* send; what saveHardState may do.                                        *)
(***************************************************************************)
Scenario == [terms : Nat, rounds : Nat, crashes : Nat, contenders : SUBSET Node,
             down : SUBSET Node, rpcs : SUBSET {"append", "snap"}, saves : SUBSET SaveOutcome]

ASSUME ConstantsAssumption ==
  /\ None \notin Node
  /\ IsFiniteSet(Node)

ASSUME ScenariosAssumption == \A s \in Scenarios : s \in Scenario /\ "ok" \in s.saves

VARIABLES
  currentTerm, votedFor, state, leaderID,   \* Node fields of the same name
  hard,        \* hard[n]: the contents of raft-hardstate.bin
  pc,          \* where the run loop of n is
  campTerm,    \* runCandidate's local "term"
  round,       \* how many times n campaigned in campTerm
  votes,       \* the granted responses runCandidate counted: voteCount - 1
  resetCh,     \* electionResetCh holds a signal
  msgs,        \* RPCs and responses in flight
  scenario,    \* the scenario of this behaviour
  inc,         \* inc[n]: how many times n has been restarted
  ballots,     \* history: <<voter, term, candidate>>, every vote ever cast
  elected,     \* history: <<term, node>>, every entry into StateLeader
  race         \* history: which of the unguarded orders below have happened

mem  == <<currentTerm, votedFor, state, leaderID>>
loop == <<pc, campTerm, round, votes>>
hist == <<ballots, elected, race>>
vars == <<mem, hard, loop, resetCh, msgs, inc, hist, scenario>>

SaveOutcomes == scenario.saves

State == {"Follower", "Candidate", "Leader"}

(***************************************************************************)
(* dispatch: at the top of run()'s loop.  follower: in runFollower's       *)
(* select.  campaign: run() has read StateCandidate and released the lock, *)
(* runCandidate has not taken it yet.  candidate: in runCandidate's select.*)
(* leader: in runLeader's select.                                          *)
(***************************************************************************)
PC == {"dispatch", "follower", "campaign", "candidate", "leader"}

(***************************************************************************)
(* Orders of events the code does not exclude and election safety depends  *)
(* on.                                                                     *)
(*   staleVote      a vote granted in an earlier term is counted now       *)
(*   duplicateVote  two responses of one peer are counted in one candidacy *)
(*   lateWin        becomeLeader(term) runs when currentTerm is not term   *)
(*   voteOverwrite  runCandidate votes for itself over a vote given away   *)
(***************************************************************************)
Race == {"staleVote", "duplicateVote", "lateWin", "voteOverwrite"}

HardState == [term : Nat, vote : Node \cup {None}]

Message ==
  [type  : {"vote", "voteResp", "append", "appendResp", "snap", "snapResp"},
   term  : Nat, from : Node, to : Node,
   round : Nat,          \* the campaign a vote request or response belongs to
   granted : BOOLEAN,    \* VoteGranted
   inc   : Nat]          \* the incarnation of the sender of a request

Msg(type, term, from, to, rnd, granted) ==
  [type |-> type, term |-> term, from |-> from, to |-> to, round |-> rnd,
   granted |-> granted, inc |-> inc[from]]

peers(n) == Node \ {n}

\* Mutant: half the cluster is enough.
quorumSizeHalf == Cardinality(Node) \div 2

quorumSize == Cardinality(Node) \div 2 + 1

TypeOK ==
  /\ currentTerm \in [Node -> Nat]
  /\ votedFor \in [Node -> Node \cup {None}]
  /\ state \in [Node -> State]
  /\ leaderID \in [Node -> Node \cup {None}]
  /\ hard \in [Node -> HardState]
  /\ pc \in [Node -> PC]
  /\ campTerm \in [Node -> Nat]
  /\ round \in [Node -> Nat]
  /\ votes \in [Node -> SUBSET Message]
  /\ \A n \in Node : \A v \in votes[n] : v.type = "voteResp" /\ v.granted
  /\ resetCh \in [Node -> BOOLEAN]
  /\ msgs \subseteq Message
  /\ inc \in [Node -> Nat]
  /\ ballots \subseteq Node \X Nat \X Node
  /\ elected \subseteq Nat \X Node
  /\ race \subseteq Race

Init ==
  /\ currentTerm = [n \in Node |-> 0]
  /\ votedFor = [n \in Node |-> None]
  /\ state = [n \in Node |-> "Follower"]
  /\ leaderID = [n \in Node |-> None]
  /\ hard = [n \in Node |-> [term |-> 0, vote |-> None]]
  /\ pc = [n \in Node |-> "dispatch"]
  /\ campTerm = [n \in Node |-> 0]
  /\ round = [n \in Node |-> 0]
  /\ votes = [n \in Node |-> {}]
  /\ resetCh = [n \in Node |-> FALSE]
  /\ msgs = {}
  /\ inc = [n \in Node |-> 0]
  /\ scenario \in Scenarios
  /\ ballots = {}
  /\ elected = {}
  /\ race = {}

----------------------------------------------------------------------------
(***************************************************************************)
(* Persistence.  persistHardStateLocked runs before the memory changes;    *)
(* the callers below change memory only when r = "ok".                     *)
(***************************************************************************)

\* Mutant: only the term reaches the file.
saveHardStateNoVote(disk, n, term, vote, r) ==
  IF r = "fail" THEN disk
  ELSE [disk EXCEPT ![n] = [term |-> term, vote |-> None]]

\* The HardState files after saveHardState of n ended with r.
saveHardState(disk, n, term, vote, r) ==
  IF r = "fail" THEN disk
  ELSE [disk EXCEPT ![n] = [term |-> term, vote |-> vote]]

\* Mutant: memory changes even when the save failed.
advanceTermLockedUnchecked(n, t, role, r) ==
  /\ hard' = saveHardState(hard, n, t, None, r)
  /\ currentTerm' = [currentTerm EXCEPT ![n] = t]
  /\ votedFor' = [votedFor EXCEPT ![n] = None]
  /\ r = "ok" => state' = [state EXCEPT ![n] = role]

\* advanceTermLocked(t) for t > currentTerm; the new role is the caller's.
advanceTermLocked(n, t, role, r) ==
  /\ hard' = saveHardState(hard, n, t, None, r)
  /\ IF r = "ok"
     THEN /\ currentTerm' = [currentTerm EXCEPT ![n] = t]
          /\ votedFor' = [votedFor EXCEPT ![n] = None]
          /\ state' = [state EXCEPT ![n] = role]
     ELSE UNCHANGED <<currentTerm, votedFor>>

\* The answer goes back on the connection of the request, if it still exists.
Reply(m, resp) ==
  msgs' = (msgs \ {m}) \cup (IF m.inc = inc[m.from] THEN {resp} ELSE {})

Consume(m) == msgs' = msgs \ {m}

----------------------------------------------------------------------------
(***************************************************************************)
(* The run loop.                                                           *)
(***************************************************************************)

\* run(): read n.state under the lock, release it, enter the role's loop.
run(n) ==
  /\ pc[n] = "dispatch"
  /\ pc' = [pc EXCEPT ![n] = CASE state[n] = "Follower"  -> "follower"
                               [] state[n] = "Candidate" -> "campaign"
                               [] state[n] = "Leader"    -> "leader"]
  /\ UNCHANGED <<mem, hard, campTerm, round, votes, resetCh, msgs, inc, hist>>

\* runFollower, case <-electionResetCh: only the timer restarts.
runFollowerReset(n) ==
  /\ pc[n] = "follower"
  /\ resetCh[n]
  /\ resetCh' = [resetCh EXCEPT ![n] = FALSE]
  /\ UNCHANGED <<mem, hard, loop, msgs, inc, hist>>

\* runFollower and runCandidate, case <-electionTimer.C.  When the term
\* cannot be saved a candidate falls back to follower, a follower stays one.
electionTimeout(n) ==
  /\ n \in scenario.contenders
  /\ pc[n] \in {"follower", "candidate"}
  /\ currentTerm[n] < scenario.terms
  /\ pc' = [pc EXCEPT ![n] = "dispatch"]
  /\ \E r \in SaveOutcomes :
       /\ advanceTermLocked(n, currentTerm[n] + 1, "Candidate", r)
       /\ r # "ok" => state' = IF pc[n] = "candidate"
                               THEN [state EXCEPT ![n] = "Follower"]
                               ELSE state
  /\ UNCHANGED <<leaderID, campTerm, round, votes, resetCh, msgs, inc, hist>>

\* becomeLeader(term): the caller's term is not compared with currentTerm.
becomeLeader(n, term) ==
  /\ state' = [state EXCEPT ![n] = "Leader"]
  /\ leaderID' = [leaderID EXCEPT ![n] = n]
  /\ pc' = [pc EXCEPT ![n] = "dispatch"]
  /\ elected' = elected \cup {<<currentTerm[n], n>>}

\* Voting for itself over a vote it has given to somebody else.
noteOverwrite(n) ==
  race' = IF votedFor[n] \in {None, n} THEN race
          ELSE race \cup {"voteOverwrite"}

\* runCandidate when the self-vote cannot be saved.
selfVoteUnsaved(n) ==
  /\ pc[n] = "campaign"
  /\ votedFor[n] # n
  /\ \E r \in SaveOutcomes \ {"ok"} :
       hard' = saveHardState(hard, n, currentTerm[n], n, r)
  /\ noteOverwrite(n)
  /\ state' = [state EXCEPT ![n] = "Follower"]
  /\ pc' = [pc EXCEPT ![n] = "dispatch"]
  /\ UNCHANGED <<currentTerm, votedFor, leaderID, campTerm, round, votes,
                 resetCh, msgs, inc, ballots, elected>>

\* runCandidate up to its select: vote for self, persist, ask every peer.  A
\* self-vote that is already a quorum wins on the spot.
runCandidate(n) ==
  /\ pc[n] = "campaign"
  /\ campTerm[n] = currentTerm[n] => round[n] < scenario.rounds
  /\ hard' = IF votedFor[n] = n THEN hard
             ELSE saveHardState(hard, n, currentTerm[n], n, "ok")
  /\ noteOverwrite(n)
  /\ votedFor' = [votedFor EXCEPT ![n] = n]
  /\ ballots' = ballots \cup {<<n, currentTerm[n], n>>}
  /\ campTerm' = [campTerm EXCEPT ![n] = currentTerm[n]]
  /\ round' = [round EXCEPT ![n] =
                 IF campTerm[n] = currentTerm[n] THEN round[n] + 1 ELSE 1]
  /\ votes' = [votes EXCEPT ![n] = {}]
  /\ msgs' = msgs \cup
       {Msg("vote", currentTerm[n], n, p, round'[n], FALSE) : p \in peers(n)}
  /\ IF quorumSize <= 1
     THEN becomeLeader(n, currentTerm[n])
     ELSE /\ pc' = [pc EXCEPT ![n] = "candidate"]
          /\ UNCHANGED <<state, leaderID, elected>>
  /\ UNCHANGED <<currentTerm, resetCh, inc>>

\* runCandidate, case <-electionResetCh.
runCandidateReset(n) ==
  /\ pc[n] = "candidate"
  /\ resetCh[n]
  /\ resetCh' = [resetCh EXCEPT ![n] = FALSE]
  /\ pc' = IF state[n] = "Candidate" THEN pc
           ELSE [pc EXCEPT ![n] = "dispatch"]
  /\ UNCHANGED <<mem, hard, campTerm, round, votes, msgs, inc, hist>>

\* runCandidate, case <-voteRespCh: a newer term ends the candidacy.
voteRespNewer(n, m) ==
  /\ pc[n] = "candidate"
  /\ m.type = "voteResp" /\ m.to = n
  /\ m.term > campTerm[n]
  /\ pc' = [pc EXCEPT ![n] = "dispatch"]
  /\ IF m.term > currentTerm[n]
     THEN \E r \in SaveOutcomes :
            /\ advanceTermLocked(n, m.term, "Follower", r)
            /\ r # "ok" => UNCHANGED state
     ELSE /\ state' = [state EXCEPT ![n] = "Follower"]
          /\ UNCHANGED <<currentTerm, votedFor, hard>>
  /\ Consume(m)
  /\ UNCHANGED <<leaderID, campTerm, round, votes, resetCh, inc, hist>>

\* runCandidate, case <-voteRespCh: any granted response is counted.
voteRespCounted(n, m) ==
  /\ pc[n] = "candidate"
  /\ m.type = "voteResp" /\ m.to = n
  /\ m.term <= campTerm[n]
  /\ m.granted
  /\ LET counted == votes[n] \cup {m}
         wins    == 1 + Cardinality(counted) >= quorumSize
     IN /\ votes' = [votes EXCEPT ![n] = counted]
        /\ race' = race
             \cup (IF m.term < campTerm[n] THEN {"staleVote"} ELSE {})
             \cup (IF \E v \in votes[n] : v.from = m.from
                   THEN {"duplicateVote"} ELSE {})
             \cup (IF wins /\ currentTerm[n] # campTerm[n]
                   THEN {"lateWin"} ELSE {})
        /\ IF wins THEN becomeLeader(n, campTerm[n])
           ELSE UNCHANGED <<state, leaderID, pc, elected>>
  /\ Consume(m)
  /\ UNCHANGED <<currentTerm, votedFor, hard, campTerm, round, resetCh, inc,
                 ballots>>

\* runCandidate, case <-voteRespCh: a refusal is dropped.
voteRespRefused(n, m) ==
  /\ pc[n] = "candidate"
  /\ m.type = "voteResp" /\ m.to = n
  /\ m.term <= campTerm[n]
  /\ ~m.granted
  /\ Consume(m)
  /\ UNCHANGED <<mem, hard, loop, resetCh, inc, hist>>

\* runLeader, case <-heartbeatTicker.C of a node that is no longer leader.
runLeaderStepDown(n) ==
  /\ pc[n] = "leader"
  /\ state[n] # "Leader"
  /\ pc' = [pc EXCEPT ![n] = "dispatch"]
  /\ UNCHANGED <<mem, hard, campTerm, round, votes, resetCh, msgs, inc, hist>>

\* replicateTo, from the heartbeat tick or after a proposal: AppendEntries, or
\* InstallSnapshot when the peer is behind the snapshot.
replicateTo(n, p, type) ==
  /\ state[n] = "Leader"
  /\ p \in peers(n)
  /\ type \in scenario.rpcs
  /\ msgs' = msgs \cup {Msg(type, currentTerm[n], n, p, 0, FALSE)}
  /\ UNCHANGED <<mem, hard, loop, resetCh, inc, hist>>

\* runLeader, case <-appendRespCh: handleAppendResponse.
handleAppendResponse(n, m) ==
  /\ pc[n] = "leader"
  /\ m.type = "appendResp" /\ m.to = n
  /\ IF state[n] = "Leader" /\ m.term > currentTerm[n]
     THEN \E r \in SaveOutcomes :
            /\ advanceTermLocked(n, m.term, "Follower", r)
            /\ r # "ok" => state' = [state EXCEPT ![n] = "Follower"]
     ELSE UNCHANGED <<currentTerm, votedFor, state, hard>>
  /\ Consume(m)
  /\ UNCHANGED <<leaderID, loop, resetCh, inc, hist>>

----------------------------------------------------------------------------
(***************************************************************************)
(* RPC handlers and the goroutines that wait for an answer.                *)
(***************************************************************************)

\* HandleVoteRequest: adopt the request's term if it is newer (one save), then
\* decide on the vote (another save).
isVoteRequest(n, m) == m.type = "vote" /\ m.to = n

voteResponse(n, m, t, granted) ==
  Reply(m, Msg("voteResp", t, n, m.from, m.round, granted))

\* votedFor once the request's term is adopted.
voteInTerm(n, m) == IF m.term > currentTerm[n] THEN None ELSE votedFor[n]

\* The node and its file once the request's term is adopted.
diskInTerm(n, m) ==
  IF m.term > currentTerm[n] THEN saveHardState(hard, n, m.term, None, "ok")
  ELSE hard

adoptTerm(n, m) ==
  /\ m.term >= currentTerm[n]
  /\ currentTerm' = [currentTerm EXCEPT ![n] = m.term]
  /\ state' = [state EXCEPT ![n] =
                 IF m.term > currentTerm[n] THEN "Follower" ELSE state[n]]

voteStale(n, m) ==
  /\ isVoteRequest(n, m)
  /\ m.term < currentTerm[n]
  /\ voteResponse(n, m, currentTerm[n], FALSE)
  /\ UNCHANGED <<mem, hard, loop, resetCh, inc, hist>>

voteTermUnsaved(n, m) ==
  /\ isVoteRequest(n, m)
  /\ m.term > currentTerm[n]
  /\ \E r \in SaveOutcomes \ {"ok"} :
       hard' = saveHardState(hard, n, m.term, None, r)
  /\ voteResponse(n, m, currentTerm[n], FALSE)
  /\ UNCHANGED <<mem, loop, resetCh, inc, hist>>

\* Already voted for somebody else, or the candidate's log is behind.
voteRefused(n, m) ==
  /\ isVoteRequest(n, m)
  /\ adoptTerm(n, m)
  /\ votedFor' = [votedFor EXCEPT ![n] = voteInTerm(n, m)]
  /\ hard' = diskInTerm(n, m)
  /\ voteResponse(n, m, m.term, FALSE)
  /\ UNCHANGED <<leaderID, loop, resetCh, inc, hist>>

voteUnsaved(n, m) ==
  /\ isVoteRequest(n, m)
  /\ adoptTerm(n, m)
  /\ voteInTerm(n, m) = None
  /\ votedFor' = [votedFor EXCEPT ![n] = None]
  /\ \E r \in SaveOutcomes \ {"ok"} :
       hard' = saveHardState(diskInTerm(n, m), n, m.term, m.from, r)
  /\ voteResponse(n, m, m.term, FALSE)
  /\ UNCHANGED <<leaderID, loop, resetCh, inc, hist>>

voteGranted(n, m) ==
  /\ isVoteRequest(n, m)
  /\ adoptTerm(n, m)
  /\ voteInTerm(n, m) \in {None, m.from}
  /\ votedFor' = [votedFor EXCEPT ![n] = m.from]
  /\ hard' = IF voteInTerm(n, m) = m.from THEN hard
             ELSE saveHardState(diskInTerm(n, m), n, m.term, m.from, "ok")
  /\ resetCh' = [resetCh EXCEPT ![n] = TRUE]
  /\ ballots' = ballots \cup {<<n, m.term, m.from>>}
  /\ voteResponse(n, m, m.term, TRUE)
  /\ UNCHANGED <<leaderID, loop, inc, elected, race>>

HandleVoteRequest(n, m) ==
  \/ voteStale(n, m) \/ voteTermUnsaved(n, m) \/ voteRefused(n, m)
  \/ voteUnsaved(n, m) \/ voteGranted(n, m)

\* appendEntriesLocked up to the log-consistency check.
appendResponse(n, m, t) == Reply(m, Msg("appendResp", t, n, m.from, 0, FALSE))

appendStale(n, m) ==
  /\ m.type = "append" /\ m.to = n
  /\ m.term < currentTerm[n]
  /\ appendResponse(n, m, currentTerm[n])
  /\ UNCHANGED <<mem, hard, loop, resetCh, inc, hist>>

appendTermUnsaved(n, m) ==
  /\ m.type = "append" /\ m.to = n
  /\ m.term > currentTerm[n]
  /\ \E r \in SaveOutcomes \ {"ok"} :
       hard' = saveHardState(hard, n, m.term, None, r)
  /\ appendResponse(n, m, currentTerm[n])
  /\ UNCHANGED <<mem, loop, resetCh, inc, hist>>

appendAccepted(n, m) ==
  /\ m.type = "append" /\ m.to = n
  /\ m.term >= currentTerm[n]
  /\ currentTerm' = [currentTerm EXCEPT ![n] = m.term]
  /\ votedFor' = [votedFor EXCEPT ![n] = voteInTerm(n, m)]
  /\ hard' = diskInTerm(n, m)
  /\ state' = [state EXCEPT ![n] = "Follower"]
  /\ leaderID' = [leaderID EXCEPT ![n] = m.from]
  /\ resetCh' = [resetCh EXCEPT ![n] = TRUE]
  /\ appendResponse(n, m, m.term)
  /\ UNCHANGED <<loop, inc, hist>>

HandleAppendRequest(n, m) ==
  appendStale(n, m) \/ appendTermUnsaved(n, m) \/ appendAccepted(n, m)

\* HandleSnapshotRequest: adopts a newer term, and neither touches the role of
\* a node already in that term nor restarts its election timer.
HandleSnapshotRequest(n, m) ==
  /\ m.type = "snap" /\ m.to = n
  /\ IF m.term > currentTerm[n]
     THEN \E r \in SaveOutcomes :
            /\ advanceTermLocked(n, m.term, "Follower", r)
            /\ r # "ok" => UNCHANGED state
            /\ Reply(m, Msg("snapResp", currentTerm'[n], n, m.from, 0, FALSE))
     ELSE /\ Reply(m, Msg("snapResp", currentTerm[n], n, m.from, 0, FALSE))
          /\ UNCHANGED <<currentTerm, votedFor, state, hard>>
  /\ UNCHANGED <<leaderID, loop, resetCh, inc, hist>>

\* sendInstallSnapshot's goroutine: a newer term deposes whatever n is now.
snapshotAcknowledged(n, m) ==
  /\ m.type = "snapResp" /\ m.to = n
  /\ IF m.term > currentTerm[n]
     THEN \E r \in SaveOutcomes :
            /\ advanceTermLocked(n, m.term, "Follower", r)
            /\ r # "ok" => state' = [state EXCEPT ![n] = "Follower"]
     ELSE UNCHANGED <<currentTerm, votedFor, state, hard>>
  /\ Consume(m)
  /\ UNCHANGED <<leaderID, loop, resetCh, inc, hist>>

\* A crash and the boot that follows it: NewNode restores term and vote from
\* the file, everything else starts over.  What was on its way to n is gone;
\* a request n sent may still be handled, but its connection is gone.
NewNode(n) ==
  /\ inc[n] < scenario.crashes
  /\ currentTerm' = [currentTerm EXCEPT ![n] = hard[n].term]
  /\ votedFor' = [votedFor EXCEPT ![n] = hard[n].vote]
  /\ state' = [state EXCEPT ![n] = "Follower"]
  /\ leaderID' = [leaderID EXCEPT ![n] = None]
  /\ pc' = [pc EXCEPT ![n] = "dispatch"]
  /\ campTerm' = [campTerm EXCEPT ![n] = 0]
  /\ round' = [round EXCEPT ![n] = 0]
  /\ votes' = [votes EXCEPT ![n] = {}]
  /\ resetCh' = [resetCh EXCEPT ![n] = FALSE]
  /\ msgs' = {m \in msgs : m.to # n}
  /\ inc' = [inc EXCEPT ![n] = @ + 1]
  /\ UNCHANGED <<hard, hist>>

step ==
  \/ \E n \in Node \ scenario.down :
       \/ run(n) \/ runFollowerReset(n) \/ electionTimeout(n)
       \/ selfVoteUnsaved(n) \/ runCandidate(n) \/ runCandidateReset(n)
       \/ runLeaderStepDown(n) \/ NewNode(n)
       \/ \E p \in Node \ scenario.down, type \in {"append", "snap"} : replicateTo(n, p, type)
  \/ \E n \in Node \ scenario.down : \E m \in msgs :
       \/ voteRespNewer(n, m) \/ voteRespCounted(n, m) \/ voteRespRefused(n, m)
       \/ handleAppendResponse(n, m)
       \/ HandleVoteRequest(n, m) \/ HandleAppendRequest(n, m)
       \/ HandleSnapshotRequest(n, m) \/ snapshotAcknowledged(n, m)

Next == step /\ UNCHANGED scenario

Spec == Init /\ [][Next]_vars

----------------------------------------------------------------------------
(***************************************************************************)
(* Properties.                                                             *)
(***************************************************************************)

\* At most one node ever becomes leader of a term.  becomeLeader stamps
\* StateLeader on whatever term the node is in.
ElectionSafety ==
  \A e, f \in elected : e[1] = f[1] => e[2] = f[2]

\* The four orders in Race are the only ways the code can elect two leaders in
\* one term, whatever crashes, failed saves and delayed RPCs happen.
ElectionSafetyUnlessRace == race = {} => ElectionSafety

\* A node votes for one candidate per term.
VoteOnce ==
  \A b, c \in ballots : b[1] = c[1] /\ b[2] = c[2] => b[3] = c[3]

\* Restarts, failed and half-failed saves and repeated requests never make a
\* node vote twice in a term: only runCandidate's unconditional self-vote can.
VoteOnceUnlessOverwritten == "voteOverwrite" \notin race => VoteOnce

\* Whatever a node has told anyone, and whatever it holds in memory, is not
\* ahead of its HardState file, so a crash cannot take it back.
DurableBeforeVisible ==
  /\ \A n \in Node : currentTerm[n] <= hard[n].term
  /\ \A m \in msgs : m.term <= hard[m.from].term
  /\ \A b \in ballots : b[2] <= hard[b[1]].term

\* A node's term never decreases, through crashes and failed saves included.
termsKept == \A n \in Node : currentTerm'[n] >= currentTerm[n]
TermNeverFalls == [][termsKept]_vars

----------------------------------------------------------------------------
(***************************************************************************)
(* The inductive invariant behind the properties above.                    *)
(***************************************************************************)

\* No term in a message or a ballot is ahead of its owner's memory, and no
\* memory is ahead of its file.
TermOrder ==
  /\ \A n \in Node : currentTerm[n] <= hard[n].term
  /\ \A m \in msgs : m.term <= currentTerm[m.from] /\ m.from # m.to
  /\ \A b \in ballots : b[2] <= currentTerm[b[1]]

\* The vote of the current term is the one in memory, and the file agrees with
\* memory whenever it is in the same term.
VoteKept ==
  "voteOverwrite" \notin race =>
    /\ \A b \in ballots : b[2] = currentTerm[b[1]] => votedFor[b[1]] = b[3]
    /\ \A n \in Node : hard[n].term = currentTerm[n] /\ votedFor[n] # None
                         => hard[n].vote = votedFor[n]
    /\ VoteOnce

\* Every granted response and every counted vote is a ballot.
VotesAreBallots ==
  /\ \A m \in msgs : m.type = "voteResp" /\ m.granted
                       => <<m.from, m.term, m.to>> \in ballots
  /\ \A n \in Node : IsFiniteSet(votes[n])
  /\ \A n \in Node : \A v \in votes[n] :
       v.from # n /\ <<v.from, v.term, n>> \in ballots
  /\ \A n \in Node : pc[n] = "candidate" => <<n, campTerm[n], n>> \in ballots

\* Without a race a candidacy counts one vote per peer, all of its own term,
\* and a leader was elected by a majority in its term.
WonByMajority ==
  race = {} =>
    /\ \A n \in Node : \A v \in votes[n] : v.term = campTerm[n]
    /\ \A n \in Node : \A v, w \in votes[n] : v.from = w.from => v = w
    /\ \A e \in elected : \E Q \in SUBSET Node :
         /\ Cardinality(Q) >= quorumSize
         /\ \A q \in Q : <<q, e[1], e[2]>> \in ballots

Inv == TypeOK /\ TermOrder /\ VoteKept /\ VotesAreBallots /\ WonByMajority

=============================================================================
