----------------------------- MODULE MCRaftLog ------------------------------
(* Instances of RaftLog for TLC. *)
EXTENDS RaftLog, TLC

CONSTANTS n1, n2, n3

Bounds(t, i, f, c, who, off, apply) ==
  [terms |-> t, indices |-> i, inFlight |-> f, crashes |-> c,
   contenders |-> who, down |-> off, integration |-> apply]

\* Four terms fought over at one index.
Fought == {Bounds(4, 1, 1, 0, Node \ {n}, {}, {}) : n \in Node}
\* Two contenders with conflicting tails.
Conflicts == {Bounds(2, 2, 1, 0, Node \ {n}, {}, {}) : n \in Node}
\* With one node down: RPCs that overtake each other and a restart, under a
\* leader that stays, and under two that contend; there one of them applies, or
\* both with one RPC at a time.
Reordered == UNION {{Bounds(2, 2, 2, 1, {n}, {p}, Node) : p \in Node \ {n}} : n \in Node}
Contended ==
  UNION {{Bounds(2, 2, 2, 1, Node \ {n}, {n}, {p}) : p \in Node \ {n}} : n \in Node}
  \cup {Bounds(2, 2, 1, 1, Node \ {n}, {n}, Node) : n \in Node}

\* One leader, every node up, the leader and one more apply.
Installs == UNION {{Bounds(1, 2, 1, 0, {n}, {}, {n, p}) : p \in Node \ {n}} : n \in Node}
Steady == {Bounds(1, 2, 1, 0, {n1}, {}, {n1, n2})}

Replication == Fought \cup Conflicts \cup Reordered \cup Contended \cup Installs

\* Two states that differ only in values no step reads again are one: the peer
\* indices of a node that is not leader, which becomeLeader resets, the votes
\* of a candidacy that is over, and a vote request nobody will answer.
LiveState ==
  LET running(n) == state[n] = "Candidate" /\ campaign[n].term = currentTerm[n]
  IN <<[n \in Node |-> IF state[n] = "Leader" THEN <<nextIndex[n], matchIndex[n]>> ELSE <<>>],
       [n \in Node |-> IF running(n) THEN granted[n] ELSE {}],
       [n \in Node |-> IF running(n) \/ asked[n] # {} THEN <<campaign[n]>> ELSE <<>>],
       currentTerm, votedFor, state, asked, mem, noop, taking, loops, disk, sm,
       msgs, hist, scenario>>

NodeSymmetry == Permutations(Node)
=============================================================================
