--------------------------- MODULE MCRaftElection ---------------------------
(* RaftElection on a cluster of three. *)
EXTENDS RaftElection, TLC

Bounds(t, r, c, who, off, sent, written) ==
  [terms |-> t, rounds |-> r, crashes |-> c, contenders |-> who, down |-> off,
   rpcs |-> sent, saves |-> written]

\* Two contenders, two terms.
Races  == {Bounds(2, 1, 0, Node \ {n}, {}, {}, {"ok"}) : n \in Node}
\* Two contenders that campaign twice in a term.
Rounds == {Bounds(1, 2, 0, Node \ {n}, {}, {}, {"ok"}) : n \in Node}
\* Two contenders, restarts, and disks that fail.
Votes  == {Bounds(1, 1, 1, Node \ {n}, {}, {}, SaveOutcome) : n \in Node}
\* A node is down; the others have two terms, restart, and have disks that fail.
Disk   == {Bounds(2, 1, 1, Node \ {n}, {n}, {"append"}, SaveOutcome) : n \in Node}
\* The same with one term, InstallSnapshot as well, and two restarts.
Installs == {Bounds(1, 1, 2, Node \ {n}, {n}, {"append", "snap"}, SaveOutcome) : n \in Node}

Elections == Races \cup Rounds \cup Votes \cup Disk \cup Installs

\* Two states that differ only in values no step and no property reads again
\* are one: leaderID, the votes of a candidacy that is over, the loop of a node
\* whose timer never fires, and what was elected before a race.
LiveState ==
  <<currentTerm, votedFor, state, hard, msgs, inc, scenario, campTerm, round,
    [n \in Node |-> IF pc[n] = "candidate" THEN votes[n] ELSE {}],
    [n \in Node |-> IF n \in scenario.contenders THEN <<pc[n], resetCh[n]>> ELSE <<>>],
    race = {}, "voteOverwrite" \in race,
    IF race = {} THEN elected ELSE {}, ballots>>

NodeSymmetry == Permutations(Node)
=============================================================================
