---------------------------- MODULE ReplicatedLog ----------------------------
(***************************************************************************)
(* What the Raft package promises its users: one sequence of entries that  *)
(* only grows, and zone stores that are the result of applying a prefix of *)
(* it.  A store moves forward, and back only when its process restarts.    *)
(***************************************************************************)
EXTENDS Sequences, SequencesExt, FiniteSets

CONSTANT Node

VARIABLES chosen,   \* the committed entries
          store,    \* per node, the entries applied to its zone store
          lapsed    \* the promise is off

Init == chosen = <<>> /\ store = [n \in Node |-> <<>>] /\ ~lapsed

\* A leader commits the entries up to a new index.
Choose ==
  /\ IsStrictPrefix(chosen, chosen')
  /\ UNCHANGED store

\* A node applies entries or restores a snapshot.
Advance(n) ==
  /\ IsStrictPrefix(store[n], store'[n])
  /\ IsPrefix(store'[n], chosen)
  /\ store' = [store EXCEPT ![n] = store'[n]]
  /\ UNCHANGED chosen

\* A node restarts from its last snapshot.
Reload(n) ==
  /\ IsStrictPrefix(store'[n], store[n])
  /\ store' = [store EXCEPT ![n] = store'[n]]
  /\ UNCHANGED chosen

Next == lapsed' \/ Choose \/ \E n \in Node : Advance(n) \/ Reload(n)

Spec == Init /\ [][Next]_<<chosen, store>>
=============================================================================
