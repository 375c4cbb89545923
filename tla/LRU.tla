---------------------------------- MODULE LRU ----------------------------------
(***************************************************************************)
(* What a shard of the response cache promises: a bounded set of keys in    *)
(* order of use, where making room takes the least recently used.           *)
(***************************************************************************)
EXTENDS Naturals, Sequences, SequencesExt, Functions

CONSTANT Key

VARIABLES order,     \* the cached keys, most recently used first
          expired,   \* the keys whose lifetime is over; time is not described
          capacity,
          orders,    \* how often somebody asked for the cache to shrink
          boots      \* how often a process has ended or started

Without(k) == SelectSeq(order, LAMBDA x : x # k)
Newest(s, n) == SubSeq(s, 1, IF n < Len(s) THEN n ELSE Len(s))

Init == order = <<>> /\ orders = 0 /\ boots = 0

\* A key is looked up and becomes the most recently used, or stays where it is.
Use(k) == Contains(order, k) /\ order' = <<k>> \o Without(k)

\* A key is stored: only the least recently used others leave to make room.
Put(k) == order' = <<k>> \o Newest(Without(k), capacity - 1)

\* A key whose lifetime is over leaves.
Expire(k) == k \in expired /\ order' = Without(k)

\* On an order a key is deleted, or the least recently used keys leave.
Shrink == \/ \E k \in Key : order' = Without(k)
          \/ \E n \in 0 .. Len(order) : order' = Newest(order, n)

\* The limit changes.  What is cached stays until the next Put.
Resize == capacity' # capacity /\ UNCHANGED order

\* The process ends, or a new one starts from a file.
Restart == /\ boots' = boots + 1
           /\ IsInjective(order')
           /\ ToSet(order') \subseteq Key
           /\ Len(order') <= capacity'

Next == /\ \/ (\E k \in Key : Use(k) \/ Put(k) \/ Expire(k)) /\ UNCHANGED <<capacity, orders, boots>>
           \/ Shrink /\ orders' = orders + 1 /\ UNCHANGED <<capacity, boots>>
           \/ Resize /\ UNCHANGED <<orders, boots>>
           \/ Restart /\ UNCHANGED orders
        /\ expired' \subseteq Key

Spec == Init /\ [][Next]_<<order, capacity, orders, boots>>
================================================================================
