--------------------------------- MODULE Cache ---------------------------------
(***************************************************************************)
(* One shard of the response cache of internal/cache/cache.go: a map from   *)
(* keys to entries, and the entries linked into a list in order of use.     *)
(* The operators below take and return a shard; QueryCache runs them under  *)
(* the shard's lock, as the code does.                                      *)
(*                                                                          *)
(* An entry is a cell of a heap.  A reader keeps a pointer to an entry      *)
(* after it has released the lock, so a cell is free only when nothing      *)
(* points at it.  Time is in seconds.  A message is the sequence of the     *)
(* TTLs of its records.                                                     *)
(***************************************************************************)
EXTENDS Integers, Sequences, FiniteSets, FiniteSetsExt, SequencesExt

CONSTANTS Key,         \* cache keys of this shard
          MaxCells,    \* bound on the entries that exist at one time
          NumShards    \* 16 in the code

ASSUME CacheAssumption == MaxCells \in Nat \ {0} /\ NumShards \in Nat \ {0}

Nil == 0
Cell == 1 .. MaxCells

\* Constants of the code, scaled down with the lifetimes.
DefaultTTL == 2    \* 300: the lifetime of an answer whose records have TTL 0
StaleTTL == 1      \* 30: the largest TTL of a stale answer

\* due (when the entry was to expire when it was first stored) and restored
\* (it comes from a file) are history.
NoEntry == [key |-> Nil, negative |-> FALSE, rrs |-> <<>>, expire |-> 0, insertedAt |-> 0,
            touched |-> FALSE, prev |-> Nil, next |-> Nil, due |-> 0, restored |-> FALSE]

EmptyShard(capacity) == [map |-> [k \in Key |-> Nil], front |-> Nil, back |-> Nil,
                         capacity |-> capacity, heap |-> [c \in Cell |-> NoEntry]]

perShardCapacity(total) == Max({1, (total + NumShards - 1) \div NumShards})

Size(s) == Cardinality({k \in Key : s.map[k] # Nil})

--------------------------------------------------------------------------------
\* The list.

setNext(heap, c, n) == IF c = Nil THEN heap ELSE [heap EXCEPT ![c].next = n]
setPrev(heap, c, p) == IF c = Nil THEN heap ELSE [heap EXCEPT ![c].prev = p]

\* Also run on a cell that is in no list, this empties the list.
intrusiveRemove(s, c) ==
  LET p == s.heap[c].prev
      n == s.heap[c].next
  IN [s EXCEPT !.heap = [setPrev(setNext(@, p, n), n, p) EXCEPT ![c].prev = Nil, ![c].next = Nil],
               !.front = IF p = Nil THEN n ELSE @,
               !.back = IF n = Nil THEN p ELSE @]

pushFront(s, c) ==
  [s EXCEPT !.heap = setPrev(setNext(setPrev(@, c, Nil), c, s.front), s.front, c),
            !.front = c,
            !.back = IF @ = Nil THEN c ELSE @]

moveToFront(s, c) == IF c = s.front THEN s ELSE pushFront(intrusiveRemove(s, c), c)

removeEntry(s, c) == [intrusiveRemove(s, c) EXCEPT !.map[s.heap[c].key] = Nil]

evictOldest(s) == IF s.back = Nil THEN s ELSE removeEntry(s, s.back)

\* n evictions, or fewer when the list runs out.
evict(s, n) == FoldSet(LAMBDA i, t : evictOldest(t), s, 1 .. n)

Live(s, held) == ({s.map[k] : k \in Key} \cup {s.front, s.back} \cup held) \ {Nil}

\* The cells that nothing points at are collected.
collect(s, held) ==
  [s EXCEPT !.heap = [c \in Cell |-> IF c \in Live(s, held) THEN @[c] ELSE NoEntry]]

\* Before the change that drops the old entry first, a full shard evicted
\* another key on every refresh.
addEntryEvictingFirst(s, held, entry) ==
  LET roomy == evict(s, Max({0, Size(s) - s.capacity + 1}))
      old == roomy.map[entry.key]
      rest == IF old = Nil THEN roomy ELSE removeEntry(roomy, old)
      c == Min(Cell \ Live(rest, held))
  IN pushFront([rest EXCEPT !.heap[c] = entry, !.map[entry.key] = c], c)

\* held: the cells that readers point at.
addEntry(s, held, entry) ==
  LET old == s.map[entry.key]
      rest == IF old = Nil THEN s ELSE removeEntry(s, old)
      roomy == evict(rest, Max({0, Size(rest) - s.capacity + 1}))
      c == Min(Cell \ Live(roomy, held))
  IN pushFront([roomy EXCEPT !.heap[c] = entry, !.map[entry.key] = c], c)

--------------------------------------------------------------------------------
\* Entries.

IsExpired(e, now) == now >= e.expire

staleDeadlineReached(e, now, grace) == now >= e.expire + grace

\* The TTLs of the message, less its age and at least 1.
AgeAdjustedMessage(e, now) ==
  IF now <= e.insertedAt THEN e.rrs
  ELSE [i \in DOMAIN e.rrs |-> Max({1, e.rrs[i] - (now - e.insertedAt)})]

clampMessageTTLs(rrs, maxTTL) == [i \in DOMAIN rrs |-> Min({rrs[i], maxTTL})]

\* A maximum of 0 is no maximum.
clampDuration(cfg, d) ==
  LET atLeast == Max({d, cfg.minTTL})
  IN IF cfg.maxTTL > 0 THEN Min({atLeast, cfg.maxTTL}) ELSE atLeast

newEntry(key, negative, rrs, now, duration) ==
  [NoEntry EXCEPT !.key = key, !.negative = negative, !.rrs = rrs, !.insertedAt = now,
                  !.expire = now + duration, !.due = now + duration]

\* The lifetime of a forwarded answer: that of the first record that has one.
extractTTL(rrs) ==
  LET some == {i \in DOMAIN rrs : rrs[i] > 0}
  IN IF some = {} THEN DefaultTTL ELSE rrs[Min(some)]

Set(s, held, cfg, now, key, rrs, ttl) ==
  addEntry(s, held, newEntry(key, FALSE, rrs, now, clampDuration(cfg, ttl)))

\* SetNegativeMessage: the lifetime comes from the SOA record, of which the
\* configured one is a ceiling, and the value where there is no SOA.
negativeCacheTTL(resp) == IF resp.rrs = <<>> THEN 0 ELSE Min({resp.rrs[1], resp.minimum})

SetNegativeMessage(s, held, cfg, now, key, resp) ==
  LET ttl == negativeCacheTTL(resp)
      d == IF ttl = 0 THEN cfg.negativeTTL
           ELSE IF cfg.negativeTTL > 0 THEN Min({ttl, cfg.negativeTTL}) ELSE ttl
  IN addEntry(s, held, newEntry(key, TRUE, resp.rrs, now, clampDuration(cfg, d)))

EvictPercent(s, percent) ==
  LET n == (Size(s) * percent) \div 100
  IN evict(s, IF n = 0 /\ Size(s) > 0 THEN 1 ELSE n)

DeleteLocal(s, key) == IF s.map[key] = Nil THEN s ELSE removeEntry(s, s.map[key])

\* Every entry is unlinked, and map and list start anew.
Clear(s) ==
  [s EXCEPT !.map = [k \in Key |-> Nil], !.front = Nil, !.back = Nil,
            !.heap = [c \in Cell |-> [@[c] EXCEPT !.prev = Nil, !.next = Nil]]]

--------------------------------------------------------------------------------
\* Persistence.

\* The entries that are written: fresh, positive ones.
Save(s, now) ==
  LET kept == {s.heap[s.map[k]] : k \in {k \in Key : s.map[k] # Nil}}
  IN {[e EXCEPT !.insertedAt = 0, !.touched = FALSE, !.prev = Nil, !.next = Nil] :
        e \in {e \in kept : ~ IsExpired(e, now) /\ ~ e.negative}}

\* One saved entry is put back, with its message as it was first stored and
\* what is left of its lifetime.
restoreWhole(s, cfg, now, e) ==
  IF e.expire <= now THEN s
  ELSE addEntry(s, {}, [newEntry(e.key, FALSE, e.rrs, now, clampDuration(cfg, extractTTL(e.rrs)))
                          EXCEPT !.due = e.due, !.restored = TRUE])
restore(s, cfg, now, e) ==
  IF e.expire <= now THEN s
  ELSE addEntry(s, {}, [newEntry(e.key, FALSE, e.rrs, now, clampDuration(cfg, e.expire - now))
                          EXCEPT !.due = e.due, !.restored = TRUE])

\* saved is a sequence: the order of the file.
Load(s, cfg, now, saved) == FoldLeft(LAMBDA t, e : restore(t, cfg, now, e), s, saved)
================================================================================
