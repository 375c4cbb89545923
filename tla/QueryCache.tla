------------------------------ MODULE QueryCache ------------------------------
(***************************************************************************)
(* The users of the response cache: the goroutines that answer queries from *)
(* it and fill it (cacheStage, upstreamStage and resolverStage of           *)
(* cmd/nothingdns/pipeline_stages.go, and the resolver's own lookups), the  *)
(* memory monitor, the administrator who flushes and configures it, the     *)
(* cluster that invalidates keys, and the file that carries it across       *)
(* restarts (cache_manager.go).                                             *)
(*                                                                          *)
(* A query takes the shard's lock several times; each stretch under the     *)
(* lock is an action.  No caller installs a prefetch function, so the       *)
(* prefetch branch of Get is never taken and its fields are left out.       *)
(* Which of the later hits promote an entry (one in sixteen) is a choice.   *)
(***************************************************************************)
EXTENDS Cache, NSECCache

CONSTANTS Name,        \* the questions clients ask: names, as numbers
          Worker,      \* goroutines that answer queries
          None,
          Scenarios    \* what may happen: see TypeOK

VARIABLES scenario,
          shard,
          cfg, newCfg,  \* the configuration, and the one that is being written
          work,         \* Worker -> the query it answers
          nsec,         \* the records of NSECCache
          pressure,     \* State of the memory monitor
          file,         \* cache.json
          saving,       \* the entries the save goroutine has read
          up,           \* the server runs
          now,
          used          \* how often each bounded thing has happened

vars == <<scenario, shard, cfg, newCfg, work, nsec, pressure, file, saving, up, now, used>>

\* The stage looks a question up under one key, the resolver under another.
KeyOf(name, form) == <<name, form>>

\* at: when the query looked the cache up.  proofs: the NSEC records of the answer
\* that are still to be kept.  reply is what the client got.
Idle == [pc |-> "idle", name |-> None, form |-> "stage", e |-> Nil, at |-> 0,
         resp |-> None, proofs |-> {}, reply |-> None]

held == {work[w].e : w \in Worker} \ {Nil}
heldWith(w, c) == ({work[v].e : v \in Worker \ {w}} \cup {c}) \ {Nil}

Bounded == {"queries", "ticks", "flushes", "checks", "deletes", "updates", "saves", "restarts"}
Config == [size : Nat, minTTL : Nat, maxTTL : Nat, negativeTTL : Nat, serveStale : BOOLEAN,
           staleGrace : Nat]
\* The state has the shape the code gives it, and the cells in use fit MaxCells.
TypeOK ==
  /\ scenario \in Scenarios
  /\ cfg \in Config /\ newCfg \in Config
  /\ shard.map \in [Key -> Cell \cup {Nil}]
  /\ {shard.front, shard.back} \subseteq Cell \cup {Nil}
  /\ \A w \in Worker :
       /\ work[w].pc \in {"idle", "lookup", "expired", "promote", "hit", "nsec", "ask", "store",
                         "side", "prove", "failed", "done"}
       /\ work[w].name \in Name \cup {None}
       /\ work[w].e \in Cell \cup {Nil}
       /\ (work[w].e # Nil) <=> work[w].pc \in {"expired", "promote", "hit"}
  /\ pressure \in {"normal", "warning", "critical"}
  /\ Cardinality(nsec) <= MaxNSEC
  /\ \A e \in file : ~ e.negative /\ e.key \in Key
  /\ used \in [Bounded -> Nat]
  /\ \A b \in Bounded : used[b] <= scenario[b]

Init ==
  /\ scenario \in Scenarios
  /\ cfg = scenario.config /\ newCfg = cfg
  /\ shard = EmptyShard(perShardCapacity(cfg.size))
  /\ work = [w \in Worker |-> Idle]
  /\ nsec = {}
  /\ pressure = "normal"
  /\ file = {} /\ saving = None
  /\ up = TRUE
  /\ now = 0
  /\ used = [b \in Bounded |-> 0]

count(b) == used[b] < scenario[b] /\ used' = [used EXCEPT ![b] = @ + 1]

\* The configuration is read without its lock: while UpdateConfig writes it, a
\* reader sees the old or the new value of each field.
Seen == {c \in [size : {cfg.size, newCfg.size}, minTTL : {cfg.minTTL, newCfg.minTTL},
                maxTTL : {cfg.maxTTL, newCfg.maxTTL},
                negativeTTL : {cfg.negativeTTL, newCfg.negativeTTL},
                serveStale : {cfg.serveStale, newCfg.serveStale},
                staleGrace : {cfg.staleGrace, newCfg.staleGrace}] : TRUE}

keyOf(q) == KeyOf(q.name, q.form)

--------------------------------------------------------------------------------
\* Answering a query.

\* After a lookup that found nothing.
missed(q) == [q EXCEPT !.pc = IF q.form = "stage" THEN "nsec" ELSE "ask", !.e = Nil]

\* Get, under the read lock.  The first hit of an entry promotes it.
getRead(w, q) ==
  LET c == shard.map[keyOf(q)]
      hit(promote) == [q EXCEPT !.pc = IF promote THEN "promote" ELSE "hit", !.e = c, !.at = now]
  IN \/ /\ c = Nil
        /\ work' = [work EXCEPT ![w] = missed([q EXCEPT !.at = now])]
        /\ UNCHANGED shard
     \/ /\ c # Nil /\ IsExpired(shard.heap[c], now)
        /\ work' = [work EXCEPT ![w] = [q EXCEPT !.pc = "expired", !.e = c, !.at = now]]
        /\ UNCHANGED shard
     \/ /\ c # Nil /\ ~ IsExpired(shard.heap[c], now)
        /\ \E promote \in IF shard.heap[c].touched THEN BOOLEAN ELSE {TRUE} :
             work' = [work EXCEPT ![w] = hit(promote)]
        /\ shard' = [shard EXCEPT !.heap[c].touched = TRUE]

\* A query arrives and cacheStage looks it up.
Query(w, name) ==
  /\ work[w].pc = "idle" /\ up /\ name \in scenario.names
  /\ count("queries")
  /\ getRead(w, [Idle EXCEPT !.name = name])
  /\ UNCHANGED <<cfg, newCfg, nsec, pressure, file, saving, up, now>>

others == <<cfg, newCfg, nsec, pressure, file, saving, up, now, used>>

\* The resolver looks it up.
Lookup(w) ==
  /\ work[w].pc = "lookup"
  /\ getRead(w, work[w])
  /\ UNCHANGED others

\* Get, for an expired entry, under the lock.  The entry may have been replaced
\* meanwhile; one that can still be served stale is kept.
Expire(w) ==
  /\ work[w].pc = "expired"
  /\ LET q == work[w]
         same == shard.map[keyOf(q)] = q.e
         dead(s) == s.serveStale => staleDeadlineReached(shard.heap[q.e], q.at, s.staleGrace)
     IN \E s \in Seen :
          shard' = collect(IF same /\ dead(s) THEN removeEntry(shard, q.e) ELSE shard,
                           heldWith(w, Nil))
  /\ work' = [work EXCEPT ![w] = missed(@)]
  /\ UNCHANGED others

\* Get, for a hit that promotes, under the lock.
Promote(w) ==
  /\ work[w].pc = "promote"
  /\ shard' = IF shard.map[keyOf(work[w])] = work[w].e THEN moveToFront(shard, work[w].e) ELSE shard
  /\ work' = [work EXCEPT ![w].pc = "hit"]
  /\ UNCHANGED others

replied(kind, ttls) == [Idle EXCEPT !.pc = "done", !.reply = [kind |-> kind, ttls |-> ttls]]

\* The entry is sent, whatever has become of it in the cache: the stage counts
\* its age off the TTLs, the resolver does not.
Serve(w) ==
  /\ work[w].pc = "hit"
  /\ LET e == shard.heap[work[w].e]
     IN work' = [work EXCEPT ![w] = replied("cached", IF work[w].form = "stage"
                                                      THEN AgeAdjustedMessage(e, now) ELSE e.rrs)]
  /\ shard' = collect(shard, heldWith(w, Nil))
  /\ UNCHANGED others

\* nsecCacheStage.  After it a resolver looks up its own key before it asks the
\* authorities, a forwarder asks its upstream.
Deny(w) ==
  /\ work[w].pc = "nsec"
  /\ LET q == work[w]
     IN work' = [work EXCEPT ![w] =
          IF denying(nsec, q.name, now) # {} THEN [replied("denied", <<>>) EXCEPT !.name = q.name]
          ELSE IF scenario.resolver THEN [q EXCEPT !.pc = "lookup", !.form = "resolver"]
          ELSE [q EXCEPT !.pc = "ask"]]
  /\ UNCHANGED shard /\ UNCHANGED others

\* In the scenarios where the zone is asked, its authority tells the truth.
truthful(r, name) ==
  scenario.signed => CASE r.kind = "answer" -> name \notin ZoneName \ HasType
                       [] r.kind = "negative" -> name \in Exists \ HasType
                       [] r.kind = "denial" -> name \in ZoneName \ Exists
                       [] OTHER -> TRUE

\* The upstream or an authority answers, or the query times out.
Answer(w) ==
  /\ work[w].pc = "ask"
  /\ \/ \E r \in scenario.responses :
          truthful(r, work[w].name) /\ work' = [work EXCEPT ![w].pc = "store", ![w].resp = r]
     \/ scenario.failing /\ work' = [work EXCEPT ![w].pc = "failed"]
  /\ UNCHANGED shard /\ UNCHANGED others

\* The lifetime the resolver gives an answer: the smallest of its records,
\* where a 0 is overwritten by the record after it.
resolverTTL(rrs) ==
  LET ttl == FoldLeft(LAMBDA t, r : IF t = 0 \/ r < t THEN r ELSE t, 0, rrs)
  IN IF ttl = 0 THEN DefaultTTL ELSE ttl

lifetime(rrs) == IF scenario.resolver THEN resolverTTL(rrs) ELSE extractTTL(rrs)

answered(q) == replied("fresh", q.resp.rrs)

\* The answer is cached.  A forwarder then keeps a validated denial, and a
\* resolver the address of the name the chain ends at, under its own key.
Store(w) ==
  /\ work[w].pc = "store"
  /\ LET q == work[w]
         r == q.resp
     IN /\ \E c \in Seen :
             shard' = collect(
               CASE r.kind = "other" -> shard
                 [] r.kind = "answer" -> Set(shard, held, c, now, keyOf(q), r.rrs, lifetime(r.rrs))
                 [] OTHER -> SetNegativeMessage(shard, held, c, now, keyOf(q), r),
               held)
        /\ work' = [work EXCEPT ![w] =
             IF r.kind = "denial" /\ ~ scenario.resolver THEN [q EXCEPT !.pc = "prove", !.proofs = {Covering(q.name), Covering(Wildcard)}]
             ELSE IF scenario.resolver /\ r.side \notin {None, q.name} THEN [q EXCEPT !.pc = "side"]
             ELSE answered(q)]
  /\ UNCHANGED others

StoreSide(w) ==
  /\ work[w].pc = "side"
  /\ LET q == work[w]
         ttl == Last(q.resp.rrs)
     IN \E c \in Seen :
          shard' = collect(Set(shard, held, c, now, KeyOf(q.resp.side, q.form), <<ttl>>, ttl), held)
  /\ work' = [work EXCEPT ![w] = answered(@)]
  /\ UNCHANGED others

\* The records of a denial are kept one by one, each under the lock.
Prove(w) ==
  /\ work[w].pc = "prove"
  /\ LET q == work[w]
         left(p) == q.proofs \ {p}
     IN \E p \in q.proofs :
          /\ nsec' \in AddFromResponse(nsec, p, q.resp.rrs[1], q.resp.minimum, now)
          /\ work' = [work EXCEPT ![w] = IF left(p) = {} THEN answered(q) ELSE [q EXCEPT !.proofs = left(p)]]
  /\ UNCHANGED <<shard, cfg, newCfg, pressure, file, saving, up, now, used>>

graceOver(e, s) == staleDeadlineReached(e, now, s.staleGrace)

\* GetStale after a failure.  The stage's key is used, by resolverStage too.
ServeStale(w) ==
  /\ work[w].pc = "failed"
  /\ \E s \in Seen :
       LET c == shard.map[KeyOf(work[w].name, "stage")]
           found == s.serveStale /\ c # Nil /\ IsExpired(shard.heap[c], now)
           dead == graceOver(shard.heap[c], s)
       IN \/ /\ ~ found
             /\ work' = [work EXCEPT ![w] = replied("servfail", <<>>)]
             /\ UNCHANGED shard
          \/ /\ found /\ dead
             /\ work' = [work EXCEPT ![w] = replied("servfail", <<>>)]
             /\ shard' = collect(removeEntry(shard, c), held)
          \/ /\ found /\ ~ dead
             /\ work' = [work EXCEPT ![w] = replied("stale", clampMessageTTLs(shard.heap[c].rrs, StaleTTL))]
             /\ shard' = moveToFront(shard, c)
  /\ UNCHANGED others

Finish(w) ==
  /\ work[w].pc = "done"
  /\ work' = [work EXCEPT ![w] = Idle]
  /\ UNCHANGED shard /\ UNCHANGED others

--------------------------------------------------------------------------------
\* The others who change the cache.

Flush ==
  /\ up /\ count("flushes")
  /\ shard' = collect(Clear(shard), held)
  /\ UNCHANGED <<cfg, newCfg, work, nsec, pressure, file, saving, up, now>>

\* The memory monitor finds another level of use: it halves the cache on a
\* warning, also when memory was critical before, and clears it when critical.
Check ==
  /\ up /\ count("checks")
  /\ \E state \in {"normal", "warning", "critical"} \ {pressure} :
       /\ pressure' = state
       /\ shard' = collect(CASE state = "critical" -> Clear(shard)
                             [] state = "warning" -> EvictPercent(shard, 50)
                             [] state = "normal" -> shard, held)
  /\ UNCHANGED <<cfg, newCfg, work, nsec, file, saving, up, now>>

\* Another node of the cluster says a key is no longer valid.
InvalidateCacheLocal(key) ==
  /\ up /\ key[1] \in scenario.names /\ count("deletes")
  /\ shard' = collect(DeleteLocal(shard, key), held)
  /\ UNCHANGED <<cfg, newCfg, work, nsec, pressure, file, saving, up, now>>

\* The administrator changes the configuration: its fields, and then the limit
\* of the shard, whose surplus stays until the next entry is added.
UpdateConfig ==
  /\ up /\ newCfg = cfg /\ count("updates")
  /\ newCfg' \in scenario.configs \ {cfg}
  /\ UNCHANGED <<shard, cfg, work, nsec, pressure, file, saving, up, now>>
UpdateCapacity ==
  /\ newCfg # cfg
  /\ cfg' = newCfg
  /\ shard' = [shard EXCEPT !.capacity = perShardCapacity(newCfg.size)]
  /\ UNCHANGED <<newCfg, work, nsec, pressure, file, saving, up, now, used>>

\* The save goroutine reads the cache, and writes what it read.  An empty cache
\* is not written: the file keeps what it held.
saveToFile ==
  /\ up /\ saving = None /\ count("saves")
  /\ saving' = IF Save(shard, now) = {} THEN None ELSE Save(shard, now)
  /\ UNCHANGED <<shard, cfg, newCfg, work, nsec, pressure, file, up, now>>
writeCachePersistFile ==
  /\ saving # None
  /\ \/ file' = saving
     \/ scenario.failing /\ UNCHANGED file
  /\ saving' = None
  /\ UNCHANGED <<shard, cfg, newCfg, work, nsec, pressure, up, now, used>>

\* The process ends: after a last save, or at any time.
halt ==
  /\ up /\ used["restarts"] < scenario.restarts
  /\ up' = FALSE
  /\ shard' = EmptyShard(shard.capacity)
  /\ work' = [w \in Worker |-> Idle]
  /\ newCfg' = cfg
  /\ nsec' = {}
  /\ pressure' = "normal"
  /\ saving' = None
  /\ UNCHANGED <<cfg, now, used>>
Stop ==
  /\ halt
  /\ saving = None
  /\ file' = IF Save(shard, now) = {} THEN file ELSE Save(shard, now)
Crash == halt /\ UNCHANGED file

\* The next process reads the file and the configuration, and then answers.
LoadCache ==
  /\ ~ up /\ count("restarts")
  /\ up' = TRUE
  /\ cfg' = scenario.config /\ newCfg' = cfg'
  /\ \E saved \in SetToSeqs(file) :
       shard' = collect(Load(EmptyShard(perShardCapacity(cfg'.size)), cfg', now, saved), {})
  /\ UNCHANGED <<work, nsec, pressure, file, saving, now>>

Tick ==
  /\ count("ticks")
  /\ now' = now + 1
  /\ UNCHANGED <<shard, cfg, newCfg, work, nsec, pressure, file, saving, up>>

Step(w) == \/ Lookup(w) \/ Expire(w) \/ Promote(w) \/ Serve(w) \/ Deny(w) \/ Answer(w)
           \/ Store(w) \/ StoreSide(w) \/ Prove(w) \/ ServeStale(w) \/ Finish(w)

Next ==
  /\ \/ \E w \in Worker : Step(w) \/ \E name \in Name : Query(w, name)
     \/ Flush \/ Check \/ \E key \in Key : InvalidateCacheLocal(key)
     \/ UpdateConfig \/ UpdateCapacity
     \/ saveToFile \/ writeCachePersistFile
     \/ Stop \/ Crash \/ LoadCache
     \/ Tick
  /\ UNCHANGED scenario

Spec == Init /\ [][Next]_vars

--------------------------------------------------------------------------------
\* Properties.

\* The cells from one end of the list to the other.
along(first, step(_)) ==
  LET nth[n \in 1 .. MaxCells + 1] ==
        IF n = 1 THEN first ELSE IF nth[n - 1] = Nil THEN Nil ELSE step(nth[n - 1])
  IN [n \in 1 .. Cardinality({n \in 1 .. MaxCells + 1 : nth[n] # Nil}) |-> nth[n]]
forward == along(shard.front, LAMBDA c : shard.heap[c].next)

\* The shard behaves as an LRU cache: storing a key takes only the least
\* recently used others and only when it must, lookups reorder or drop one key,
\* a shortage of memory takes the least recently used.
Shard == INSTANCE LRU WITH order <- [i \in DOMAIN forward |-> shard.heap[forward[i]].key],
                           expired <- {k \in Key : /\ shard.map[k] # Nil
                                                   /\ IsExpired(shard.heap[shard.map[k]], now)},
                           capacity <- shard.capacity,
                           boots <- 2 * used["restarts"] + IF up THEN 0 ELSE 1,
                           orders <- used["flushes"] + used["checks"] + used["deletes"]
BehavesAsLRU == Shard!Spec

\* An entry outlives the lifetime it was stored with by less than the minimum
\* TTL for every restart it was carried across (Load raises what is left of a
\* lifetime to the minimum).
LifetimeBounded ==
  \A e \in file \cup {shard.heap[c] : c \in ToSet(forward)} :
    e.expire <= e.due + used["restarts"] * Max({0, scenario.config.minTTL - 1})

\* A name of the zone is denied from kept records only when it has no records
\* of the type.  (The range of the record that leads back to the apex also
\* takes in names outside the zone: nothing compares the zones.)
DenialsTrue ==
  \A w \in Worker : (/\ work[w].pc = "done" /\ work[w].reply.kind = "denied"
                     /\ work[w].name \in ZoneName) => work[w].name \notin HasType
===============================================================================
