---------------------------- MODULE MCQueryCache ----------------------------
\* Two goroutines that answer queries.
EXTENDS QueryCache, TLC

CONSTANTS w1, w2

TwoWorkers == {w1, w2}
Symmetry == Permutations(TwoWorkers)
\* 2 to 5 are the signed zone: 2 and 4 exist, 2 lacks the type.  1 is a name of
\* another zone.
Names == 1 .. 5
Zone == 2 .. 5
Existing == {2, 4}
Typed == {4}
Keys == (Names \X {"stage"}) \cup ({1, 5} \X {"resolver"})

answer(rrs) == [kind |-> "answer", rrs |-> rrs, minimum |-> 0, side |-> None]
negative(rrs, minimum) == [kind |-> "negative", rrs |-> rrs, minimum |-> minimum, side |-> None]
denial(rrs, minimum) == [negative(rrs, minimum) EXCEPT !.kind = "denial"]
other == [kind |-> "other", rrs |-> <<>>, minimum |-> 0, side |-> None]

Plain == [size |-> 1, minTTL |-> 1, maxTTL |-> 3, negativeTTL |-> 1, serveStale |-> FALSE,
          staleGrace |-> 0]
Stale == [Plain EXCEPT !.serveStale = TRUE, !.staleGrace = 2]

\* Nothing happens but what the fields that are replaced allow.
Still == [names |-> {1, 5}, signed |-> FALSE, config |-> Plain, configs |-> {},
          responses |-> {answer(<<2>>)}, failing |-> FALSE, resolver |-> FALSE, queries |-> 4, ticks |-> 2, flushes |-> 0, checks |-> 0,
          deletes |-> 0, updates |-> 0, saves |-> 0, restarts |-> 0]

\* Two queries race for a shard of one and of two entries.
Racing == {[Still EXCEPT !.config.size = size, !.responses = {answer(<<1, 3>>)}] : size \in {2, 4}}

\* Answers of every kind.
Answering == {[Still EXCEPT !.queries = 2, !.config.size = 4, !.ticks = 3,
                            !.responses = {answer(<<0>>), answer(<<4>>), negative(<<2>>, 1), other}]}

\* The upstream fails.
Failing == {[Still EXCEPT !.config = Stale, !.failing = TRUE, !.queries = 3, !.ticks = 4,
                          !.responses = {answer(<<1>>)}]}

\* The cache is flushed, shortened and invalidated under the queries.
Emptying == {[Still EXCEPT !.config.size = 4, !.queries = 3, !.ticks = 1, !.flushes = 1,
                           !.checks = 2, !.deletes = 1]}

\* The configuration changes under the queries.
Tuning == {[Still EXCEPT !.config = [Stale EXCEPT !.size = 4], !.queries = 3, !.ticks = 2,
                         !.failing = TRUE, !.updates = 1,
                         !.configs = {Plain, [Stale EXCEPT !.minTTL = 3, !.staleGrace = 1]}]}

\* The server restarts.
Restarting == {[Still EXCEPT !.config.minTTL = 2, !.config.size = 2, !.responses = {answer(<<3>>)},
                             !.queries = 2, !.ticks = 4, !.saves = 1, !.restarts = 2, !.names = {1}],
               [Still EXCEPT !.config.size = 4, !.responses = {answer(<<3>>)}, !.failing = TRUE,
                             !.queries = 2, !.ticks = 1, !.saves = 1, !.restarts = 1, !.flushes = 1]}

\* The server resolves by itself.
Resolving == {[Still EXCEPT !.resolver = TRUE, !.config = [Stale EXCEPT !.size = 4], !.failing = TRUE,
                            !.queries = 3, !.ticks = 1,
                            !.responses = {[answer(<<2, 0, 1>>) EXCEPT !.side = 5], negative(<<1>>, 1)}]}

\* The names of a signed zone are asked for.
Denying == {[Still EXCEPT !.signed = TRUE, !.names = Names, !.queries = 3, !.ticks = 1,
                          !.responses = {answer(<<1>>), negative(<<1>>, 1), denial(<<2>>, 1)}]}

All == Racing \cup Answering \cup Failing \cup Emptying \cup Tuning \cup Restarting \cup Resolving
       \cup Denying
=============================================================================
