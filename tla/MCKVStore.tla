------------------------------ MODULE MCKVStore ------------------------------
\* Two goroutines and two buckets of one key and one nested bucket.
EXTENDS KVStore, TLC

CONSTANTS p1, p2, b1, b2, k1, c1, v1, v2

TwoProcs == {p1, p2}
TwoBuckets == {b1, b2}
OneKey == {k1}
OneChild == {c1}
OneVal == {v1}
TwoVals == {v1, v2}
Symmetric == Permutations(TwoProcs) \cup Permutations(TwoBuckets)
=============================================================================
