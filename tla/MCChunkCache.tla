---------------------------- MODULE MCChunkCache ----------------------------
(* Model-checking instances of ChunkCache.                                 *)
EXTENDS ChunkCache, TLC

CONSTANTS w1, w2, a, b, c, d, e

MCTwoWorkers == {w1, w2}
MCFiveIds == {a, b, c, d, e}
NoIds == {}
Symmetry == Permutations(Workers) \union Permutations(DataIds \ WideIds)

ZeroReaders == {0}
NoFaults == {}
WriteAndReset == {"write", "reset"}
=============================================================================
