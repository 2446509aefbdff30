----------------------------- MODULE MCZNCache -----------------------------
(* Model-checking instances of ZNCache.                                    *)
EXTENDS ZNCache, TLC

CONSTANTS w1, w2, a, b, c

MCTwoWorkers == {w1, w2}
MCThreeIds == {a, b, c}
MCOneWide == {c}
NoIds == {}
Symmetry == Permutations(Workers) \union Permutations(DataIds \ WideIds)

ZeroReaders == {0}
NoFaults == {}
FaultsButFinish == {"write", "read", "open", "reset"}
=============================================================================
