----------------------------- MODULE MCMinheap -----------------------------
(* Model-checking instance of Minheap.                                     *)
EXTENDS Minheap, TLC

CONSTANTS e1, e2, e3, e4, e5, e6

MCEntries == {e1, e2, e3, e4, e5, e6}
EntrySymmetry == Permutations(MCEntries)
MCPriorities == 0 .. 2
=============================================================================
