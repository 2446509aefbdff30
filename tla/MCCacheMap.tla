---------------------------- MODULE MCCacheMap ----------------------------
(* Model-checking instances of CacheMap.                                   *)
EXTENDS CacheMap

CONSTANTS t1, t2, t3, a, b

MCThreads == {t1, t2, t3}
MCIds == {a, b}

NoIds == {}
ZeroReaders == {0}
=============================================================================
