------------------------------- MODULE MCMain -------------------------------
EXTENDS Main

\* A sum (GETLATENCY) and a value that is set (CACHE_USED_MIB), in the order
\* task_function adds to them.  OVER_TIME sums are kept as AVG sums are.
MCTypes == [m \in 0 .. 1 |-> <<"AVG", "SET">>[m + 1]]
MCRecorded == <<0, 1>>
MCSamples == Requests
=============================================================================
