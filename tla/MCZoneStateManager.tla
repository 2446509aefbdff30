------------------------- MODULE MCZoneStateManager -------------------------
(* Model-checking instances of ZoneStateManager.                           *)
EXTENDS ZoneStateManager, TLC

CONSTANTS t1, t2, t3

MCThreads == {t1, t2, t3}
Symmetry == Permutations(MCThreads)

NoFaults == {}
AllFaults == DeviceCommands
=============================================================================
