---------------------------- MODULE MCExpressSync -----------------------------
(* Instances of ExpressSync for TLC.                                        *)
EXTENDS ExpressSync

(* Two signallers of different ids in one word, and two waiters for one id. *)
MCIdsOf == [t \in Signallers \cup SyncWaiters |-> IF t = "s2" THEN {2} ELSE {1}]
===============================================================================
