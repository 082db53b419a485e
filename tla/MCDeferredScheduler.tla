------------------------ MODULE MCDeferredScheduler ------------------------
(* Instances of DeferredScheduler for TLC: one task is due early, the other *)
(* late enough to be restored after a restart.                              *)
EXTENDS DeferredScheduler
CONSTANTS Early, Late
MCFireAt == [t \in Task |-> IF t = Early THEN 2 ELSE 3]
=============================================================================
