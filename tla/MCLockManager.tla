--------------------------- MODULE MCLockManager ---------------------------
(* Instances of LockManager for TLC.                                       *)
EXTENDS LockManager, TLC

CONSTANTS d1, d2, d3, w1, w2, w3

\* Three dispatches of three agents.
OwnWorker == (d1 :> w1) @@ (d2 :> w2) @@ (d3 :> w3)
=============================================================================
