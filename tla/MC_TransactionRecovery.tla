------------------------ MODULE MC_TransactionRecovery ------------------------
(* A transaction of a few targets, its crashes and its startup recovery.      *)
EXTENDS TransactionRefinement
=============================================================================
