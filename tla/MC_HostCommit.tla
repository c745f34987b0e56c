---------------------------- MODULE MC_HostCommit ----------------------------
(* One edit of source and resource, with its Undo and Redo.                  *)
EXTENDS HostCommit
=============================================================================
