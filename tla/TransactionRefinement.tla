------------------------ MODULE TransactionRefinement ------------------------
(***************************************************************************)
(* What the caller of a transaction, or the next startup, is told of it,   *)
(* and the atomic update that makes of it.                                 *)
(***************************************************************************)
EXTENDS TransactionInvariant

\* While the run is in progress, and when it rejected, nothing is promised.
RunVerdict ==
  CASE pc = "settled" /\ result = "committed"                -> "committed"
    [] pc = "settled" /\ result \in {"aborted", "rolledBack"} -> "reverted"
    [] pc = "settled" /\ result = "recoveryRequired"         -> "manual"
    [] OTHER                                                 -> "open"

\* After a crash the durable journal is all there is.
DurableVerdict ==
  CASE jState = "committed" \/ (jState = "absent" /\ retired = "committed") -> "committed"
    [] jState \in CleanState \/ (jState = "absent" /\ retired # "committed") -> "reverted"
    [] jState = "recoveryRequired" -> "manual"
    [] OTHER                       -> "open"

Verdict == IF pc \in RunPc \cup {"settled"} THEN RunVerdict ELSE DurableVerdict

TargetImage == [t \in Target |-> IF owner[t] = "outside" THEN "outside" ELSE disk[t]]

Abstract == INSTANCE AtomicUpdate WITH image <- TargetImage, verdict <- Verdict

\* A transaction with crashes, failed operations, outside writers, undo and startup
\* recovery implements the atomic update: a verdict of committed, or reverted, holds
\* for every target at once and survives a crash and any number of restarts.
ImplementsAtomicUpdate == Abstract!Spec
=============================================================================
