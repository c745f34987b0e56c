------------------------------- MODULE Journal -------------------------------
(***************************************************************************)
(* The durable journal of a multi-file transaction: its states, the legal  *)
(* transitions between them and what startup recovery makes of each        *)
(* (extension/src/transactionJournal.ts).                                  *)
(***************************************************************************)
EXTENDS Naturals

JournalState ==
  {"created", "prepared", "applying", "applied", "undoRegistered", "committed",
   "rollingBack", "rolledBack", "recoveryRequired", "aborted"}

\* The `transitions` table.
Successors ==
  [s \in JournalState |->
     CASE s = "created"        -> {"prepared", "aborted"}
       [] s = "prepared"       -> {"applying", "rollingBack", "aborted"}
       [] s = "applying"       -> {"applied", "rollingBack"}
       [] s = "applied"        -> {"undoRegistered", "rollingBack", "recoveryRequired"}
       [] s = "undoRegistered" -> {"committed", "rollingBack", "recoveryRequired"}
       [] s = "rollingBack"    -> {"rolledBack", "aborted"}
       [] OTHER                -> {}]

CanTransition(from, to) == to \in Successors[from]

\* classifyJournalForRecovery: pending says that the journal names a host
\* operation whose commit nobody acknowledged.
Classify(s, pending) ==
  CASE s \in {"created", "prepared"}                   -> "clean"
    [] s \in {"applying", "applied", "undoRegistered"} -> "rollbackRequired"
    [] s = "rollingBack"                               -> "resumeRollback"
    [] s = "recoveryRequired"                          -> "manualResolution"
    [] s = "committed" /\ pending                      -> "rollbackRequired"
    [] OTHER                                           -> "terminal"
=============================================================================
