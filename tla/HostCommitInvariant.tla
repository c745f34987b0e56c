------------------------- MODULE HostCommitInvariant -------------------------
(***************************************************************************)
(* The inductive invariant of HostCommit: which journal of the edit is     *)
(* still in force, and what it says of the resource, the saved source, the *)
(* hot-exit backup and the document.                                       *)
(***************************************************************************)
EXTENDS HostCommit

Running == Forward \cup Backward
Closed  == {"down", "startup", "closed", "reconcile"}
History == {"undo", "redo", "undoRace", "redoRace"}

\* The journal of run j still has to be acted upon.
Live(j) == journal[j].state \notin {"absent", "rolledBack"}
Quiet   == \A j \in Run : ~Live(j)

\* The source the document opens with, as long as the backup can be read.
Restored == IF backup = "none" THEN disk ELSE backup

\* No source, saved or not, has the edit.
Nowhere == disk \notin HasEdit /\ backup \notin HasEdit /\ buffer \notin HasEdit

\* Before the edit begins.
NothingYet ==
  ledger = "none" =>
    Nowhere /\ res = "before" /\ hist = "none" /\ \A j \in Run : journal[j] = NoJournal

\* Where the durable journal and the resource are, await by await.
JournalAt ==
  /\ pc = "prepare" => Quiet
  /\ pc \in Running => \A j \in Run \ {run} : ~Live(j)
  /\ pc = "applying" => journal[run].state = "prepared"
  /\ pc \in {"write", "receipt", "rollBackReceipt", "committed"} => journal[run].state = "applying"
  /\ pc \in {"commit", "confirm"} => journal[run].state = "committed"
  /\ pc = "rollBack" => journal[run].state \in {"applying", "committed"}
  /\ pc \in {"restore", "rolledBack", "giveUp"} => journal[run].state = "rollingBack"
  /\ pc \in {"prepare", "applying", "write", "rolledBack"} => res = "before"
  /\ pc \in {"receipt", "rollBackReceipt", "committed", "commit", "confirm"} => res = "after"
  /\ pc = "confirm" => why = "edit"
  /\ \A j \in Run :
       /\ journal[j].state \in {"absent", "prepared", "applying", "committed", "rollingBack",
                                "rolledBack", "recoveryRequired"}
       /\ journal[j].deferred => journal[j].state = "recoveryRequired"

\* The first run: the edit is nowhere until commit() puts it into the document.
FirstRun ==
  /\ pc \in Running \ {"confirm"} /\ why \in {"edit", "refused"} => Nowhere /\ hist = "none"
  /\ pc \in Running \ {"confirm"} /\ why = "edit" => ledger = "staged"
  /\ pc \in Running /\ why = "refused" => pc \in Backward /\ ledger = "refused"
  /\ pc = "confirm" => buffer \in HasEdit /\ hist = "done"

\* The native history, while its entry is there or one of its steps runs.
HistoryStep ==
  /\ pc = "idle" /\ hist = "done" =>
       /\ res = "after" /\ buffer \in HasEdit /\ journal[run].state = "committed"
       /\ \A j \in Run \ {run} : ~Live(j)
  /\ pc = "idle" /\ hist = "undone" => res = "before" /\ buffer \notin HasEdit /\ Quiet
  /\ hist = "undone" => undone
  /\ pc \in Running /\ why \in History => undone
  /\ pc \in Running /\ why \in {"undo", "undoRace"} => buffer \in HasEdit /\ hist = "done"
  /\ pc \in Running /\ why \in {"redo", "redoRace"} => buffer \notin HasEdit /\ hist = "undone"
  /\ pc \in Running /\ why = "undo" => run < MaxRuns
  /\ pc \in Closed => hist = "none"
  /\ hist # "none" /\ ledger \in {"staged", "refused"} => manual

\* Startup settles the journals from the last to the first, the document after it.
Recovered ==
  ~degraded =>
    /\ pc = "startup" => \A j \in Run : j > run => journal[j].state \in {"absent", "recoveryRequired"}
    /\ pc \in {"closed", "reconcile"} => \A j \in Run : journal[j].state \in {"absent", "recoveryRequired"}
    /\ pc = "reconcile" => buffer = Restored /\ \A j \in Run : j > run /\ Live(j) => manual

\* What holds of the two halves, whoever looks and whenever, unless a native Undo is in
\* between or recovery was degraded.
Together ==
  /\ \A j, k \in Run : Live(j) /\ Live(k) => j = k
  /\ disk \in HasEdit => res = "after"
  /\ Quiet =>
       /\ res = "after" <=> Restored \in HasEdit
       /\ pc \in Opened => Agree
       /\ res = "after" => ledger # "refused"
  /\ \A j \in Run :
       /\ journal[j].state \in {"prepared", "applying", "rollingBack"} => Nowhere
       /\ journal[j].state = "prepared" => res = "before"
       /\ pc = "idle" /\ ~manual /\ Live(j) =>
            \/ journal[j].state = "prepared"
            \/ journal[j].state = "committed" /\ res = "after" /\ buffer \in HasEdit /\ ledger # "refused"

HInv ==
  /\ TypeOK
  /\ NothingYet
  /\ JournalAt
  /\ FirstRun
  /\ HistoryStep
  /\ Recovered
  /\ ~undone /\ ~degraded => Together
=============================================================================
