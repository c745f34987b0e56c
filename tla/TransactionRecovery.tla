------------------------- MODULE TransactionRecovery -------------------------
(***************************************************************************)
(* A transaction whose extension host may die at any await, and the        *)
(* startup recovery of its journal: recoverJournal for a journal that no   *)
(* host operation owns, and rollbackIncompleteJournal                      *)
(* (extension/src/transactionRecovery.ts).                                 *)
(***************************************************************************)
EXTENDS Transaction

VARIABLES
  conflict,  \* the observations so far hold an image that rules out a rollback
  outcome,   \* the last entry startup recovery reported for the journal
  retired    \* history: the state of the journal recovery deleted, or "none"

vars == <<runVars, conflict, outcome, retired>>

recVars == <<applied, attempted, uncertain, caller>>

RunPc ==
  {"capture", "created", "prepared", "gate", "recheck", "aborted", "applying", "check",
   "write", "verify", "receipt", "applied", "post", "register", "undoRegistered",
   "committed", "catch", "owned", "validate", "restore", "restoreWrite",
   "restoreVerify", "postBase", "rolledBack", "manual"}

RecoveryPc ==
  {"load", "discard", "observe", "judge", "resume", "reread", "restoreTarget",
   "confirmTarget", "final", "finish", "remove", "giveUp"}

Pc == RunPc \cup RecoveryPc \cup {"settled", "down", "ready"}

Result  == {"running", "committed", "aborted", "rolledBack", "recoveryRequired", "threw"}
Outcome == {"none", "manual", "failed", "committed", "discarded", "rolledBack"}

------------------------------------------------------------------------------
\* The extension host dies: memory is lost, files and journal stay.
Crash ==
  /\ pc # "down"
  /\ Goto("down", First)
  /\ state' = "created" /\ applied' = {} /\ attempted' = {} /\ uncertain' = 0
  /\ result' = "running" /\ registered' = FALSE /\ conflict' = FALSE
  /\ UNCHANGED <<disk, journal, history, fresh, outcome, retired>>

\* activate() runs recoverPendingTransactions before a designer can open.
Restart ==
  /\ pc = "down"
  /\ Goto("load", First)
  /\ UNCHANGED <<disk, journal, memory, caller, history, fresh, conflict, outcome, retired>>

\* The pass is over for this journal, with the entry o.
Report(o) == Goto("ready", First) /\ outcome' = o

Kind == Classify(jState, FALSE)

\* recoverJournal reads the durable record and classifies it.
Load ==
  /\ pc = "load"
  /\ \/ jState = "absent" /\ Goto("ready", First) /\ UNCHANGED <<state, applied, outcome>>
     \/ /\ jState # "absent"
        /\ state' = jState
        /\ applied' = jApplied
        /\ \/ Kind = "manualResolution" /\ Report("manual")
           \/ Kind \in {"clean", "terminal"} /\ Goto("discard", First) /\ UNCHANGED outcome
           \/ Kind \in {"rollbackRequired", "resumeRollback"} /\ Goto("observe", First) /\ UNCHANGED outcome
  /\ UNCHANGED <<disk, journal, attempted, uncertain, caller, history, conflict, retired>>

\* durableDeleteLocalFile of the journal, which may fail before or after the unlink.
Unlinked == jState' = "absent" /\ jApplied' = {} /\ retired' = state
Delete(o) ==
  \/ Unlinked /\ Report(o) /\ UNCHANGED disturbed
  \/ /\ Unlinked \/ UNCHANGED <<journal, retired>>
     /\ Report("failed")
     /\ disturbed' = TRUE

Discard ==
  /\ pc = "discard"
  /\ \/ state = "committed" /\ Delete("committed")
     \/ state # "committed" /\ Delete("discarded")
  /\ UNCHANGED <<disk, memory, caller, owner, wrote, conflict>>

------------------------------------------------------------------------------
(* rollbackIncompleteJournal *)

\* Mutant of Observe: a receipted target already back at its baseline is a conflict.
ObserveRefusesRestored ==
  /\ pc = "observe"
  /\ \/ /\ conflict' = (conflict \/ (IF i \in applied THEN Differs("after") ELSE Differs("base")))
        /\ Up("observe", "judge", First)
        /\ UNCHANGED disturbed
     \/ conflict' = conflict /\ disturbed' = TRUE /\ Goto("giveUp", First)
  /\ UNCHANGED <<disk, journal, memory, caller, owner, wrote, outcome, retired>>

\* Every target is read first; a failed read hands the journal to the user.
Observe ==
  /\ pc = "observe"
  /\ \/ /\ conflict' = (conflict \/ disk[i] = "other" \/ (disk[i] = "after" /\ i \notin applied))
        /\ Up("observe", "judge", First)
        /\ UNCHANGED disturbed
     \/ conflict' = conflict /\ disturbed' = TRUE /\ Goto("giveUp", First)
  /\ UNCHANGED <<disk, journal, memory, caller, owner, wrote, outcome, retired>>

\* A foreign image, or a landed write without a durable receipt, has no known owner.
Judge ==
  /\ pc = "judge"
  /\ \/ conflict /\ Goto("giveUp", First)
     \/ ~conflict /\ Goto("resume", First)
  /\ UNCHANGED <<disk, journal, memory, caller, history, conflict, outcome, retired>>

PersistRollingBack ==
  /\ pc = "resume"
  /\ state' = "rollingBack"
  /\ \/ Persisted("rollingBack", applied) /\ Goto("reread", Last) /\ UNCHANGED outcome
     \/ PersistFails("rollingBack", applied) /\ Report("failed")
  /\ UNCHANGED <<disk, recVars, owner, wrote, conflict, retired>>

\* Mutant of Reread: matching bytes are taken for the transaction's own.
RereadByBytes ==
  /\ pc = "reread"
  /\ \/ Holds("base") /\ Down("reread", "final", First)
     \/ Holds("after") /\ Goto("restoreTarget", i)
     \/ Holds("other") /\ Goto("giveUp", First)
  /\ UNCHANGED <<disk, journal, memory, caller, owner, wrote, disturbed, conflict, outcome, retired>>

\* The set-wide observation may be stale: read again just before the restore.
Reread ==
  /\ pc = "reread"
  /\ \/ Holds("base") /\ Down("reread", "final", First)
     \/ Holds("after") /\ i \in applied /\ Goto("restoreTarget", i)
     \/ Holds("after") /\ i \notin applied /\ Goto("giveUp", First)
     \/ Holds("other") /\ Goto("giveUp", First)
  /\ UNCHANGED <<disk, journal, memory, caller, owner, wrote, disturbed, conflict, outcome, retired>>

RestoreTarget ==
  /\ pc = "restoreTarget"
  /\ \/ Lands(i, "base") /\ Goto("confirmTarget", i) /\ UNCHANGED disturbed
     \/ /\ Goto("giveUp", First)
        /\ disturbed' = TRUE
        /\ Lands(i, "base") \/ UNCHANGED <<disk, owner, wrote>>
  /\ UNCHANGED <<journal, memory, caller, conflict, outcome, retired>>

ConfirmTarget ==
  /\ pc = "confirmTarget"
  /\ \/ Holds("base") /\ Down("reread", "final", First)
     \/ Differs("base") /\ Goto("giveUp", First)
  /\ UNCHANGED <<disk, journal, memory, caller, owner, wrote, disturbed, conflict, outcome, retired>>

\* Every target must be at its baseline before the journal says rolledBack.
FinalCheck ==
  /\ pc = "final"
  /\ \/ Holds("base") /\ Up("final", "finish", First)
     \/ Differs("base") /\ Goto("giveUp", First)
  /\ UNCHANGED <<disk, journal, memory, caller, owner, wrote, disturbed, conflict, outcome, retired>>

PersistFinish ==
  /\ pc = "finish"
  /\ state' = "rolledBack"
  /\ \/ Persisted("rolledBack", applied) /\ Goto("remove", First) /\ UNCHANGED outcome
     \/ PersistFails("rolledBack", applied) /\ Report("failed")
  /\ UNCHANGED <<disk, recVars, owner, wrote, conflict, retired>>

Remove ==
  /\ pc = "remove"
  /\ Delete("rolledBack")
  /\ UNCHANGED <<disk, memory, caller, owner, wrote, conflict>>

\* The journal is retained for a manual decision.
PersistGiveUp ==
  /\ pc = "giveUp"
  /\ state' = "recoveryRequired"
  /\ \/ Persisted("recoveryRequired", applied) /\ Report("manual")
     \/ PersistFails("recoveryRequired", applied) /\ Report("failed")
  /\ UNCHANGED <<disk, recVars, owner, wrote, conflict, retired>>

\* A read rejects inside the restoring try block.
RestoreReadFails ==
  /\ pc \in {"reread", "confirmTarget", "final"}
  /\ Goto("giveUp", First)
  /\ disturbed' = TRUE
  /\ UNCHANGED <<disk, journal, memory, caller, owner, wrote, conflict, outcome, retired>>

RecoveryStep ==
  /\ fresh' = {}
  /\ \/ Load \/ Discard \/ Observe \/ Judge \/ PersistRollingBack \/ Reread
     \/ RestoreTarget \/ ConfirmTarget \/ FinalCheck \/ PersistFinish \/ Remove
     \/ PersistGiveUp \/ RestoreReadFails

------------------------------------------------------------------------------
RunnerStep == RunStep /\ fresh' = {} /\ UNCHANGED <<conflict, outcome, retired>>
Undo       == StartUndo /\ fresh' = {} /\ UNCHANGED <<conflict, outcome, retired>>
Outside    == OutsideWrite /\ UNCHANGED <<conflict, outcome, retired>>

Init == RunInit /\ conflict = FALSE /\ outcome = "none" /\ retired = "none"

Next == RunnerStep \/ Undo \/ Outside \/ Crash \/ Restart \/ RecoveryStep

\* Every await of the run and of the recovery settles; nothing makes a user
\* undo, a process die or a window reopen.
Fairness == WF_vars(RunnerStep) /\ WF_vars(RecoveryStep)

Spec == Init /\ [][Next]_vars /\ Fairness

------------------------------------------------------------------------------
(* Properties *)

TypeOK ==
  /\ disk \in [Target -> Image]
  /\ jState \in JournalState \cup {"absent"} /\ jApplied \in SUBSET Target
  /\ pc \in Pc /\ i \in Target
  /\ state \in JournalState /\ applied \in SUBSET Target
  /\ attempted \in SUBSET Target /\ uncertain \in Target \cup {0}
  /\ result \in Result
  /\ registered \in BOOLEAN
  /\ owner \in [Target -> {"none", "txn", "outside"}] /\ fresh \in SUBSET Target
  /\ wrote \in SUBSET Target /\ disturbed \in BOOLEAN
  /\ conflict \in BOOLEAN
  /\ outcome \in Outcome
  /\ retired \in JournalState \cup {"none"}

AtBase(t) == owner[t] = "outside" \/ disk[t] = "base"
Landed(t) == owner[t] = "outside" \/ disk[t] = "after"

\* Write-ahead: while bytes of this transaction other than the baseline are in a
\* target, a durable journal that recovery will not take for clean describes them
\* -- unless the transaction committed and recovery has retired its journal.
WriteAhead ==
  \A t \in Target :
    owner[t] = "txn" /\ disk[t] # "base" =>
      \/ jState \in {"applying", "applied", "undoRegistered", "committed", "rollingBack",
                     "recoveryRequired"}
      \/ jState = "absent" /\ retired = "committed"

\* A late journal failure always finds a record that may still roll back: the
\* catch block never meets the impossible committed -> rollingBack transition
\* (the comment at transactionRunner.ts:410-420).
CatchCanRollBack == pc = "catch" => CanTransition(state, "rollingBack")

\* What the caller is told is what the durable journal says, so that a crash right
\* after the answer cannot turn it into another one.
AnswerIsDurable == pc = "settled" /\ result # "threw" => jState = result

\* A manual decision is asked for only with a reason: an outside write, a failed
\* operation, or a write that landed and whose receipt is not durable. The last of
\* these needs nothing but a crash (see RestoresReceipt for what the comments say).
ManualHasCause ==
  "recoveryRequired" \in {jState, result} => disturbed \/ ~(wrote \subseteq jApplied)

\* A forward write replaces only the baseline and a restore only the after image,
\* whatever else runs.  Other bytes are lost only when they arrive between the last
\* await of the code, where it looked at the target, and the write.
ReplacesExpected ==
  \A t \in Target :
    disk'[t] # disk[t] /\ owner'[t] = "txn" =>
      t \in fresh \/ disk[t] = (IF disk'[t] = "after" THEN "base" ELSE "after")

NoForeignOverwrite == [][ReplacesExpected]_vars

\* Startup recovery restores only what the durable receipts name: matching bytes
\* alone do not establish who wrote them (transactionRecovery.ts:151-153). The code
\* enforces this against three comments, by which the durable images decide and not
\* the receipts (transactionRunner.ts:365-366, transactionJournal.ts:130-131,
\* extension.ts:537-539): a write whose receipt a crash prevented is left to the user.
RestoresReceipt ==
  \A t \in Target :
    disk'[t] # disk[t] /\ owner'[t] = "txn" /\ pc \in RecoveryPc => t \in jApplied

RestoresOnlyReceipted == [][RestoresReceipt]_vars

\* A run, an undo and a startup recovery come to an end unless the process dies,
\* whatever image, failed operation or unwritable journal they meet.
Settles ==
  /\ pc \in RunPc ~> pc \in {"settled", "down"}
  /\ pc \in RecoveryPc ~> pc \in {"ready", "down"}
=============================================================================
