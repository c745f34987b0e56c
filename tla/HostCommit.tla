------------------------------ MODULE HostCommit ------------------------------
(***************************************************************************)
(* One designer edit of two halves: a resource that the transaction runner *)
(* writes to disk and a generated source that lives in VS Code's unsaved   *)
(* buffer (commitResourceSetThroughRunner, commit and the native history   *)
(* closures of extension/src/designerEditor.ts), the durable receipt of    *)
(* the operation (extension/src/mutationOperation.ts) and what startup and *)
(* the reopened document make of a crash                                   *)
(* (extension/src/transactionRecovery.ts).                                 *)
(*                                                                         *)
(* The targets of the edit are one resource here, and nobody else writes   *)
(* files: Transaction has the rest.  A Redo replays the edit as a new run  *)
(* with a journal of its own.                                              *)
(***************************************************************************)
EXTENDS Journal

CONSTANT MaxRuns    \* bound: runs, and so journals, of the edit

ASSUME MaxRunsAssumption == MaxRuns \in Nat \ {0}

Run == 1 .. MaxRuns

\* The generated source: before or after the edit, "rival" when another edit won
\* over the before image, "later" when one followed the after image.
Source  == {"before", "after", "rival", "later"}
HasEdit == {"after", "later"}

VARIABLES
  res,      \* the resource on disk: "before" or "after"
  disk,     \* the saved source
  buffer,   \* the source in the custom document
  backup,   \* the hot-exit backup, "none" when VS Code holds none
  journal,  \* the journal of each run
  ledger,   \* the durable receipt of the operation
  manual,   \* transactionRecoveryRequired: the document is read-only
  pc, run,  \* the await the edit is at, and the run whose journal it is on
  why,      \* what the run, or its rollback, is for
  hist,     \* the entry of the native history: "none", "done" or "undone"
  moved,    \* the document's revision changed since the history step began
  \* History, read by the properties and by nothing else:
  undone,   \* a native Undo was started and no Redo has completed since
  failed,   \* an operation failed
  degraded, \* startup could not settle a journal, or a backup could not be read
  crashed   \* the extension host died

files    == <<res, disk>>
document == <<buffer, manual, hist, moved>>
place    == <<pc, run, why>>
ghosts   == <<undone, failed, degraded, crashed>>
vars     == <<files, backup, journal, ledger, document, place, ghosts>>

Forward  == {"prepare", "applying", "write", "receipt", "committed", "commit", "confirm"}
Backward == {"rollBack", "rollBackReceipt", "restore", "rolledBack", "giveUp"}
Opened   == Forward \cup Backward \cup {"idle"}

NoJournal == [state |-> "absent", landed |-> FALSE, commit |-> "pending", deferred |-> FALSE]

------------------------------------------------------------------------------
Goto(label) == pc' = label /\ UNCHANGED <<run, why>>

\* A journal write succeeds, or fails before or after the file was replaced.
Put(r)     == journal' = [journal EXCEPT ![run] = r]
Persist(r) == Put(r) /\ UNCHANGED failed
Fails(r)   == (Put(r) \/ UNCHANGED journal) /\ failed' = TRUE

To(s) == [journal[run] EXCEPT !.state = s]

\* The first run leaves its commit to the host; a replay belongs to an entry that the
\* native history holds already.
Commitment == IF run = 1 THEN "pending" ELSE "committed"

\* Mutant: a first run whose journal cannot be settled leaves the document writable.
RejectedUnmarked(started) ==
  /\ Goto("idle")
  /\ manual' = (manual \/ why \in {"refused", "undoRace", "redoRace"})
  /\ hist' = "none"
  /\ \/ why = "edit" /\ ledger' \in {ledger, "recoveryRequired"}
     \/ why # "edit" /\ UNCHANGED ledger
  /\ UNCHANGED <<buffer, moved>>

\* A run, or a rollback, that ends without its result.  A failed native Undo or Redo
\* rejects and VS Code drops the history entry; every other caller marks the document.
Rejected(started) ==
  /\ Goto("idle")
  /\ manual' = (manual \/ why \in {"refused", "undoRace", "redoRace"} \/ (why = "edit" /\ started))
  /\ hist' = "none"
  /\ \/ why = "edit" /\ ledger' \in {ledger, "recoveryRequired"}
     \/ why # "edit" /\ UNCHANGED ledger
  /\ UNCHANGED <<buffer, moved>>

------------------------------------------------------------------------------
(* The forward run. *)

\* HostMutationLedger.run and stageCommit, before any resource is written.
Begin ==
  /\ pc = "idle" /\ ledger = "none" /\ buffer = "before" /\ ~manual
  /\ ledger' = "staged"
  /\ pc' = "prepare" /\ run' = 1 /\ why' = "edit"
  /\ UNCHANGED <<files, backup, journal, document, ghosts>>

Prepare ==
  /\ pc = "prepare"
  /\ LET r == [NoJournal EXCEPT !.state = "prepared", !.commit = Commitment] IN
       \/ Persist(r) /\ Goto("applying") /\ UNCHANGED <<ledger, document>>
       \/ Fails(r) /\ Rejected(FALSE)
  /\ UNCHANGED <<files, backup, undone, degraded, crashed>>

Applying ==
  /\ pc = "applying"
  /\ \/ Persist(To("applying")) /\ Goto("write") /\ UNCHANGED <<ledger, document>>
     \/ Fails(To("applying")) /\ Rejected(TRUE)
  /\ UNCHANGED <<files, backup, undone, degraded, crashed>>

\* The write succeeds, or fails before or after the bytes were replaced.
Write ==
  /\ pc = "write"
  /\ \/ res' = "after" /\ Goto("receipt") /\ UNCHANGED failed
     \/ res' \in {res, "after"} /\ Goto("rollBack") /\ failed' = TRUE
  /\ UNCHANGED <<disk, backup, journal, ledger, document, undone, degraded, crashed>>

Receipt ==
  /\ pc = "receipt"
  /\ LET r == [journal[run] EXCEPT !.landed = TRUE] IN
       \/ Persist(r) /\ Goto("committed")
       \/ Fails(r) /\ Goto("rollBackReceipt")
  /\ UNCHANGED <<files, backup, ledger, document, undone, degraded, crashed>>

\* Postconditions, the preflight by which registerUndo may refuse the first run, and
\* the last journal states.
Committed ==
  /\ pc = "committed"
  /\ \/ /\ why # "edit" \/ buffer = "before"
        /\ Persist(To("committed"))
        /\ Goto("commit")
     \/ Fails(To("committed")) /\ Goto("rollBack")
     \/ why = "edit" /\ Goto("rollBack") /\ UNCHANGED <<journal, failed>>
  /\ UNCHANGED <<files, backup, ledger, document, undone, degraded, crashed>>

\* Mutant: a refusal at the last gate only reports it and keeps the resources.
CommitRefusesOnly ==
  /\ pc = "commit" /\ why = "edit"
  /\ \/ buffer = "before" /\ buffer' = "after" /\ hist' = "done" /\ ledger' = "committed" /\ Goto("confirm")
     \/ UNCHANGED <<buffer, hist>> /\ ledger' = "refused" /\ Goto("idle")
  /\ UNCHANGED <<files, backup, journal, manual, moved, ghosts>>

\* commit(): in one turn the source, the native history entry and the receipt.  A
\* rival edit, or any other gate, refuses; saving the receipt may fail either way.
Commit ==
  /\ pc = "commit" /\ why = "edit"
  /\ \/ /\ buffer = "before"
        /\ buffer' = "after" /\ hist' = "done"
        /\ \/ ledger' = "committed" /\ Goto("confirm") /\ UNCHANGED <<manual, failed>>
           \/ UNCHANGED ledger /\ Goto("idle") /\ manual' = TRUE /\ failed' = TRUE
     \/ /\ UNCHANGED <<buffer, hist>>
        /\ \/ ledger' = "refused" /\ pc' = "rollBack" /\ why' = "refused" /\ UNCHANGED <<run, manual, failed>>
           \/ ledger' \in {ledger, "recoveryRequired"} /\ Goto("idle") /\ manual' = TRUE /\ failed' = TRUE
  /\ UNCHANGED <<files, backup, journal, moved, undone, degraded, crashed>>

\* The journal learns that the host has committed.
Confirm ==
  /\ pc = "confirm"
  /\ Goto("idle")
  /\ LET r == [journal[run] EXCEPT !.commit = "committed"] IN
       \/ Persist(r) /\ UNCHANGED manual
       \/ Fails(r) /\ manual' = TRUE
  /\ UNCHANGED <<files, backup, ledger, buffer, hist, moved, undone, degraded, crashed>>

------------------------------------------------------------------------------
(* The native history. *)

Undo ==
  /\ pc = "idle" /\ hist = "done" /\ buffer = "after"
  /\ run < MaxRuns
  /\ pc' = "rollBack" /\ why' = "undo" /\ UNCHANGED run
  /\ moved' = FALSE /\ undone' = TRUE
  /\ UNCHANGED <<files, backup, journal, ledger, buffer, manual, hist, failed, degraded, crashed>>

Redo ==
  /\ pc = "idle" /\ hist = "undone" /\ buffer = "before"
  /\ run < MaxRuns
  /\ pc' = "prepare" /\ why' = "redo" /\ run' = run + 1
  /\ moved' = FALSE
  /\ UNCHANGED <<files, backup, journal, ledger, buffer, manual, hist, ghosts>>

\* The source follows its resources unless another edit moved the document meanwhile:
\* preserveSourceAfterHistoryRace then takes the resources back.
Replayed ==
  /\ pc = "commit"
  /\ \/ why = "redo" /\ ~moved /\ buffer' = "after" /\ hist' = "done" /\ undone' = FALSE /\ Goto("idle")
     \/ why = "redo" /\ moved /\ pc' = "rollBack" /\ why' = "redoRace" /\ UNCHANGED <<run, buffer, hist, undone>>
     \/ why = "undoRace" /\ hist' = "none" /\ undone' = FALSE /\ Goto("idle") /\ UNCHANGED buffer
  /\ UNCHANGED <<files, backup, journal, ledger, manual, moved, failed, degraded, crashed>>

------------------------------------------------------------------------------
(* The rollback of a run, and undo() of its registration. *)

\* The closures keep the record of the run: what the host confirmed is not in it.
RollBack ==
  /\ pc \in {"rollBack", "rollBackReceipt"}
  /\ LET r == [To("rollingBack") EXCEPT !.commit = Commitment,
                                        !.landed = @ \/ pc = "rollBackReceipt"] IN
       \/ Persist(r) /\ Goto("restore") /\ UNCHANGED <<ledger, document>>
       \/ Fails(r) /\ Rejected(TRUE)
  /\ UNCHANGED <<files, backup, undone, degraded, crashed>>

\* A write nobody acknowledged has no known owner, and a restore may fail.
Restore ==
  /\ pc = "restore"
  /\ \/ res' = "before" /\ Goto("rolledBack") /\ UNCHANGED failed
     \/ ~journal[run].landed /\ res = "after" /\ UNCHANGED <<res, failed>> /\ Goto("giveUp")
     \/ res' \in {res, "before"} /\ failed' = TRUE /\ Goto("giveUp")
  /\ UNCHANGED <<disk, backup, journal, ledger, document, undone, degraded, crashed>>

GiveUp ==
  /\ pc = "giveUp"
  /\ Persist(To("recoveryRequired")) \/ Fails(To("recoveryRequired"))
  /\ Rejected(TRUE)
  /\ UNCHANGED <<files, backup, undone, degraded, crashed>>

\* What follows a completed rollback.
Settled ==
  \/ /\ why = "edit" /\ ledger' = "refused" /\ Goto("idle") /\ UNCHANGED document
  \/ /\ why = "refused" /\ Goto("idle") /\ UNCHANGED <<ledger, document>>
  \/ /\ why = "undo" /\ ~moved
     /\ buffer' = "before" /\ hist' = "undone" /\ Goto("idle") /\ UNCHANGED <<ledger, manual, moved>>
  \/ /\ why = "undo" /\ moved
     /\ pc' = "prepare" /\ why' = "undoRace" /\ run' = run + 1 /\ UNCHANGED <<ledger, document>>
  \/ /\ why \in {"redo", "redoRace", "undoRace"}
     /\ hist' = "none" /\ Goto("idle") /\ manual' = (manual \/ why = "undoRace")
     /\ UNCHANGED <<ledger, buffer, moved>>

\* Saving the refused receipt may fail as well.
RolledBack ==
  /\ pc = "rolledBack"
  /\ \/ Persist(To("rolledBack")) /\ Settled
     \/ /\ why = "edit" /\ Put(To("rolledBack")) /\ failed' = TRUE /\ manual' = TRUE
        /\ Goto("idle") /\ UNCHANGED <<ledger, buffer, hist, moved>>
     \/ Fails(To("rolledBack")) /\ Rejected(TRUE)
  /\ UNCHANGED <<files, backup, undone, degraded, crashed>>

------------------------------------------------------------------------------
(* VS Code and the user, while the document is open. *)

\* Another edit of the source, and its own native Undo.
OtherEdit ==
  /\ pc \in Opened
  /\ \/ ~manual /\ buffer = "before" /\ buffer' = "rival"
     \/ ~manual /\ buffer = "after" /\ buffer' = "later"
     \/ buffer = "rival" /\ buffer' = "before"
     \/ buffer = "later" /\ buffer' = "after"
  /\ moved' = TRUE
  /\ UNCHANGED <<files, backup, journal, ledger, manual, hist, place, ghosts>>

Save ==
  /\ pc \in Opened /\ ~manual /\ buffer # disk
  /\ disk' = buffer /\ backup' = "none"
  /\ UNCHANGED <<res, journal, ledger, document, place, ghosts>>

\* The backup is debounced: it may be older than the buffer.
Backup ==
  /\ pc \in Opened
  /\ \/ buffer # disk /\ backup' = buffer
     \/ buffer = disk /\ backup' = "none"
  /\ backup' # backup
  /\ UNCHANGED <<files, journal, ledger, document, place, ghosts>>

\* The same operation is delivered again: an open receipt is settled by what is
\* actually there, an established one is only reported.
Retry ==
  /\ pc = "idle" /\ ledger = "staged"
  /\ \/ buffer = "after" /\ res = "after" /\ ledger' = "committed"
     \/ buffer = "before" /\ res = "before" /\ ledger' = "refused"
     \/ <<buffer, res>> \notin {<<"after", "after">>, <<"before", "before">>} /\ ledger' = "recoveryRequired"
  /\ UNCHANGED <<files, backup, journal, document, place, ghosts>>

Crash ==
  /\ pc # "down"
  /\ pc' = "down" /\ run' = 1 /\ why' = "edit"
  /\ buffer' = disk /\ manual' = FALSE /\ hist' = "none" /\ moved' = FALSE
  /\ crashed' = TRUE
  /\ UNCHANGED <<files, backup, journal, ledger, undone, failed, degraded>>

------------------------------------------------------------------------------
(* Startup, and the document that opens after it. *)

\* Journals are visited newest first, by startup because of their names.
Restart ==
  /\ pc = "down"
  /\ pc' = "startup" /\ run' = MaxRuns /\ UNCHANGED why
  /\ UNCHANGED <<files, backup, journal, ledger, document, ghosts>>

Visited(pass, after) ==
  \/ run > 1 /\ pc' = pass /\ run' = run - 1 /\ UNCHANGED why
  \/ run = 1 /\ Goto(after)

\* rollbackIncompleteJournal for the journal of this run: it completes, it refuses an
\* unacknowledged write, or it stops half-way.
Compensated == (res = "before" \/ journal[run].landed) /\ res' = "before" /\ Put(NoJournal)
Unowned     == res = "after" /\ ~journal[run].landed /\ UNCHANGED res
Interrupted == UNCHANGED res \/ (journal[run].landed /\ res' = "before")

Deferred == [To("recoveryRequired") EXCEPT !.deferred = TRUE]

\* matchingOutcome accepts the receipt of an operation that was not refused.
Matching == ledger \in {"staged", "committed", "recoveryRequired"}

\* Startup settles a journal, or says that it could not and leaves it as it is.
Settles(r) == Put(r) /\ UNCHANGED <<failed, degraded>>
Leaves(r)  == (Put(r) \/ UNCHANGED journal) /\ failed' = TRUE /\ degraded' = TRUE

\* A committed journal waits for the document to open; the others are settled now.
Startup ==
  /\ pc = "startup"
  /\ Visited("startup", "closed")
  /\ LET r == journal[run]
         kind  == Classify(r.state, r.commit = "pending")
         waits == r.state = "committed" \/ r.deferred IN
       \/ r.state = "absent" /\ UNCHANGED <<res, journal, failed, degraded>>
       \/ /\ waits /\ Matching
          /\ Settles(Deferred) \/ Leaves(Deferred)
          /\ UNCHANGED res
       \/ /\ waits /\ ~Matching
          /\ Settles(To("recoveryRequired")) \/ Leaves(To("recoveryRequired"))
          /\ UNCHANGED res
       \/ /\ ~waits /\ kind = "manualResolution"
          /\ UNCHANGED <<res, journal, failed, degraded>>
       \/ /\ ~waits /\ kind \in {"clean", "terminal"} /\ r.state # "absent"
          /\ Settles(NoJournal) \/ Leaves(NoJournal)
          /\ UNCHANGED res
       \/ /\ ~waits /\ kind \in {"rollbackRequired", "resumeRollback"}
          /\ \/ Compensated /\ UNCHANGED <<failed, degraded>>
             \/ Unowned /\ (Settles(To("recoveryRequired")) \/ Leaves(To("recoveryRequired")))
             \/ Interrupted /\ (Leaves(To("rollingBack")) \/ Leaves(To("recoveryRequired")))
  /\ UNCHANGED <<disk, backup, ledger, document, undone, crashed>>

\* openCustomDocument takes the backup, or the disk when there is none to read.
Open ==
  /\ pc = "closed"
  /\ pc' = "reconcile" /\ run' = MaxRuns /\ UNCHANGED why
  /\ \/ buffer' = (IF backup = "none" THEN disk ELSE backup) /\ UNCHANGED <<failed, degraded>>
     \/ backup # "none" /\ buffer' = disk /\ failed' = TRUE /\ degraded' = TRUE
  /\ UNCHANGED <<files, backup, journal, ledger, manual, hist, moved, undone, crashed>>

\* The restored source has the edit, and so have the resources: the commit stands.
Retain == Matching /\ buffer \in HasEdit /\ res = "after" /\ Put(NoJournal) /\ UNCHANGED res

\* Mutant: the restored buffer alone decides.
CompensateByBuffer == Matching /\ buffer = "before" /\ Compensated

\* Neither the restored source nor the saved one has it: the resources go back.
Compensate == Matching /\ buffer = "before" /\ disk = "before" /\ Compensated

\* Anything else, and any failure, is left to the user.
Surrender ==
  /\ \/ UNCHANGED res /\ failed' = TRUE
     \/ Matching /\ buffer = "before" /\ disk = "before" /\ Interrupted /\ failed' = TRUE
     \/ Matching /\ buffer = "before" /\ disk = "before" /\ Unowned /\ UNCHANGED failed
     \/ ~Matching /\ UNCHANGED <<res, failed>>
     \/ Matching /\ buffer \in HasEdit /\ res = "before" /\ UNCHANGED <<res, failed>>
     \/ Matching /\ buffer \in {"rival", "later"} /\ UNCHANGED <<res, failed>>
     \/ Matching /\ buffer = "before" /\ disk # "before" /\ UNCHANGED <<res, failed>>
  /\ Put(Deferred)

\* Mutant: the receipt a Redo shares with its first run is rewritten.
ReceiptsAlways(outcome) == ledger' = outcome

\* The receipt follows the journal; the host may die in between.
Receipts(outcome) ==
  \/ ledger = "committed" /\ UNCHANGED ledger
  \/ ledger # "committed" /\ ledger' = outcome

\* reconcileRestoredDocumentTransactions; when even the last journal write fails, the
\* document does not open.
Reconcile ==
  /\ pc = "reconcile"
  /\ \/ /\ ~journal[run].deferred
        /\ manual' = (manual \/ journal[run].state = "recoveryRequired")
        /\ Visited("reconcile", "idle")
        /\ UNCHANGED <<res, journal, ledger, failed, crashed, buffer>>
     \/ /\ journal[run].deferred
        /\ \/ Retain /\ Receipts("committed") /\ UNCHANGED <<manual, failed>>
           \/ Compensate /\ Receipts("refused") /\ UNCHANGED <<manual, failed>>
           \/ Surrender /\ manual' = TRUE /\ UNCHANGED ledger
        /\ Visited("reconcile", "idle")
        /\ UNCHANGED <<crashed, buffer>>
     \/ /\ journal[run].deferred /\ (Retain \/ Compensate)
        /\ pc' = "down" /\ run' = 1 /\ UNCHANGED <<why, ledger, failed>>
        /\ crashed' = TRUE /\ buffer' = disk /\ manual' = FALSE
     \/ /\ journal[run].deferred
        /\ failed' = TRUE /\ manual' = FALSE /\ Goto("closed")
        /\ UNCHANGED <<res, journal, ledger, crashed, buffer>>
  /\ UNCHANGED <<disk, backup, hist, moved, undone, degraded>>

------------------------------------------------------------------------------
Init ==
  /\ res = "before" /\ disk = "before" /\ buffer = "before" /\ backup = "none"
  /\ journal = [j \in Run |-> NoJournal]
  /\ ledger = "none" /\ manual = FALSE
  /\ pc = "idle" /\ run = 1 /\ why = "edit" /\ hist = "none" /\ moved = FALSE
  /\ undone = FALSE /\ failed = FALSE /\ degraded = FALSE /\ crashed = FALSE

Next ==
  \/ Begin \/ Prepare \/ Applying \/ Write \/ Receipt \/ Committed \/ Commit \/ Confirm
  \/ Undo \/ Redo \/ Replayed
  \/ RollBack \/ Restore \/ GiveUp \/ RolledBack
  \/ OtherEdit \/ Save \/ Backup \/ Retry
  \/ Crash \/ Restart \/ Startup \/ Open \/ Reconcile

Spec == Init /\ [][Next]_vars

------------------------------------------------------------------------------
(* Properties *)

\* What a journal of the edit holds.
JournalRecord ==
  [state : JournalState \cup {"absent"}, landed : BOOLEAN,
   commit : {"pending", "committed"}, deferred : BOOLEAN]

\* The values the variables take.
TypeOK ==
  /\ res \in {"before", "after"} /\ disk \in Source /\ buffer \in Source
  /\ backup \in Source \cup {"none"}
  /\ journal \in [Run -> JournalRecord]
  /\ ledger \in {"none", "staged", "committed", "refused", "recoveryRequired"}
  /\ manual \in BOOLEAN
  /\ pc \in Opened \cup {"down", "startup", "closed", "reconcile"} /\ run \in Run
  /\ why \in {"edit", "refused", "undo", "redo", "undoRace", "redoRace"}
  /\ hist \in {"none", "done", "undone"}
  /\ moved \in BOOLEAN /\ undone \in BOOLEAN /\ failed \in BOOLEAN
  /\ degraded \in BOOLEAN /\ crashed \in BOOLEAN

Agree == res = "after" <=> buffer \in HasEdit

\* An edit is in both halves or in neither whenever nothing is in progress, through
\* failures and crashes, or the document is read-only, or recovery was degraded -- as long
\* as no native Undo is in between (for those see the two properties after this one).
HalvesAgree == pc = "idle" /\ ~manual /\ ~degraded /\ ~undone => Agree

\* "The two halves never split" when a history step fails (designerEditor.ts:5898-5900).
HistoryNeverSplits == pc = "idle" /\ ~manual /\ ~crashed => Agree

\* "A stale or ambiguous state is surfaced for recovery"
\* (docs/v2/v1-characterization-matrix.md:18), also when the host died in or after a
\* native Undo and nothing failed.
RestoredSourceAgrees == pc = "idle" /\ ~manual /\ ~failed => Agree

\* No recovery takes the resource from under a saved source that has the edit.
SavedSourceKept == disk \in HasEdit /\ ~undone /\ ~degraded => res = "after"

\* An operation reported as refused has left nothing behind.
RefusedIsAbsent ==
  pc = "idle" /\ ledger = "refused" /\ ~manual /\ ~degraded /\ ~undone => res = "before" /\ buffer \notin HasEdit

\* An established outcome is never revised, by a retry, a compensation or a restart.
Established == ledger \in {"committed", "refused"} => ledger' = ledger
OutcomeIsFinal == [][Established]_vars
=============================================================================
