-------------------------- MODULE HostCommitProofs --------------------------
(***************************************************************************)
(* Proofs that the two halves of an edit stay together, for every number   *)
(* of runs.  Each part of HInv has one lemma, with one step per action of  *)
(* the code; startup and the reopened document, the longest actions, are   *)
(* first reduced to what they leave behind (StartupSettles,                *)
(* ReconcileSettles).                                                      *)
(***************************************************************************)
EXTENDS HostCommitInvariant, TLAPS

\* Every label and journal state by name, so that the sets need not be expanded.
LEMMA Labels ==
  /\ {"prepare", "applying", "write", "receipt", "committed", "commit", "confirm", "rollBack",
      "rollBackReceipt", "restore", "rolledBack", "giveUp", "idle"} \subseteq Opened
  /\ {"prepared", "applying", "committed", "rollingBack", "rolledBack", "recoveryRequired"}
       \subseteq JournalState
BY DEF Opened, Forward, Backward, JournalState

\* The runs at the ends of a pass over the journals.
LEMMA Ends ==
  /\ 1 \in Run /\ MaxRuns \in Run
  /\ \A r \in Run : (r > 1 => r - 1 \in Run) /\ (r < MaxRuns => r + 1 \in Run)
BY MaxRunsAssumption DEF Run

\* The journal of this run, and no other, is now in state s.
Wrote(s, deferred) ==
  /\ journal' \in [Run -> JournalRecord]
  /\ \A j \in Run \ {run} : journal'[j] = journal[j]
  /\ journal'[run].state = s /\ journal'[run].deferred = deferred

\* Writing a record of state s.
LEMMA PutWrites ==
  ASSUME TypeOK, NEW r \in JournalRecord, Put(r)
  PROVE  Wrote(r.state, r.deferred)
BY DEF TypeOK, Put, Wrote

\* What each journal write of the code leaves behind.
LEMMA Puts ==
  ASSUME TypeOK
  PROVE  /\ \A s \in JournalState : Put(To(s)) => Wrote(s, journal[run].deferred)
         /\ Put(NoJournal) => Wrote("absent", FALSE)
         /\ Put(Deferred) => Wrote("recoveryRequired", TRUE)
         /\ Put([NoJournal EXCEPT !.state = "prepared", !.commit = Commitment])
              => Wrote("prepared", FALSE)
         /\ Put([journal[run] EXCEPT !.landed = TRUE])
              => Wrote(journal[run].state, journal[run].deferred)
         /\ Put([journal[run] EXCEPT !.commit = "committed"])
              => Wrote(journal[run].state, journal[run].deferred)
         /\ Put([To("rollingBack") EXCEPT !.commit = Commitment,
                                          !.landed = @ \/ pc = "rollBackReceipt"])
              => Wrote("rollingBack", journal[run].deferred)
<1>. journal[run] \in JournalRecord  BY DEF TypeOK
<1>1. ASSUME NEW s \in JournalState
      PROVE  /\ To(s) \in JournalRecord
             /\ To(s).state = s /\ To(s).deferred = journal[run].deferred
  BY DEF To, JournalRecord
<1>2. /\ NoJournal \in JournalRecord
      /\ NoJournal.state = "absent" /\ NoJournal.deferred = FALSE
  BY DEF NoJournal, JournalRecord
<1>3. /\ Deferred \in JournalRecord
      /\ Deferred.state = "recoveryRequired" /\ Deferred.deferred = TRUE
  BY Labels DEF Deferred, To, JournalRecord
<1>4. LET r == [NoJournal EXCEPT !.state = "prepared", !.commit = Commitment]
      IN  r \in JournalRecord /\ r.state = "prepared" /\ r.deferred = FALSE
  BY Labels DEF NoJournal, JournalRecord, Commitment
<1>5. LET r == [journal[run] EXCEPT !.landed = TRUE]
      IN  /\ r \in JournalRecord
          /\ r.state = journal[run].state /\ r.deferred = journal[run].deferred
  BY DEF JournalRecord
<1>6. LET r == [journal[run] EXCEPT !.commit = "committed"]
      IN  /\ r \in JournalRecord
          /\ r.state = journal[run].state /\ r.deferred = journal[run].deferred
  BY DEF JournalRecord
<1>7. LET r == [To("rollingBack") EXCEPT !.commit = Commitment,
                                         !.landed = @ \/ pc = "rollBackReceipt"]
      IN  /\ r \in JournalRecord
          /\ r.state = "rollingBack" /\ r.deferred = journal[run].deferred
  BY Labels DEF JournalRecord, Commitment, To
<1>8. \A s \in JournalState : Put(To(s)) => Wrote(s, journal[run].deferred)
  BY <1>1, PutWrites
<1>9. Put(NoJournal) => Wrote("absent", FALSE)
  BY <1>2, PutWrites
<1>10. Put(Deferred) => Wrote("recoveryRequired", TRUE)
  BY <1>3, PutWrites
<1>. QED BY <1>4, <1>5, <1>6, <1>7, <1>8, <1>9, <1>10, PutWrites

------------------------------------------------------------------------------
\* The code is at one of its awaits, on a journal of the edit.
LEMMA PlaceTyped ==
  ASSUME TypeOK, HistoryStep, [Next]_vars
  PROVE  /\ pc' \in Opened \cup {"down", "startup", "closed", "reconcile"} /\ run' \in Run
         /\ why' \in {"edit", "refused", "undo", "redo", "undoRace", "redoRace"}
<1>. USE DEF TypeOK, files, document, place, ghosts, Goto, Persist, Fails, Rejected
<1>1. CASE Begin
  <2>1. {"prepare"} \subseteq Opened  BY Labels
  <2>. QED BY <1>1, Ends, <2>1 DEF Begin
<1>2. CASE Prepare
  <2>1. {"applying", "idle"} \subseteq Opened  BY Labels
  <2>. QED BY <1>2, <2>1 DEF Prepare, Commitment
<1>3. CASE Applying
  <2>1. {"write", "idle"} \subseteq Opened  BY Labels
  <2>. QED BY <1>3, <2>1 DEF Applying
<1>4. CASE Write
  <2>1. {"receipt", "rollBack"} \subseteq Opened  BY Labels
  <2>. QED BY <1>4, <2>1 DEF Write
<1>5. CASE Receipt
  <2>1. {"committed", "rollBackReceipt"} \subseteq Opened  BY Labels
  <2>. QED BY <1>5, <2>1 DEF Receipt
<1>6. CASE Committed
  <2>1. {"commit", "rollBack"} \subseteq Opened  BY Labels
  <2>. QED BY <1>6, <2>1 DEF Committed
<1>7. CASE Commit
  <2>1. {"confirm", "idle", "rollBack"} \subseteq Opened  BY Labels
  <2>. QED BY <1>7, <2>1 DEF Commit
<1>8. CASE Confirm
  <2>1. {"idle"} \subseteq Opened  BY Labels
  <2>. QED BY <1>8, <2>1 DEF Confirm
<1>9. CASE Undo
  <2>1. {"rollBack"} \subseteq Opened  BY Labels
  <2>. QED BY <1>9, <2>1 DEF Undo
<1>10. CASE Redo
  <2>1. {"prepare"} \subseteq Opened  BY Labels
  <2>. QED BY <1>10, Ends, <2>1 DEF Redo
<1>11. CASE Replayed
  <2>1. {"idle", "rollBack"} \subseteq Opened  BY Labels
  <2>. QED BY <1>11, <2>1 DEF Replayed
<1>12. CASE RollBack
  <2>1. {"restore", "idle"} \subseteq Opened  BY Labels
  <2>. QED BY <1>12, <2>1 DEF RollBack, Commitment
<1>13. CASE Restore
  <2>1. {"rolledBack", "giveUp"} \subseteq Opened  BY Labels
  <2>. QED BY <1>13, <2>1 DEF Restore
<1>14. CASE GiveUp
  <2>1. {"idle"} \subseteq Opened  BY Labels
  <2>. QED BY <1>14, <2>1 DEF GiveUp
<1>15. CASE RolledBack
  <2>1. {"idle", "prepare"} \subseteq Opened  BY Labels
  <2>. QED BY <1>15, Ends, <2>1 DEF RolledBack, Settled, HistoryStep, Running, Backward
<1>16. CASE OtherEdit
  BY <1>16 DEF OtherEdit
<1>17. CASE Save
  BY <1>17 DEF Save
<1>18. CASE Backup
  BY <1>18 DEF Backup
<1>19. CASE Retry
  BY <1>19 DEF Retry
<1>20. CASE Crash
  BY <1>20, Ends DEF Crash
<1>21. CASE Restart
  BY <1>21, Ends DEF Restart
<1>22. CASE Startup
  BY <1>22, Ends DEF Startup, Visited, Compensated, Unowned, Interrupted, Matching, Settles,
       Leaves
<1>23. CASE Open
  BY <1>23, Ends DEF Open
<1>24. CASE Reconcile
  <2>1. {"idle"} \subseteq Opened  BY Labels
  <2>. QED BY <1>24, Ends, <2>1 DEF Reconcile, Visited, Retain, Compensate, Compensated,
       Unowned, Interrupted, Surrender, Matching, Receipts
<1>25. CASE UNCHANGED vars
  BY <1>25 DEF vars
<1>. QED BY <1>1, <1>2, <1>3, <1>4, <1>5, <1>6, <1>7, <1>8, <1>9, <1>10, <1>11, <1>12,
    <1>13, <1>14, <1>15, <1>16, <1>17, <1>18, <1>19, <1>20, <1>21, <1>22, <1>23,
    <1>24, <1>25 DEF Next

\* The two halves, the receipt and the history entry keep their types.
LEMMA SourcesTyped ==
  ASSUME TypeOK, [Next]_vars
  PROVE  /\ res' \in {"before", "after"} /\ disk' \in Source /\ buffer' \in Source
         /\ backup' \in Source \cup {"none"}
         /\ ledger' \in {"none", "staged", "committed", "refused", "recoveryRequired"}
         /\ hist' \in {"none", "done", "undone"}
<1>. USE DEF TypeOK, Source, files, document, place, ghosts, Goto, Persist, Fails, Rejected
<1>1. CASE Begin
  BY <1>1 DEF Begin
<1>2. CASE Prepare
  BY <1>2 DEF Prepare, Commitment
<1>3. CASE Applying
  BY <1>3 DEF Applying
<1>4. CASE Write
  BY <1>4 DEF Write
<1>5. CASE Receipt
  BY <1>5 DEF Receipt
<1>6. CASE Committed
  BY <1>6 DEF Committed
<1>7. CASE Commit
  BY <1>7 DEF Commit
<1>8. CASE Confirm
  BY <1>8 DEF Confirm
<1>9. CASE Undo
  BY <1>9 DEF Undo
<1>10. CASE Redo
  BY <1>10 DEF Redo
<1>11. CASE Replayed
  BY <1>11 DEF Replayed
<1>12. CASE RollBack
  BY <1>12 DEF RollBack, Commitment
<1>13. CASE Restore
  BY <1>13 DEF Restore
<1>14. CASE GiveUp
  BY <1>14 DEF GiveUp
<1>15. CASE RolledBack
  BY <1>15 DEF RolledBack, Settled
<1>16. CASE OtherEdit
  BY <1>16 DEF OtherEdit
<1>17. CASE Save
  BY <1>17 DEF Save
<1>18. CASE Backup
  BY <1>18 DEF Backup
<1>19. CASE Retry
  BY <1>19 DEF Retry
<1>20. CASE Crash
  BY <1>20 DEF Crash
<1>21. CASE Restart
  BY <1>21 DEF Restart
<1>22. CASE Startup
  BY <1>22 DEF Startup, Visited, Compensated, Unowned, Interrupted, Matching, Settles, Leaves
<1>23. CASE Open
  BY <1>23 DEF Open
<1>24. CASE Reconcile
  BY <1>24 DEF Reconcile, Visited, Retain, Compensate, Compensated, Unowned, Interrupted,
       Surrender, Matching, Receipts
<1>25. CASE UNCHANGED vars
  BY <1>25 DEF vars
<1>. QED BY <1>1, <1>2, <1>3, <1>4, <1>5, <1>6, <1>7, <1>8, <1>9, <1>10, <1>11, <1>12,
    <1>13, <1>14, <1>15, <1>16, <1>17, <1>18, <1>19, <1>20, <1>21, <1>22, <1>23,
    <1>24, <1>25 DEF Next

\* The flags stay flags.
LEMMA FlagsTyped ==
  ASSUME TypeOK, [Next]_vars
  PROVE  /\ manual' \in BOOLEAN /\ moved' \in BOOLEAN /\ undone' \in BOOLEAN
         /\ failed' \in BOOLEAN /\ degraded' \in BOOLEAN /\ crashed' \in BOOLEAN
<1>. USE DEF TypeOK, files, document, place, ghosts, Goto, Persist, Fails, Rejected
<1>1. CASE Begin
  BY <1>1 DEF Begin
<1>2. CASE Prepare
  BY <1>2 DEF Prepare, Commitment
<1>3. CASE Applying
  BY <1>3 DEF Applying
<1>4. CASE Write
  BY <1>4 DEF Write
<1>5. CASE Receipt
  BY <1>5 DEF Receipt
<1>6. CASE Committed
  BY <1>6 DEF Committed
<1>7. CASE Commit
  BY <1>7 DEF Commit
<1>8. CASE Confirm
  BY <1>8 DEF Confirm
<1>9. CASE Undo
  BY <1>9 DEF Undo
<1>10. CASE Redo
  BY <1>10 DEF Redo
<1>11. CASE Replayed
  BY <1>11 DEF Replayed
<1>12. CASE RollBack
  BY <1>12 DEF RollBack, Commitment
<1>13. CASE Restore
  BY <1>13 DEF Restore
<1>14. CASE GiveUp
  BY <1>14 DEF GiveUp
<1>15. CASE RolledBack
  BY <1>15 DEF RolledBack, Settled
<1>16. CASE OtherEdit
  BY <1>16 DEF OtherEdit
<1>17. CASE Save
  BY <1>17 DEF Save
<1>18. CASE Backup
  BY <1>18 DEF Backup
<1>19. CASE Retry
  BY <1>19 DEF Retry
<1>20. CASE Crash
  BY <1>20 DEF Crash
<1>21. CASE Restart
  BY <1>21 DEF Restart
<1>22. CASE Startup
  BY <1>22 DEF Startup, Visited, Compensated, Unowned, Interrupted, Matching, Settles, Leaves
<1>23. CASE Open
  BY <1>23 DEF Open
<1>24. CASE Reconcile
  BY <1>24 DEF Reconcile, Visited, Retain, Compensate, Compensated, Unowned, Interrupted,
       Surrender, Matching, Receipts
<1>25. CASE UNCHANGED vars
  BY <1>25 DEF vars
<1>. QED BY <1>1, <1>2, <1>3, <1>4, <1>5, <1>6, <1>7, <1>8, <1>9, <1>10, <1>11, <1>12,
    <1>13, <1>14, <1>15, <1>16, <1>17, <1>18, <1>19, <1>20, <1>21, <1>22, <1>23,
    <1>24, <1>25 DEF Next

\* A step writes journals of the edit.
LEMMA JournalsTyped ==
  ASSUME TypeOK, [Next]_vars
  PROVE  journal' \in [Run -> JournalRecord]
<1>. USE Labels, Puts DEF TypeOK, Wrote, files, document, place, ghosts, Goto, Persist,
  Fails, Rejected
<1>1. CASE Begin
  BY <1>1 DEF Begin
<1>2. CASE Prepare
  BY <1>2 DEF Prepare
<1>3. CASE Applying
  BY <1>3 DEF Applying
<1>4. CASE Write
  BY <1>4 DEF Write
<1>5. CASE Receipt
  BY <1>5 DEF Receipt
<1>6. CASE Committed
  BY <1>6 DEF Committed
<1>7. CASE Commit
  BY <1>7 DEF Commit
<1>8. CASE Confirm
  BY <1>8 DEF Confirm
<1>9. CASE Undo
  BY <1>9 DEF Undo
<1>10. CASE Redo
  BY <1>10 DEF Redo
<1>11. CASE Replayed
  BY <1>11 DEF Replayed
<1>12. CASE RollBack
  BY <1>12 DEF RollBack
<1>13. CASE Restore
  BY <1>13 DEF Restore
<1>14. CASE GiveUp
  BY <1>14 DEF GiveUp
<1>15. CASE RolledBack
  BY <1>15 DEF RolledBack, Settled
<1>16. CASE OtherEdit
  BY <1>16 DEF OtherEdit
<1>17. CASE Save
  BY <1>17 DEF Save
<1>18. CASE Backup
  BY <1>18 DEF Backup
<1>19. CASE Retry
  BY <1>19 DEF Retry
<1>20. CASE Crash
  BY <1>20 DEF Crash
<1>21. CASE Restart
  BY <1>21 DEF Restart
<1>22. CASE Startup
  BY <1>22 DEF Startup, Visited, Compensated, Unowned, Interrupted, Matching, Settles, Leaves
<1>23. CASE Open
  BY <1>23 DEF Open
<1>24. CASE Reconcile
  BY <1>24 DEF Reconcile, Visited, Retain, Compensate, Compensated, Unowned, Interrupted,
       Surrender, Matching, Receipts
<1>25. CASE UNCHANGED vars
  BY <1>25 DEF vars
<1>. QED BY <1>1, <1>2, <1>3, <1>4, <1>5, <1>6, <1>7, <1>8, <1>9, <1>10, <1>11, <1>12,
    <1>13, <1>14, <1>15, <1>16, <1>17, <1>18, <1>19, <1>20, <1>21, <1>22, <1>23,
    <1>24, <1>25 DEF Next

\* Every step keeps the types.
LEMMA TypeOKStep ==
  ASSUME TypeOK, HistoryStep, [Next]_vars
  PROVE  TypeOK'
BY PlaceTyped, SourcesTyped, FlagsTyped, JournalsTyped DEF TypeOK

------------------------------------------------------------------------------
\* What startup makes of the journal it visits, when it can settle it.
LEMMA StartupSettles ==
  ASSUME TypeOK, JournalAt, Startup, ~degraded'
  PROVE  /\ Visited("startup", "closed") /\ ~degraded
         /\ UNCHANGED <<disk, backup, ledger, document, undone>>
         /\ \/ UNCHANGED <<res, journal>> /\ journal[run].state \in {"absent", "recoveryRequired"}
            \/ /\ UNCHANGED res /\ Live(run)
               /\ \E d \in BOOLEAN : Wrote("recoveryRequired", d)
            \/ /\ UNCHANGED res /\ journal[run].state \in {"prepared", "rolledBack"}
               /\ Wrote("absent", FALSE)
            \/ /\ res' = "before" /\ journal[run].state \in {"applying", "rollingBack"}
               /\ Wrote("absent", FALSE)
<1>. DEFINE state == journal[run].state
            kind  == Classify(state, journal[run].commit = "pending")
            waits == state = "committed" \/ journal[run].deferred
<1>1. run \in Run /\ journal[run] \in JournalRecord /\ degraded \in BOOLEAN  BY DEF TypeOK
<1>2. journal[run].deferred \in BOOLEAN  BY <1>1 DEF JournalRecord
<1>3. /\ state \in {"absent", "prepared", "applying", "committed", "rollingBack", "rolledBack",
                    "recoveryRequired"}
      /\ journal[run].deferred => state = "recoveryRequired"
  BY <1>1 DEF JournalAt
<1>4. /\ Put(To("recoveryRequired")) => Wrote("recoveryRequired", journal[run].deferred)
      /\ Put(Deferred) => Wrote("recoveryRequired", TRUE)
      /\ Put(NoJournal) => Wrote("absent", FALSE)
  BY Labels, Puts
<1>5. /\ Visited("startup", "closed")
      /\ UNCHANGED <<disk, backup, ledger, document, undone>>
  BY DEF Startup
<1>6. CASE state = "absent"
  BY <1>3, <1>5, <1>6 DEF Startup, Leaves, Settles, Classify, Live
<1>7. CASE waits
  <2>1. UNCHANGED res /\ ~degraded /\ (Put(Deferred) \/ Put(To("recoveryRequired")))
    BY <1>3, <1>7 DEF Startup, Leaves, Settles
  <2>2. \E d \in BOOLEAN : Wrote("recoveryRequired", d)
    BY <1>2, <1>4, <2>1
  <2>. QED BY <1>3, <1>5, <1>7, <2>1, <2>2 DEF Live
<1>8. CASE ~waits /\ state = "recoveryRequired"
  BY <1>3, <1>5, <1>8 DEF Startup, Leaves, Settles, Classify
<1>9. CASE ~waits /\ state \in {"prepared", "rolledBack"}
  <2>1. kind \in {"clean", "terminal"}  BY <1>9 DEF Classify
  <2>2. UNCHANGED res /\ ~degraded /\ Put(NoJournal)
    BY <1>9, <2>1 DEF Startup, Leaves, Settles
  <2>. QED BY <1>4, <1>5, <1>9, <2>2
<1>10. CASE ~waits /\ state \in {"applying", "rollingBack"}
  <2>1. kind \in {"rollbackRequired", "resumeRollback"}  BY <1>10 DEF Classify
  <2>2. /\ ~degraded
        /\ \/ Compensated
           \/ UNCHANGED res /\ Put(To("recoveryRequired"))
    BY <1>10, <2>1 DEF Startup, Leaves, Settles, Unowned
  <2>3. CASE Compensated
    BY <1>4, <1>5, <1>10, <2>2, <2>3 DEF Compensated
  <2>4. CASE UNCHANGED res /\ Put(To("recoveryRequired"))
    <3>1. \E d \in BOOLEAN : Wrote("recoveryRequired", d)
      BY <1>2, <1>4, <2>4
    <3>. QED BY <1>5, <1>10, <2>2, <2>4, <3>1 DEF Live
  <2>. QED BY <2>2, <2>3, <2>4
<1>. QED BY <1>3, <1>6, <1>7, <1>8, <1>9, <1>10

\* What the document that opens makes of the journal it visits.
LEMMA ReconcileSettles ==
  ASSUME TypeOK, JournalAt, Reconcile
  PROVE  /\ UNCHANGED <<disk, backup, hist, moved, undone, degraded>>
         /\ \/ /\ UNCHANGED <<res, journal, ledger, buffer>>
               /\ Visited("reconcile", "idle")
               /\ manual' = (manual \/ journal[run].state = "recoveryRequired")
            \/ /\ Wrote("absent", FALSE) /\ Matching
               /\ \/ /\ buffer \in HasEdit /\ res = "after" /\ res' = "after"
                     /\ ledger' \in {ledger, "committed"}
                  \/ buffer = "before" /\ disk = "before" /\ res' = "before"
                     /\ (ledger = "committed" => ledger' = ledger)
                     /\ ledger' \in {ledger, "refused"}
               /\ \/ Visited("reconcile", "idle") /\ UNCHANGED <<buffer, manual>>
                  \/ pc' = "down" /\ buffer' = disk /\ manual' = FALSE
            \/ /\ Wrote("recoveryRequired", TRUE) /\ manual' = TRUE
               /\ Visited("reconcile", "idle")
               /\ res' # res => disk = "before"
               /\ UNCHANGED <<buffer, ledger>>
               /\ Live(run)
            \/ pc' = "closed" /\ manual' = FALSE /\ UNCHANGED <<res, journal, ledger, buffer>>
<1>1. /\ Put(Deferred) => Wrote("recoveryRequired", TRUE)
      /\ Put(NoJournal) => Wrote("absent", FALSE)
  BY Puts
<1>2. UNCHANGED <<disk, backup, hist, moved, undone, degraded>>
  BY DEF Reconcile
<1>3. Retain =>
        /\ Wrote("absent", FALSE) /\ Matching
        /\ buffer \in HasEdit /\ res = "after" /\ res' = "after"
  BY <1>1 DEF Retain
<1>4. Compensate =>
        /\ Wrote("absent", FALSE) /\ Matching
        /\ buffer = "before" /\ disk = "before" /\ res' = "before"
  BY <1>1 DEF Compensate, Compensated
<1>0. journal[run].deferred => Live(run)
  BY DEF TypeOK, JournalAt, Live
<1>5. Surrender => Wrote("recoveryRequired", TRUE) /\ (res' # res => disk = "before")
  BY <1>1 DEF Surrender, Interrupted, Unowned
<1>6. CASE /\ ~journal[run].deferred
           /\ manual' = (manual \/ journal[run].state = "recoveryRequired")
           /\ Visited("reconcile", "idle")
           /\ UNCHANGED <<res, journal, ledger, failed, crashed, buffer>>
  BY <1>2, <1>6
<1>7. CASE /\ \/ Retain /\ Receipts("committed") /\ UNCHANGED <<manual, failed>>
              \/ Compensate /\ Receipts("refused") /\ UNCHANGED <<manual, failed>>
              \/ Surrender /\ manual' = TRUE /\ UNCHANGED ledger
           /\ Visited("reconcile", "idle")
           /\ UNCHANGED <<crashed, buffer>>
           /\ journal[run].deferred
  BY <1>0, <1>2, <1>3, <1>4, <1>5, <1>7 DEF Receipts
<1>8. CASE /\ Retain \/ Compensate
           /\ pc' = "down" /\ run' = 1 /\ UNCHANGED <<why, ledger, failed>>
           /\ crashed' = TRUE /\ buffer' = disk /\ manual' = FALSE
  BY <1>2, <1>3, <1>4, <1>8
<1>9. CASE /\ failed' = TRUE /\ manual' = FALSE /\ Goto("closed")
           /\ UNCHANGED <<res, journal, ledger, crashed, buffer>>
  BY <1>2, <1>9 DEF Goto
<1>. QED BY <1>6, <1>7, <1>8, <1>9 DEF Reconcile

\* The edit leaves no trace before it begins.
LEMMA NothingYetStep ==
  ASSUME TypeOK, NothingYet, JournalAt, FirstRun, HistoryStep, [Next]_vars
  PROVE  NothingYet'
<1>. USE DEF NoJournal, NothingYet, JournalAt, FirstRun, HistoryStep, Nowhere, HasEdit,
  Source, TypeOK, Running, Closed, History, Forward, Backward, Opened, Live, Quiet, Wrote,
  files, document, place, ghosts, Goto, Persist, Fails, Rejected
<1>1. CASE Begin
  BY <1>1 DEF Begin
<1>2. CASE Prepare
  BY <1>2 DEF Prepare
<1>3. CASE Applying
  BY <1>3 DEF Applying
<1>4. CASE Write
  BY <1>4 DEF Write
<1>5. CASE Receipt
  BY <1>5 DEF Receipt
<1>6. CASE Committed
  BY <1>6 DEF Committed
<1>7. CASE Commit
  BY <1>7 DEF Commit
<1>8. CASE Confirm
  BY <1>8 DEF Confirm
<1>9. CASE Undo
  BY <1>9 DEF Undo
<1>10. CASE Redo
  BY <1>10 DEF Redo
<1>11. CASE Replayed
  BY <1>11 DEF Replayed
<1>12. CASE RollBack
  BY <1>12 DEF RollBack
<1>13. CASE Restore
  BY <1>13 DEF Restore
<1>14. CASE GiveUp
  BY <1>14 DEF GiveUp
<1>15. CASE RolledBack
  BY <1>15 DEF RolledBack, Settled
<1>16. CASE OtherEdit
  BY <1>16 DEF OtherEdit
<1>17. CASE Save
  BY <1>17 DEF Save
<1>18. CASE Backup
  BY <1>18 DEF Backup
<1>19. CASE Retry
  BY <1>19 DEF Retry
<1>20. CASE Crash
  BY <1>20 DEF Crash
<1>21. CASE Restart
  BY <1>21 DEF Restart
<1>22. CASE Startup
  <2>. SUFFICES ASSUME ledger = "none"
                PROVE  NothingYet'
    BY <1>22 DEF Startup
  <2>1. journal[run].state = "absent" /\ ~journal[run].deferred
    OBVIOUS
  <2>2. UNCHANGED <<res, journal, disk, backup, ledger, document>>
    BY <1>22, <2>1 DEF Startup, Classify
  <2>. QED BY <2>2
<1>23. CASE Open
  BY <1>23 DEF Open
<1>24. CASE Reconcile
  <2>. SUFFICES ASSUME ledger = "none"
                PROVE  NothingYet'
    BY <1>24 DEF Reconcile, Receipts, Retain, Compensate, Matching
  <2>1. ~journal[run].deferred
    OBVIOUS
  <2>. QED BY <1>24, <2>1 DEF Reconcile
<1>25. CASE UNCHANGED vars
  BY <1>25 DEF vars
<1>. QED BY <1>1, <1>2, <1>3, <1>4, <1>5, <1>6, <1>7, <1>8, <1>9, <1>10, <1>11, <1>12,
    <1>13, <1>14, <1>15, <1>16, <1>17, <1>18, <1>19, <1>20, <1>21, <1>22, <1>23,
    <1>24, <1>25 DEF Next

\* Every step leaves the journal and the resource where the next await expects them.
LEMMA JournalAtStep ==
  ASSUME TypeOK, TypeOK', NothingYet, JournalAt, HistoryStep, [Next]_vars
  PROVE  JournalAt'
<1>. USE Puts DEF NothingYet, JournalAt, HistoryStep, TypeOK, Running, Closed, History,
  Forward, Backward, Opened, Live, Quiet, Wrote, files, document, place, ghosts, Goto,
  Persist, Fails, Rejected
<1>1. CASE Begin
  BY <1>1, Labels DEF Begin, NoJournal
<1>2. CASE Prepare
  BY <1>2, Labels DEF Prepare
<1>3. CASE Applying
  BY <1>3, Labels DEF Applying
<1>4. CASE Write
  BY <1>4, Labels DEF Write
<1>5. CASE Receipt
  BY <1>5, Labels DEF Receipt
<1>6. CASE Committed
  BY <1>6, Labels DEF Committed
<1>7. CASE Commit
  BY <1>7, Labels DEF Commit
<1>8. CASE Confirm
  BY <1>8, Labels DEF Confirm
<1>9. CASE Undo
  BY <1>9, Labels DEF Undo
<1>10. CASE Redo
  BY <1>10, Labels DEF Redo
<1>11. CASE Replayed
  BY <1>11, Labels DEF Replayed
<1>12. CASE RollBack
  BY <1>12, Labels DEF RollBack
<1>13. CASE Restore
  BY <1>13, Labels DEF Restore
<1>14. CASE GiveUp
  BY <1>14, Labels DEF GiveUp
<1>15. CASE RolledBack
  BY <1>15, Labels DEF RolledBack, Settled
<1>16. CASE OtherEdit
  BY <1>16, Labels DEF OtherEdit
<1>17. CASE Save
  BY <1>17, Labels DEF Save
<1>18. CASE Backup
  BY <1>18, Labels DEF Backup
<1>19. CASE Retry
  BY <1>19, Labels DEF Retry
<1>20. CASE Crash
  BY <1>20, Labels DEF Crash
<1>21. CASE Restart
  BY <1>21, Labels DEF Restart
<1>22. CASE Startup
  BY <1>22, Labels DEF Startup, Visited, Compensated, Unowned, Interrupted, Deferred,
       Matching, Settles, Leaves
<1>23. CASE Open
  BY <1>23, Labels DEF Open
<1>24. CASE Reconcile
  BY <1>24, Labels DEF Reconcile, Visited, Retain, Compensate, Compensated, Unowned,
       Interrupted, Deferred, Surrender, Matching, Receipts
<1>25. CASE UNCHANGED vars
  BY <1>25 DEF vars
<1>. QED BY <1>1, <1>2, <1>3, <1>4, <1>5, <1>6, <1>7, <1>8, <1>9, <1>10, <1>11, <1>12,
    <1>13, <1>14, <1>15, <1>16, <1>17, <1>18, <1>19, <1>20, <1>21, <1>22, <1>23,
    <1>24, <1>25 DEF Next

\* Every step keeps a first run ahead of the edit it stands for.
LEMMA FirstRunStep ==
  ASSUME TypeOK, NothingYet, JournalAt, FirstRun, HistoryStep, [Next]_vars
  PROVE  FirstRun'
<1>. USE DEF NothingYet, JournalAt, FirstRun, HistoryStep, Nowhere, HasEdit, Source, TypeOK,
  Running, Closed, History, Forward, Backward, Opened, Live, Quiet, Wrote, files, document,
  place, ghosts, Goto, Persist, Fails, Rejected
<1>1. CASE Begin
  BY <1>1 DEF Begin
<1>2. CASE Prepare
  BY <1>2 DEF Prepare
<1>3. CASE Applying
  BY <1>3 DEF Applying
<1>4. CASE Write
  BY <1>4 DEF Write
<1>5. CASE Receipt
  BY <1>5 DEF Receipt
<1>6. CASE Committed
  BY <1>6 DEF Committed
<1>7. CASE Commit
  BY <1>7 DEF Commit
<1>8. CASE Confirm
  BY <1>8 DEF Confirm
<1>9. CASE Undo
  BY <1>9 DEF Undo
<1>10. CASE Redo
  BY <1>10 DEF Redo
<1>11. CASE Replayed
  BY <1>11 DEF Replayed
<1>12. CASE RollBack
  BY <1>12 DEF RollBack
<1>13. CASE Restore
  BY <1>13 DEF Restore
<1>14. CASE GiveUp
  BY <1>14 DEF GiveUp
<1>15. CASE RolledBack
  BY <1>15 DEF RolledBack, Settled
<1>16. CASE OtherEdit
  BY <1>16 DEF OtherEdit
<1>17. CASE Save
  BY <1>17 DEF Save
<1>18. CASE Backup
  BY <1>18 DEF Backup
<1>19. CASE Retry
  BY <1>19 DEF Retry
<1>20. CASE Crash
  BY <1>20 DEF Crash
<1>21. CASE Restart
  BY <1>21 DEF Restart
<1>22. CASE Startup
  BY <1>22 DEF Startup, Visited, Compensated, Unowned, Interrupted, Deferred, Matching,
       Settles, Leaves
<1>23. CASE Open
  BY <1>23 DEF Open
<1>24. CASE Reconcile
  BY <1>24 DEF Reconcile, Visited, Retain, Compensate, Compensated, Unowned, Interrupted,
       Deferred, Surrender, Matching, Receipts
<1>25. CASE UNCHANGED vars
  BY <1>25 DEF vars
<1>. QED BY <1>1, <1>2, <1>3, <1>4, <1>5, <1>6, <1>7, <1>8, <1>9, <1>10, <1>11, <1>12,
    <1>13, <1>14, <1>15, <1>16, <1>17, <1>18, <1>19, <1>20, <1>21, <1>22, <1>23,
    <1>24, <1>25 DEF Next

\* Every step keeps the native history in line with the resource and the source.
LEMMA HistoryKept ==
  ASSUME TypeOK, NothingYet, JournalAt, FirstRun, HistoryStep, [Next]_vars
  PROVE  HistoryStep'
<1>. USE Puts DEF NothingYet, JournalAt, FirstRun, HistoryStep, HasEdit, Source, TypeOK,
  Running, Closed, History, Forward, Backward, Opened, Live, Quiet, Wrote, files, document,
  place, ghosts, Goto, Persist, Fails, Rejected
<1>1. CASE Begin
  BY <1>1, Labels DEF Begin
<1>2. CASE Prepare
  BY <1>2, Labels DEF Prepare
<1>3. CASE Applying
  BY <1>3, Labels DEF Applying
<1>4. CASE Write
  BY <1>4, Labels DEF Write
<1>5. CASE Receipt
  BY <1>5, Labels DEF Receipt
<1>6. CASE Committed
  BY <1>6, Labels DEF Committed
<1>7. CASE Commit
  BY <1>7, Labels DEF Commit
<1>8. CASE Confirm
  BY <1>8, Labels DEF Confirm
<1>9. CASE Undo
  BY <1>9, Labels DEF Undo
<1>10. CASE Redo
  BY <1>10, Labels DEF Redo
<1>11. CASE Replayed
  BY <1>11, Labels DEF Replayed
<1>12. CASE RollBack
  BY <1>12, Labels DEF RollBack
<1>13. CASE Restore
  BY <1>13, Labels DEF Restore
<1>14. CASE GiveUp
  BY <1>14, Labels DEF GiveUp
<1>15. CASE RolledBack
  BY <1>15, Labels DEF RolledBack, Settled
<1>16. CASE OtherEdit
  BY <1>16, Labels DEF OtherEdit
<1>17. CASE Save
  BY <1>17, Labels DEF Save
<1>18. CASE Backup
  BY <1>18, Labels DEF Backup
<1>19. CASE Retry
  BY <1>19, Labels DEF Retry
<1>20. CASE Crash
  BY <1>20, Labels DEF Crash
<1>21. CASE Restart
  BY <1>21, Labels DEF Restart
<1>22. CASE Startup
  BY <1>22, Labels DEF Startup, Visited, Compensated, Unowned, Interrupted, Deferred,
       Matching, Settles, Leaves
<1>23. CASE Open
  BY <1>23, Labels DEF Open
<1>24. CASE Reconcile
  BY <1>24, Labels DEF Reconcile, Visited, Retain, Compensate, Compensated, Unowned,
       Interrupted, Deferred, Surrender, Matching, Receipts
<1>25. CASE UNCHANGED vars
  BY <1>25 DEF vars
<1>. QED BY <1>1, <1>2, <1>3, <1>4, <1>5, <1>6, <1>7, <1>8, <1>9, <1>10, <1>11, <1>12,
    <1>13, <1>14, <1>15, <1>16, <1>17, <1>18, <1>19, <1>20, <1>21, <1>22, <1>23,
    <1>24, <1>25 DEF Next

\* Every step keeps what a pass over the journals has settled.
LEMMA RecoveredStep ==
  ASSUME TypeOK, TypeOK', JournalAt, HistoryStep, Recovered, [Next]_vars
  PROVE  Recovered'
<1>. USE Puts DEF Recovered, JournalAt, Running, Forward, Backward, Opened, Closed, Live,
  Restored, Run, TypeOK, Wrote, files, document, place, ghosts, Goto, Persist, Fails,
  Rejected
<1>1. CASE Begin
  BY <1>1, Labels, MaxRunsAssumption DEF Begin
<1>2. CASE Prepare
  BY <1>2, Labels, MaxRunsAssumption DEF Prepare
<1>3. CASE Applying
  BY <1>3, Labels, MaxRunsAssumption DEF Applying
<1>4. CASE Write
  BY <1>4, Labels, MaxRunsAssumption DEF Write
<1>5. CASE Receipt
  BY <1>5, Labels, MaxRunsAssumption DEF Receipt
<1>6. CASE Committed
  BY <1>6, Labels, MaxRunsAssumption DEF Committed
<1>7. CASE Commit
  BY <1>7, Labels, MaxRunsAssumption DEF Commit
<1>8. CASE Confirm
  BY <1>8, Labels, MaxRunsAssumption DEF Confirm
<1>9. CASE Undo
  BY <1>9, Labels, MaxRunsAssumption DEF Undo
<1>10. CASE Redo
  BY <1>10, Labels, MaxRunsAssumption DEF Redo
<1>11. CASE Replayed
  BY <1>11, Labels, MaxRunsAssumption DEF Replayed
<1>12. CASE RollBack
  BY <1>12, Labels, MaxRunsAssumption DEF RollBack
<1>13. CASE Restore
  BY <1>13, Labels, MaxRunsAssumption DEF Restore
<1>14. CASE GiveUp
  BY <1>14, Labels, MaxRunsAssumption DEF GiveUp
<1>15. CASE RolledBack
  BY <1>15, Labels, MaxRunsAssumption DEF RolledBack, Settled
<1>16. CASE OtherEdit
  BY <1>16, Labels, MaxRunsAssumption DEF OtherEdit
<1>17. CASE Save
  BY <1>17, Labels, MaxRunsAssumption DEF Save
<1>18. CASE Backup
  BY <1>18, Labels, MaxRunsAssumption DEF Backup
<1>19. CASE Retry
  BY <1>19, Labels, MaxRunsAssumption DEF Retry
<1>20. CASE Crash
  BY <1>20, Labels, MaxRunsAssumption DEF Crash
<1>21. CASE Restart
  BY <1>21, Labels, MaxRunsAssumption DEF Restart
<1>22. CASE Startup
  <2>. SUFFICES ASSUME ~degraded'
                PROVE  Recovered'
    OBVIOUS
  <2>1. /\ journal'[run].state \in {"absent", "recoveryRequired"}
        /\ \A j \in Run \ {run} : journal'[j] = journal[j]
        /\ Visited("startup", "closed") /\ ~degraded
    BY <1>22, StartupSettles
  <2>2. \A j \in Run : j > run => journal[j].state \in {"absent", "recoveryRequired"}
    BY <1>22, <2>1 DEF Startup
  <2>3. \A j \in Run : j >= run => journal'[j].state \in {"absent", "recoveryRequired"}
    BY <2>1, <2>2, MaxRunsAssumption
  <2>. QED BY <2>1, <2>3, MaxRunsAssumption DEF Visited
<1>23. CASE Open
  BY <1>23, Labels, MaxRunsAssumption DEF Open
<1>24. CASE Reconcile
  <2>. SUFFICES ASSUME ~degraded'
                PROVE  Recovered'
    OBVIOUS
  <2>1. /\ ~degraded
        /\ \/ UNCHANGED journal
           \/ /\ journal'[run].state \in {"absent", "recoveryRequired"}
              /\ \A j \in Run \ {run} : journal'[j] = journal[j]
    BY <1>24, ReconcileSettles
  <2>2. /\ pc = "reconcile" /\ buffer = Restored
        /\ \A j \in Run : journal[j].state \in {"absent", "recoveryRequired"}
        /\ \A j \in Run : j > run /\ Live(j) => manual
    BY <1>24, <2>1 DEF Reconcile
  <2>3. \A j \in Run : journal'[j].state \in {"absent", "recoveryRequired"}
    BY <2>1, <2>2
  <2>4. CASE pc' # "reconcile"
    <3>1. pc' \notin {"startup", "reconcile"}
      BY <1>24, <2>4, ReconcileSettles DEF Visited
    <3>. QED BY <2>3, <3>1
  <2>5. CASE pc' = "reconcile"
    <3>1. UNCHANGED <<disk, backup, buffer>> /\ run' = run - 1
      BY <1>24, <2>5, ReconcileSettles DEF Visited
    <3>2. \A j \in Run : j > run' => j > run \/ j = run
      BY <3>1, MaxRunsAssumption
    <3>3. manual => manual'
      BY <1>24, <2>5, ReconcileSettles DEF Visited
    <3>4. journal'[run].state = "recoveryRequired" => manual'
      BY <1>24, <2>2, <2>5, ReconcileSettles DEF Visited
    <3>5. \A j \in Run : j > run' /\ Live(j)' => manual'
      BY <2>1, <2>2, <2>3, <3>2, <3>3, <3>4
    <3>. QED BY <2>2, <2>3, <2>5, <3>1, <3>5
  <2>. QED BY <2>4, <2>5
<1>25. CASE UNCHANGED vars
  BY <1>25 DEF vars
<1>. QED BY <1>1, <1>2, <1>3, <1>4, <1>5, <1>6, <1>7, <1>8, <1>9, <1>10, <1>11, <1>12,
    <1>13, <1>14, <1>15, <1>16, <1>17, <1>18, <1>19, <1>20, <1>21, <1>22, <1>23,
    <1>24, <1>25 DEF Next

\* Every step keeps the two halves together.
LEMMA TogetherStep ==
  ASSUME TypeOK, TypeOK', NothingYet, JournalAt, FirstRun, HistoryStep, Recovered,
         ~undone /\ ~degraded => Together, [Next]_vars
  PROVE  ~undone' /\ ~degraded' => Together'
<1>. USE Puts DEF NothingYet, JournalAt, FirstRun, HistoryStep, Recovered, Together,
  Nowhere, Restored, Agree, HasEdit, Source, TypeOK, Running, Closed, History, Forward,
  Backward, Opened, Live, Quiet, Wrote, files, document, place, ghosts, Goto, Persist,
  Fails, Rejected
<1>1. CASE Begin
  BY <1>1, Labels DEF Begin
<1>2. CASE Prepare
  <2>. SUFFICES ASSUME ~undone', ~degraded'
                PROVE  Together'
    OBVIOUS
  <2>1. /\ pc = "prepare" /\ Quiet /\ res = "before" /\ UNCHANGED res
        /\ Nowhere /\ UNCHANGED <<disk, backup, buffer>>
        /\ pc' \in {"applying", "idle"} /\ ledger' # "refused"
    <3>1. why = "edit" /\ ledger = "staged"
      BY <1>2 DEF Prepare
    <3>. QED BY <1>2, <3>1 DEF Prepare
  <2>2. UNCHANGED journal \/ Wrote("prepared", FALSE)
    BY <1>2 DEF Prepare
  <2>. QED BY <2>1, <2>2
<1>3. CASE Applying
  BY <1>3, Labels DEF Applying
<1>4. CASE Write
  BY <1>4, Labels DEF Write
<1>5. CASE Receipt
  BY <1>5, Labels DEF Receipt
<1>6. CASE Committed
  BY <1>6, Labels DEF Committed
<1>7. CASE Commit
  BY <1>7, Labels DEF Commit
<1>8. CASE Confirm
  BY <1>8, Labels DEF Confirm
<1>9. CASE Undo
  BY <1>9, Labels DEF Undo
<1>10. CASE Redo
  BY <1>10, Labels DEF Redo
<1>11. CASE Replayed
  BY <1>11, Labels DEF Replayed
<1>12. CASE RollBack
  BY <1>12, Labels DEF RollBack
<1>13. CASE Restore
  BY <1>13, Labels DEF Restore
<1>14. CASE GiveUp
  BY <1>14, Labels DEF GiveUp
<1>15. CASE RolledBack
  BY <1>15, Labels DEF RolledBack, Settled
<1>16. CASE OtherEdit
  BY <1>16, Labels DEF OtherEdit
<1>17. CASE Save
  BY <1>17, Labels DEF Save
<1>18. CASE Backup
  BY <1>18, Labels DEF Backup
<1>19. CASE Retry
  BY <1>19, Labels DEF Retry
<1>20. CASE Crash
  BY <1>20, Labels DEF Crash
<1>21. CASE Restart
  BY <1>21, Labels DEF Restart
<1>22. CASE Startup
  <2>. SUFFICES ASSUME ~undone', ~degraded'
                PROVE  Together'
    OBVIOUS
  <2>1. /\ pc = "startup" /\ pc' \in {"startup", "closed"} /\ ~undone /\ ~degraded
        /\ UNCHANGED <<disk, backup, ledger, document>>
    BY <1>22, StartupSettles DEF Startup, Visited
  <2>2. CASE UNCHANGED <<res, journal>>
    BY <2>1, <2>2
  <2>3. CASE UNCHANGED res /\ Live(run) /\ \E d \in BOOLEAN : Wrote("recoveryRequired", d)
    BY <2>1, <2>3
  <2>4. CASE /\ UNCHANGED res /\ journal[run].state \in {"prepared", "rolledBack"}
             /\ Wrote("absent", FALSE)
    BY <2>1, <2>4
  <2>5. CASE /\ res' = "before" /\ journal[run].state \in {"applying", "rollingBack"}
             /\ Wrote("absent", FALSE)
    BY <2>1, <2>5
  <2>. QED BY <1>22, <2>2, <2>3, <2>4, <2>5, StartupSettles
<1>23. CASE Open
  BY <1>23, Labels DEF Open
<1>24. CASE Reconcile
  <2>. SUFFICES ASSUME ~undone', ~degraded'
                PROVE  Together'
    OBVIOUS
  <2>1. /\ pc = "reconcile" /\ ~undone /\ ~degraded /\ UNCHANGED <<disk, backup>>
        /\ \A j \in Run : journal[j].state \in {"absent", "recoveryRequired"}
        /\ \A j \in Run : j > run /\ Live(j) => manual
        /\ buffer = Restored
    BY <1>24, ReconcileSettles DEF Reconcile
  <2>2. Visited("reconcile", "idle") => pc' \in {"reconcile", "idle"} /\ (pc' = "idle" => run = 1)
    BY DEF Visited
  <2>3. \A j \in Run : j > run \/ j = run \/ run # 1
    BY MaxRunsAssumption DEF Run
  <2>4. CASE /\ UNCHANGED <<res, journal, ledger, buffer>>
             /\ Visited("reconcile", "idle")
             /\ manual' = (manual \/ journal[run].state = "recoveryRequired")
    <3>1. pc' = "idle" => \A j \in Run : Live(j) => manual'
      BY <2>1, <2>2, <2>3, <2>4
    <3>2. pc' \in {"reconcile", "idle"}  BY <2>2, <2>4
    <3>. QED BY <2>1, <2>4, <3>1, <3>2
  <2>5. CASE /\ Wrote("absent", FALSE) /\ Matching
             /\ \/ /\ buffer \in HasEdit /\ res = "after" /\ res' = "after"
                   /\ ledger' \in {ledger, "committed"}
                \/ buffer = "before" /\ disk = "before" /\ res' = "before"
                   /\ (ledger = "committed" => ledger' = ledger)
                   /\ ledger' \in {ledger, "refused"}
             /\ \/ Visited("reconcile", "idle") /\ UNCHANGED <<buffer, manual>>
                \/ pc' = "down" /\ buffer' = disk /\ manual' = FALSE
    BY <2>1, <2>2, <2>3, <2>5 DEF Matching
  <2>6. CASE /\ Wrote("recoveryRequired", TRUE) /\ manual' = TRUE
             /\ Visited("reconcile", "idle")
             /\ res' # res => disk = "before"
             /\ UNCHANGED <<buffer, ledger>>
             /\ Live(run)
    BY <2>1, <2>2, <2>3, <2>6
  <2>7. CASE pc' = "closed" /\ manual' = FALSE /\ UNCHANGED <<res, journal, ledger, buffer>>
    BY <2>1, <2>7
  <2>. QED BY <1>24, <2>4, <2>5, <2>6, <2>7, ReconcileSettles
<1>25. CASE UNCHANGED vars
  BY <1>25 DEF vars
<1>. QED BY <1>1, <1>2, <1>3, <1>4, <1>5, <1>6, <1>7, <1>8, <1>9, <1>10, <1>11, <1>12,
    <1>13, <1>14, <1>15, <1>16, <1>17, <1>18, <1>19, <1>20, <1>21, <1>22, <1>23,
    <1>24, <1>25 DEF Next

------------------------------------------------------------------------------
\* The inductive invariant: which journal is in force, and what follows from it, in
\* every reachable state.
THEOREM HostInvariant == Spec => []HInv
<1>1. Init => HInv
  <2>. SUFFICES ASSUME Init
                PROVE  HInv
    OBVIOUS
  <2>. USE DEF Init
  <2>1. TypeOK
    <3>1. "idle" \in Opened  BY Labels
    <3>2. NoJournal \in JournalRecord  BY DEF NoJournal, JournalRecord
    <3>. QED BY Ends, <3>1, <3>2 DEF TypeOK, Source
  <2>2. pc = "idle" /\ pc \notin Running /\ pc \notin Closed /\ pc \in Opened
    BY DEF Running, Closed, Forward, Backward, Opened
  <2>3. \A j \in Run : journal[j].state = "absent" /\ ~journal[j].deferred
    BY DEF NoJournal
  <2>4. NothingYet  BY DEF NothingYet, Nowhere, HasEdit
  <2>5. JournalAt /\ FirstRun /\ HistoryStep /\ Recovered
    BY <2>2, <2>3 DEF JournalAt, FirstRun, HistoryStep, Recovered, Closed
  <2>6. Together
    BY <2>2, <2>3 DEF Together, Live, Quiet, Agree, Restored, HasEdit, Nowhere
  <2>. QED BY <2>1, <2>4, <2>5, <2>6 DEF HInv
<1>2. HInv /\ [Next]_vars => HInv'
  <2>. SUFFICES ASSUME HInv, [Next]_vars
                PROVE  HInv'
    OBVIOUS
  <2>1. TypeOK'  BY TypeOKStep DEF HInv
  <2>2. NothingYet' /\ JournalAt' /\ FirstRun' /\ HistoryStep'
    BY <2>1, NothingYetStep, JournalAtStep, FirstRunStep, HistoryKept DEF HInv
  <2>3. Recovered'
    BY <2>1, RecoveredStep DEF HInv
  <2>4. ~undone' /\ ~degraded' => Together'
    BY <2>1, TogetherStep DEF HInv
  <2>. QED BY <2>1, <2>2, <2>3, <2>4 DEF HInv
<1>. QED BY <1>1, <1>2, PTL DEF Spec

\* Every variable keeps its type (the edit, its journals and their recovery).
THEOREM TypeCorrect == Spec => []TypeOK
<1>1. HInv => TypeOK  BY DEF HInv
<1>. QED BY <1>1, HostInvariant, PTL

\* An edit is in both halves or in neither whenever a writable document is at rest,
\* through failures, refusals, crashes and restarts, unless a native Undo is in between
\* or recovery was degraded.
THEOREM HalvesStayTogether == Spec => []HalvesAgree
<1>1. HInv => HalvesAgree
  <2>. SUFFICES ASSUME HInv, pc = "idle", ~manual, ~degraded, ~undone
                PROVE  Agree
    BY DEF HalvesAgree
  <2>1. Together /\ pc \in Opened  BY Labels DEF HInv
  <2>2. CASE Quiet  BY <2>1, <2>2 DEF Together
  <2>3. CASE ~Quiet
    BY <2>1, <2>3 DEF Together, Quiet, Nowhere, Agree
  <2>. QED BY <2>2, <2>3
<1>. QED BY <1>1, HostInvariant, PTL

\* No recovery takes the resource from under a saved source that has the edit.
THEOREM SavedSourcesAreKept == Spec => []SavedSourceKept
<1>1. HInv => SavedSourceKept  BY DEF HInv, Together, SavedSourceKept
<1>. QED BY <1>1, HostInvariant, PTL

\* An operation reported as refused has left nothing behind.
THEOREM RefusedLeavesNothing == Spec => []RefusedIsAbsent
<1>1. HInv => RefusedIsAbsent
  <2>. SUFFICES ASSUME HInv, pc = "idle", ledger = "refused", ~manual, ~degraded, ~undone
                PROVE  res = "before" /\ buffer \notin HasEdit
    BY DEF RefusedIsAbsent
  <2>1. Together /\ pc \in Opened /\ res \in {"before", "after"}  BY Labels DEF HInv, TypeOK
  <2>2. CASE Quiet  BY <2>1, <2>2 DEF Together, Agree
  <2>3. CASE ~Quiet
    BY <2>1, <2>3 DEF Together, Quiet, Nowhere
  <2>. QED BY <2>2, <2>3
<1>. QED BY <1>1, HostInvariant, PTL

\* An established receipt is not rewritten.
LEMMA EstablishedStep ==
  ASSUME TypeOK, JournalAt, FirstRun, [Next]_vars
  PROVE  Established
<1>. USE DEF TypeOK, Established, JournalAt, FirstRun, Running, Forward, Backward, files,
  document, place, ghosts, Goto, Persist, Fails, Rejected
<1>1. CASE Begin
  BY <1>1 DEF Begin
<1>2. CASE Prepare
  BY <1>2 DEF Prepare
<1>3. CASE Applying
  BY <1>3 DEF Applying
<1>4. CASE Write
  BY <1>4 DEF Write
<1>5. CASE Receipt
  BY <1>5 DEF Receipt
<1>6. CASE Committed
  BY <1>6 DEF Committed
<1>7. CASE Commit
  BY <1>7 DEF Commit
<1>8. CASE Confirm
  BY <1>8 DEF Confirm
<1>9. CASE Undo
  BY <1>9 DEF Undo
<1>10. CASE Redo
  BY <1>10 DEF Redo
<1>11. CASE Replayed
  BY <1>11 DEF Replayed
<1>12. CASE RollBack
  BY <1>12 DEF RollBack
<1>13. CASE Restore
  BY <1>13 DEF Restore
<1>14. CASE GiveUp
  BY <1>14 DEF GiveUp
<1>15. CASE RolledBack
  BY <1>15 DEF RolledBack, Settled
<1>16. CASE OtherEdit
  BY <1>16 DEF OtherEdit
<1>17. CASE Save
  BY <1>17 DEF Save
<1>18. CASE Backup
  BY <1>18 DEF Backup
<1>19. CASE Retry
  BY <1>19 DEF Retry
<1>20. CASE Crash
  BY <1>20 DEF Crash
<1>21. CASE Restart
  BY <1>21 DEF Restart
<1>22. CASE Startup
  BY <1>22 DEF Startup, Visited, Compensated, Unowned, Interrupted, Deferred, Matching,
       Settles, Leaves
<1>23. CASE Open
  BY <1>23 DEF Open
<1>24. CASE Reconcile
  BY <1>24 DEF Reconcile, Visited, Retain, Compensate, Compensated, Unowned, Interrupted,
       Deferred, Surrender, Matching, Receipts
<1>25. CASE UNCHANGED vars
  BY <1>25 DEF vars
<1>. QED BY <1>1, <1>2, <1>3, <1>4, <1>5, <1>6, <1>7, <1>8, <1>9, <1>10, <1>11, <1>12,
    <1>13, <1>14, <1>15, <1>16, <1>17, <1>18, <1>19, <1>20, <1>21, <1>22, <1>23,
    <1>24, <1>25 DEF Next

\* An established outcome is never revised: not by the run that established it, by a
\* retry of the operation, by a native Undo or Redo, or by what a restart makes of its
\* journal.
THEOREM OutcomesAreFinal == Spec => OutcomeIsFinal
<1>1. HInv /\ [Next]_vars => [Established]_vars
  BY EstablishedStep DEF HInv
<1>. QED BY <1>1, HostInvariant, PTL DEF OutcomeIsFinal, Spec
==============================================================================
