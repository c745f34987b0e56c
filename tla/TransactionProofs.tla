-------------------------- MODULE TransactionProofs --------------------------
(***************************************************************************)
(* Proofs that a transaction and its startup recovery keep their           *)
(* invariants and implement AtomicUpdate, for every number of targets.     *)
(* Each part of IInv has one lemma, with one step per action of the code.  *)
(***************************************************************************)
EXTENDS TransactionRefinement, TLAPS

\* The ends of a loop are targets.
LEMMA Ranges == First \in Target /\ Last \in Target
BY NAssumption DEF First, Last, Target

\* Every label and journal state by name, so that the sets need not be expanded.
LEMMA Labels ==
  /\ {"capture", "created", "prepared", "gate", "recheck", "aborted", "applying",
      "check", "write", "verify", "receipt", "applied", "post", "register",
      "undoRegistered", "committed", "catch", "owned", "validate", "restore",
      "restoreWrite", "restoreVerify", "postBase", "rolledBack", "manual", "load",
      "discard", "observe", "judge", "resume", "reread", "restoreTarget",
      "confirmTarget", "final", "finish", "remove", "giveUp", "settled", "down",
      "ready"} \subseteq Pc
  /\ {"created", "prepared", "applying", "applied", "undoRegistered", "committed",
      "rollingBack", "rolledBack", "recoveryRequired", "aborted"} \subseteq
      JournalState
BY DEF Pc, RunPc, RecoveryPc, JournalState

\* A loop stays inside the targets, and continues at one of its two labels.
LEMMA LoopTyped ==
  ASSUME TypeOK, NEW label \in Pc, NEW done \in Pc, NEW at \in Target,
         Up(label, done, at) \/ Down(label, done, at)
  PROVE  pc' \in Pc /\ i' \in Target
<1>1. (i < N => i + 1 \in Target) /\ (i > 1 => i - 1 \in Target)
  BY NAssumption DEF TypeOK, Target
<1>. QED BY <1>1 DEF Up, Down, Goto

\* A loop goes on, or leaves.
LEMMA LoopGoes ==
  ASSUME NEW label, NEW done, NEW at, Up(label, done, at) \/ Down(label, done, at)
  PROVE  pc' = label \/ pc' = done
BY DEF Up, Down, Goto

------------------------------------------------------------------------------
\* Every step keeps the types.
LEMMA TypeOKStep ==
  ASSUME TypeOK, [Next]_vars
  PROVE  TypeOK'
<1>. USE Ranges, LoopTyped DEF TypeOK, Image, Result, Outcome, Goto, Holds, Differs,
  Persisted, PersistFails, Lands, Throw, Report, Unlinked, Delete, journal, memory,
  caller, history, recVars
<1>1. CASE RunnerStep
  <2>. fresh' = {} /\ UNCHANGED <<conflict, outcome, retired>>  BY <1>1 DEF RunnerStep
  <2>1. CASE Capture
    <3>1. {"capture", "created", "settled"} \subseteq Pc  BY Labels
    <3>. QED BY <2>1, <3>1 DEF Capture
  <2>2. CASE PersistCreated
    <3>1. /\ {"created", "gate", "prepared", "settled"} \subseteq Pc
            /\ {"created", "prepared"} \subseteq JournalState
      BY Labels
    <3>. QED BY <2>2, <3>1 DEF PersistCreated
  <2>3. CASE Gate
    <3>1. {"aborted", "gate", "recheck"} \subseteq Pc  BY Labels
    <3>. QED BY <2>3, <3>1 DEF Gate
  <2>4. CASE Recheck
    <3>1. {"aborted", "applying", "recheck"} \subseteq Pc  BY Labels
    <3>. QED BY <2>4, <3>1 DEF Recheck
  <2>5. CASE PersistAborted
    <3>1. /\ {"aborted", "settled"} \subseteq Pc
            /\ {"aborted"} \subseteq JournalState
      BY Labels
    <3>. QED BY <2>5, <3>1 DEF PersistAborted
  <2>6. CASE PersistApplying
    <3>1. /\ {"applying", "check", "settled"} \subseteq Pc
            /\ {"applying"} \subseteq JournalState
      BY Labels
    <3>. QED BY <2>6, <3>1 DEF PersistApplying
  <2>7. CASE Check
    <3>1. {"catch", "check", "write"} \subseteq Pc  BY Labels
    <3>. QED BY <2>7, <3>1 DEF Check
  <2>8. CASE WriteLands
    <3>1. {"catch", "verify", "write"} \subseteq Pc  BY Labels
    <3>. QED BY <2>8, <3>1 DEF WriteLands
  <2>9. CASE WriteFails
    <3>1. {"catch", "write"} \subseteq Pc  BY Labels
    <3>. QED BY <2>9, <3>1 DEF WriteFails
  <2>10. CASE Verify
    <3>1. {"catch", "receipt", "verify"} \subseteq Pc  BY Labels
    <3>. QED BY <2>10, <3>1 DEF Verify
  <2>11. CASE PersistReceipt
    <3>1. /\ {"applied", "applying", "catch", "check", "receipt"} \subseteq Pc
            /\ {"applied", "applying"} \subseteq JournalState
      BY Labels
    <3>2. pc' \in Pc /\ i' \in Target
      <4>1. Up("check", "applied", First) => pc' \in Pc /\ i' \in Target  BY <3>1, LoopTyped
      <4>2. Goto("catch", First) => pc' \in Pc /\ i' \in Target  BY <3>1
      <4>. QED BY <2>11, <4>1, <4>2 DEF PersistReceipt
    <3>3. applied' \in SUBSET Target  BY <2>11 DEF PersistReceipt
    <3>4. UNCHANGED <<disk, state, attempted, uncertain, caller, owner, wrote>>  BY <2>11 DEF PersistReceipt
    <3>. QED BY <2>11, <3>1, <3>2, <3>3, <3>4 DEF PersistReceipt
  <2>12. CASE PersistApplied
    <3>1. /\ {"applied", "catch", "post"} \subseteq Pc
            /\ {"applied"} \subseteq JournalState
      BY Labels
    <3>. QED BY <2>12, <3>1 DEF PersistApplied
  <2>13. CASE Postconditions
    <3>1. {"catch", "post", "register"} \subseteq Pc  BY Labels
    <3>. QED BY <2>13, <3>1 DEF Postconditions
  <2>14. CASE RegisterUndo
    <3>1. {"catch", "register", "undoRegistered"} \subseteq Pc  BY Labels
    <3>. QED BY <2>14, <3>1 DEF RegisterUndo
  <2>15. CASE PersistUndoRegistered
    <3>1. /\ {"catch", "committed", "undoRegistered"} \subseteq Pc
            /\ {"committed", "undoRegistered"} \subseteq JournalState
      BY Labels
    <3>. QED BY <2>15, <3>1 DEF PersistUndoRegistered
  <2>16. CASE PersistCommitted
    <3>1. /\ {"catch", "committed", "settled"} \subseteq Pc
            /\ {"committed"} \subseteq JournalState
      BY Labels
    <3>. QED BY <2>16, <3>1 DEF PersistCommitted
  <2>17. CASE Catch
    <3>1. /\ {"catch", "owned", "settled", "validate"} \subseteq Pc
            /\ {"rollingBack"} \subseteq JournalState
      BY Labels
    <3>. QED BY <2>17, <3>1 DEF Catch
  <2>18. CASE CheckOwnership
    <3>1. {"manual", "owned", "validate"} \subseteq Pc  BY Labels
    <3>. QED BY <2>18, <3>1 DEF CheckOwnership
  <2>19. CASE ValidateAttempted
    <3>1. {"manual", "restore", "validate"} \subseteq Pc  BY Labels
    <3>. QED BY <2>19, <3>1 DEF ValidateAttempted
  <2>20. CASE CompensateCheck
    <3>1. {"manual", "postBase", "restore", "restoreWrite"} \subseteq Pc  BY Labels
    <3>. QED BY <2>20, <3>1 DEF CompensateCheck
  <2>21. CASE CompensateWrite
    <3>1. {"manual", "restoreVerify", "restoreWrite"} \subseteq Pc  BY Labels
    <3>2. disk' \in [Target -> Image] /\ owner' \in [Target -> {"none", "txn", "outside"}]
      BY <2>21 DEF CompensateWrite
    <3>3. wrote' \in SUBSET Target  BY <2>21 DEF CompensateWrite
    <3>4. pc' \in Pc /\ i' \in Target /\ disturbed' \in BOOLEAN  BY <2>21, <3>1 DEF CompensateWrite
    <3>5. UNCHANGED <<journal, memory, caller>>  BY <2>21 DEF CompensateWrite
    <3>. QED BY <3>2, <3>3, <3>4, <3>5
  <2>22. CASE CompensateVerify
    <3>1. {"manual", "postBase", "restore", "restoreVerify"} \subseteq Pc  BY Labels
    <3>. QED BY <2>22, <3>1 DEF CompensateVerify
  <2>23. CASE CompensatePostconditions
    <3>1. {"manual", "postBase", "rolledBack"} \subseteq Pc  BY Labels
    <3>. QED BY <2>23, <3>1 DEF CompensatePostconditions
  <2>24. CASE PersistRolledBack
    <3>1. /\ {"rolledBack", "settled"} \subseteq Pc
            /\ {"rolledBack"} \subseteq JournalState
      BY Labels
    <3>. QED BY <2>24, <3>1 DEF PersistRolledBack
  <2>25. CASE PersistManual
    <3>1. /\ {"manual", "settled"} \subseteq Pc
            /\ {"recoveryRequired"} \subseteq JournalState
      BY Labels
    <3>. QED BY <2>25, <3>1 DEF PersistManual
  <2>26. CASE ReadFails
    <3>1. {"catch", "settled"} \subseteq Pc  BY Labels
    <3>. QED BY <2>26, <3>1 DEF ReadFails, TryReads, OtherReads
  <2>. QED BY <1>1, <2>1, <2>2, <2>3, <2>4, <2>5, <2>6, <2>7, <2>8, <2>9, <2>10, <2>11, <2>12,
        <2>13, <2>14, <2>15, <2>16, <2>17, <2>18, <2>19, <2>20, <2>21, <2>22, <2>23, <2>24,
        <2>25, <2>26 DEF RunnerStep, RunStep
<1>2. CASE RecoveryStep
  <2>. fresh' = {}  BY <1>2 DEF RecoveryStep
  <2>1. CASE Load
    <3>1. {"ready", "discard", "observe"} \subseteq Pc  BY Labels
    <3>. QED BY <2>1, <3>1 DEF Load, Kind, Classify
  <2>2. CASE Discard
    <3>1. {"committed", "discard", "ready"} \subseteq Pc  BY Labels
    <3>. QED BY <2>2, <3>1 DEF Discard
  <2>3. CASE Observe
    <3>1. {"giveUp", "judge", "observe"} \subseteq Pc  BY Labels
    <3>2. conflict' \in BOOLEAN /\ disturbed' \in BOOLEAN  BY <2>3 DEF Observe
    <3>3. pc' \in Pc /\ i' \in Target  BY <2>3, <3>1 DEF Observe
    <3>4. UNCHANGED <<disk, journal, memory, caller, owner, wrote, outcome, retired>>
      BY <2>3 DEF Observe
    <3>. QED BY <3>2, <3>3, <3>4
  <2>4. CASE Judge
    <3>1. {"giveUp", "judge", "resume"} \subseteq Pc  BY Labels
    <3>. QED BY <2>4, <3>1 DEF Judge
  <2>5. CASE PersistRollingBack
    <3>1. /\ {"ready", "reread", "resume"} \subseteq Pc
            /\ {"rollingBack"} \subseteq JournalState
      BY Labels
    <3>. QED BY <2>5, <3>1 DEF PersistRollingBack
  <2>6. CASE Reread
    <3>1. {"final", "giveUp", "reread", "restoreTarget"} \subseteq Pc  BY Labels
    <3>. QED BY <2>6, <3>1 DEF Reread
  <2>7. CASE RestoreTarget
    <3>1. {"confirmTarget", "giveUp", "restoreTarget"} \subseteq Pc  BY Labels
    <3>2. disk' \in [Target -> Image] /\ owner' \in [Target -> {"none", "txn", "outside"}]
      BY <2>7 DEF RestoreTarget
    <3>3. wrote' \in SUBSET Target  BY <2>7 DEF RestoreTarget
    <3>4. pc' \in Pc /\ i' \in Target /\ disturbed' \in BOOLEAN  BY <2>7, <3>1 DEF RestoreTarget
    <3>5. UNCHANGED <<journal, memory, caller, conflict, outcome, retired>>  BY <2>7 DEF RestoreTarget
    <3>. QED BY <3>2, <3>3, <3>4, <3>5
  <2>8. CASE ConfirmTarget
    <3>1. {"confirmTarget", "final", "giveUp", "reread"} \subseteq Pc  BY Labels
    <3>. QED BY <2>8, <3>1 DEF ConfirmTarget
  <2>9. CASE FinalCheck
    <3>1. {"final", "finish", "giveUp"} \subseteq Pc  BY Labels
    <3>. QED BY <2>9, <3>1 DEF FinalCheck
  <2>10. CASE PersistFinish
    <3>1. /\ {"finish", "ready", "remove", "rolledBack"} \subseteq Pc
            /\ {"rolledBack"} \subseteq JournalState
      BY Labels
    <3>. QED BY <2>10, <3>1 DEF PersistFinish
  <2>11. CASE Remove
    <3>1. {"ready", "remove", "rolledBack"} \subseteq Pc  BY Labels
    <3>. QED BY <2>11, <3>1 DEF Remove
  <2>12. CASE PersistGiveUp
    <3>1. /\ {"giveUp", "manual", "ready"} \subseteq Pc
            /\ {"recoveryRequired"} \subseteq JournalState
      BY Labels
    <3>. QED BY <2>12, <3>1 DEF PersistGiveUp
  <2>13. CASE RestoreReadFails
    <3>1. {"confirmTarget", "final", "giveUp", "reread"} \subseteq Pc  BY Labels
    <3>. QED BY <2>13, <3>1 DEF RestoreReadFails
  <2>. QED BY <1>2, <2>1, <2>2, <2>3, <2>4, <2>5, <2>6, <2>7, <2>8, <2>9, <2>10, <2>11, <2>12, <2>13 DEF RecoveryStep
<1>3. CASE Undo
  <2>1. {"validate", "settled"} \subseteq Pc /\ "rollingBack" \in JournalState  BY Labels
  <2>. QED BY <1>3, <2>1 DEF Undo, StartUndo
<1>4. CASE Outside  BY <1>4 DEF Outside, OutsideWrite
<1>5. CASE Crash
  <2>1. "down" \in Pc /\ "created" \in JournalState  BY Labels
  <2>. QED BY <1>5, <2>1 DEF Crash
<1>6. CASE Restart
  <2>1. "load" \in Pc  BY Labels
  <2>. QED BY <1>6, <2>1 DEF Restart
<1>7. CASE UNCHANGED vars  BY <1>7 DEF vars, runVars
<1>. QED BY <1>1, <1>2, <1>3, <1>4, <1>5, <1>6, <1>7 DEF Next

\* Every step keeps what relates the journal, the receipts and the code's position.
LEMMA JournalStep ==
  ASSUME TypeOK, NothingYet, JournalAhead, Receipts, LookedAt, Unowned, AnswerIsDurable,
         Undoable, [Next]_vars
  PROVE  NothingYet' /\ JournalAhead' /\ Receipts' /\ LookedAt' /\ Unowned'
         /\ AnswerIsDurable' /\ Undoable'
<1>. USE LoopGoes DEF TypeOK, NothingYet, JournalAhead, Receipts, LookedAt, Unowned,
  AnswerIsDurable, Undoable, BeforeWrites, Compensating, Restoring, CleanState,
  RecoveryPc, Goto, Holds, Differs, Persisted, PersistFails, Lands, Throw, Report,
  Unlinked, Delete, journal, memory, caller, history, recVars
<1>1. CASE RunnerStep
  <2>. fresh' = {} /\ UNCHANGED <<conflict, outcome, retired>>  BY <1>1 DEF RunnerStep
  <2>1. CASE Capture
    BY <2>1 DEF Capture
  <2>2. CASE PersistCreated
    BY <2>2 DEF PersistCreated
  <2>3. CASE Gate
    BY <2>3 DEF Gate
  <2>4. CASE Recheck
    BY <2>4 DEF Recheck
  <2>5. CASE PersistAborted
    BY <2>5 DEF PersistAborted
  <2>6. CASE PersistApplying
    BY <2>6 DEF PersistApplying
  <2>7. CASE Check
    BY <2>7 DEF Check
  <2>8. CASE WriteLands
    BY <2>8 DEF WriteLands
  <2>9. CASE WriteFails
    BY <2>9 DEF WriteFails
  <2>10. CASE Verify
    BY <2>10 DEF Verify
  <2>11. CASE PersistReceipt
    BY <2>11 DEF PersistReceipt
  <2>12. CASE PersistApplied
    BY <2>12 DEF PersistApplied
  <2>13. CASE Postconditions
    BY <2>13 DEF Postconditions
  <2>14. CASE RegisterUndo
    BY <2>14 DEF RegisterUndo
  <2>15. CASE PersistUndoRegistered
    BY <2>15 DEF PersistUndoRegistered
  <2>16. CASE PersistCommitted
    BY <2>16 DEF PersistCommitted
  <2>17. CASE Catch
    BY <2>17 DEF Catch
  <2>18. CASE CheckOwnership
    BY <2>18 DEF CheckOwnership
  <2>19. CASE ValidateAttempted
    BY <2>19 DEF ValidateAttempted
  <2>20. CASE CompensateCheck
    BY <2>20 DEF CompensateCheck
  <2>21. CASE CompensateWrite
    BY <2>21 DEF CompensateWrite
  <2>22. CASE CompensateVerify
    BY <2>22 DEF CompensateVerify
  <2>23. CASE CompensatePostconditions
    BY <2>23 DEF CompensatePostconditions
  <2>24. CASE PersistRolledBack
    BY <2>24 DEF PersistRolledBack
  <2>25. CASE PersistManual
    BY <2>25 DEF PersistManual
  <2>26. CASE ReadFails
    BY <2>26 DEF ReadFails, TryReads, OtherReads
  <2>. QED BY <1>1, <2>1, <2>2, <2>3, <2>4, <2>5, <2>6, <2>7, <2>8, <2>9, <2>10, <2>11, <2>12,
        <2>13, <2>14, <2>15, <2>16, <2>17, <2>18, <2>19, <2>20, <2>21, <2>22, <2>23, <2>24,
        <2>25, <2>26 DEF RunnerStep, RunStep
<1>2. CASE RecoveryStep
  <2>. fresh' = {}  BY <1>2 DEF RecoveryStep
  <2>1. CASE Load
    BY <2>1 DEF Load, Kind, Classify, JournalState
  <2>2. CASE Discard
    BY <2>2 DEF Discard
  <2>3. CASE Observe
    BY <2>3 DEF Observe
  <2>4. CASE Judge
    BY <2>4 DEF Judge
  <2>5. CASE PersistRollingBack
    BY <2>5 DEF PersistRollingBack
  <2>6. CASE Reread
    BY <2>6 DEF Reread
  <2>7. CASE RestoreTarget
    BY <2>7 DEF RestoreTarget
  <2>8. CASE ConfirmTarget
    BY <2>8 DEF ConfirmTarget
  <2>9. CASE FinalCheck
    BY <2>9 DEF FinalCheck
  <2>10. CASE PersistFinish
    BY <2>10 DEF PersistFinish
  <2>11. CASE Remove
    BY <2>11 DEF Remove
  <2>12. CASE PersistGiveUp
    BY <2>12 DEF PersistGiveUp
  <2>13. CASE RestoreReadFails
    BY <2>13 DEF RestoreReadFails
  <2>. QED BY <1>2, <2>1, <2>2, <2>3, <2>4, <2>5, <2>6, <2>7, <2>8, <2>9, <2>10, <2>11, <2>12, <2>13 DEF RecoveryStep
<1>3. CASE Undo  BY <1>3 DEF Undo, StartUndo
<1>4. CASE Outside  BY <1>4 DEF Outside, OutsideWrite
<1>5. CASE Crash  BY <1>5 DEF Crash
<1>6. CASE Restart  BY <1>6 DEF Restart
<1>7. CASE UNCHANGED vars  BY <1>7 DEF vars, runVars
<1>. QED BY <1>1, <1>2, <1>3, <1>4, <1>5, <1>6, <1>7 DEF Next

\* Every step keeps what the loops and the journal say of the files.
LEMMA TargetsStep ==
  ASSUME TypeOK, Unowned, NothingYet, JournalAhead, Receipts, JournalSpeaksTrue, LoopProgress,
         [Next]_vars
  PROVE  LoopProgress' /\ JournalSpeaksTrue'
<1>. USE NAssumption DEF TypeOK, Unowned, NothingYet, JournalAhead, JournalSpeaksTrue,
  Receipts, LoopProgress, First, Last, Target, BeforeWrites, InTry, Compensating,
  Restoring, CleanState, AtBase, Landed, Goto, Holds, Differs, Persisted, PersistFails,
  Lands, Throw, Report, Unlinked, Delete, journal, memory, caller, history, recVars
<1>1. CASE RunnerStep
  <2>. fresh' = {} /\ UNCHANGED <<conflict, outcome, retired>>  BY <1>1 DEF RunnerStep
  <2>1. CASE Capture
    BY <2>1 DEF Capture, Up
  <2>2. CASE PersistCreated
    BY <2>2 DEF PersistCreated
  <2>3. CASE Gate
    BY <2>3 DEF Gate
  <2>4. CASE Recheck
    BY <2>4 DEF Recheck, Up
  <2>5. CASE PersistAborted
    BY <2>5 DEF PersistAborted
  <2>6. CASE PersistApplying
    BY <2>6 DEF PersistApplying
  <2>7. CASE Check
    BY <2>7 DEF Check
  <2>8. CASE WriteLands
    BY <2>8 DEF WriteLands
  <2>9. CASE WriteFails
    BY <2>9 DEF WriteFails
  <2>10. CASE Verify
    BY <2>10 DEF Verify
  <2>11. CASE PersistReceipt
    BY <2>11 DEF PersistReceipt, Up
  <2>12. CASE PersistApplied
    BY <2>12 DEF PersistApplied
  <2>13. CASE Postconditions
    BY <2>13 DEF Postconditions, Up
  <2>14. CASE RegisterUndo
    BY <2>14 DEF RegisterUndo
  <2>15. CASE PersistUndoRegistered
    BY <2>15 DEF PersistUndoRegistered
  <2>16. CASE PersistCommitted
    BY <2>16 DEF PersistCommitted
  <2>17. CASE Catch
    BY <2>17 DEF Catch
  <2>18. CASE CheckOwnership
    BY <2>18 DEF CheckOwnership
  <2>19. CASE ValidateAttempted
    BY <2>19 DEF ValidateAttempted, Down
  <2>20. CASE CompensateCheck
    BY <2>20 DEF CompensateCheck, Down
  <2>21. CASE CompensateWrite
    BY <2>21 DEF CompensateWrite
  <2>22. CASE CompensateVerify
    BY <2>22 DEF CompensateVerify, Down
  <2>23. CASE CompensatePostconditions
    BY <2>23 DEF CompensatePostconditions, Up
  <2>24. CASE PersistRolledBack
    BY <2>24 DEF PersistRolledBack
  <2>25. CASE PersistManual
    BY <2>25 DEF PersistManual
  <2>26. CASE ReadFails
    BY <2>26 DEF ReadFails, TryReads, OtherReads
  <2>. QED BY <1>1, <2>1, <2>2, <2>3, <2>4, <2>5, <2>6, <2>7, <2>8, <2>9, <2>10, <2>11, <2>12,
        <2>13, <2>14, <2>15, <2>16, <2>17, <2>18, <2>19, <2>20, <2>21, <2>22, <2>23, <2>24,
        <2>25, <2>26 DEF RunnerStep, RunStep
<1>2. CASE RecoveryStep
  <2>. fresh' = {}  BY <1>2 DEF RecoveryStep
  <2>1. CASE Load
    BY <2>1 DEF Load, Kind, Classify
  <2>2. CASE Discard
    BY <2>2 DEF Discard
  <2>3. CASE Observe
    BY <2>3 DEF Observe, Up
  <2>4. CASE Judge
    BY <2>4 DEF Judge
  <2>5. CASE PersistRollingBack
    BY <2>5 DEF PersistRollingBack
  <2>6. CASE Reread
    BY <2>6 DEF Reread, Down
  <2>7. CASE RestoreTarget
    BY <2>7 DEF RestoreTarget
  <2>8. CASE ConfirmTarget
    BY <2>8 DEF ConfirmTarget, Down
  <2>9. CASE FinalCheck
    BY <2>9 DEF FinalCheck, Up
  <2>10. CASE PersistFinish
    BY <2>10 DEF PersistFinish
  <2>11. CASE Remove
    BY <2>11 DEF Remove
  <2>12. CASE PersistGiveUp
    BY <2>12 DEF PersistGiveUp
  <2>13. CASE RestoreReadFails
    BY <2>13 DEF RestoreReadFails
  <2>. QED BY <1>2, <2>1, <2>2, <2>3, <2>4, <2>5, <2>6, <2>7, <2>8, <2>9, <2>10, <2>11, <2>12, <2>13 DEF RecoveryStep
<1>3. CASE Undo  BY <1>3 DEF Undo, StartUndo
<1>4. CASE Outside  BY <1>4 DEF Outside, OutsideWrite
<1>5. CASE Crash  BY <1>5 DEF Crash
<1>6. CASE Restart  BY <1>6 DEF Restart
<1>7. CASE UNCHANGED vars  BY <1>7 DEF vars, runVars
<1>. QED BY <1>1, <1>2, <1>3, <1>4, <1>5, <1>6, <1>7 DEF Next

\* Every step keeps what a manual decision is derived from.
LEMMA CauseStep ==
  ASSUME TypeOK, Unowned, NothingYet, JournalAhead, Receipts, LoopProgress, LookedAt,
         AnswerIsDurable, Undisturbed, CauseIsKept, [Next]_vars
  PROVE  Undisturbed' /\ CauseIsKept'
<1>. USE LoopGoes DEF TypeOK, Image, Unowned, NothingYet, JournalAhead, Receipts, LoopProgress,
  LookedAt, AnswerIsDurable, Undisturbed, CauseIsKept, Cause, BeforeWrites, InTry,
  Compensating, Restoring, CleanState, AtBase, Landed, RunPc, RecoveryPc, Goto, Holds,
  Differs, Persisted, PersistFails, Lands, Throw, Report, Unlinked, Delete, journal,
  memory, caller, history, recVars
<1>1. CASE RunnerStep
  <2>. fresh' = {} /\ UNCHANGED <<conflict, outcome, retired>>  BY <1>1 DEF RunnerStep
  <2>1. CASE Capture
    BY <2>1 DEF Capture
  <2>2. CASE PersistCreated
    BY <2>2 DEF PersistCreated
  <2>3. CASE Gate
    BY <2>3 DEF Gate
  <2>4. CASE Recheck
    BY <2>4 DEF Recheck
  <2>5. CASE PersistAborted
    BY <2>5 DEF PersistAborted
  <2>6. CASE PersistApplying
    BY <2>6 DEF PersistApplying
  <2>7. CASE Check
    BY <2>7 DEF Check
  <2>8. CASE WriteLands
    BY <2>8 DEF WriteLands
  <2>9. CASE WriteFails
    BY <2>9 DEF WriteFails
  <2>10. CASE Verify
    BY <2>10 DEF Verify
  <2>11. CASE PersistReceipt
    <3>1. /\ UNCHANGED <<disk, state, attempted, uncertain, caller, owner, wrote>>
          /\ applied' = applied \cup {i}
      BY <2>11 DEF PersistReceipt
    <3>2. CASE Persisted("applying", applied') /\ Up("check", "applied", First)
      <4>1. (pc' = "check" \/ pc' = "applied") /\ jState' = "applying"
        BY <3>2
      <4>2. jApplied' = applied' /\ UNCHANGED disturbed  BY <3>2
      <4>3. ~disturbed => wrote \subseteq jApplied'  BY <2>11, <3>1, <4>2 DEF PersistReceipt
      <4>4. Undisturbed'  BY <3>1, <4>1, <4>2, <4>3
      <4>. QED BY <2>11, <3>1, <4>1, <4>4 DEF PersistReceipt
    <3>3. CASE PersistFails("applying", applied') /\ Goto("catch", First)
      BY <2>11, <3>1, <3>3 DEF PersistReceipt
    <3>. QED BY <2>11, <3>2, <3>3 DEF PersistReceipt
  <2>12. CASE PersistApplied
    BY <2>12 DEF PersistApplied
  <2>13. CASE Postconditions
    BY <2>13 DEF Postconditions
  <2>14. CASE RegisterUndo
    BY <2>14 DEF RegisterUndo
  <2>15. CASE PersistUndoRegistered
    BY <2>15 DEF PersistUndoRegistered
  <2>16. CASE PersistCommitted
    BY <2>16 DEF PersistCommitted
  <2>17. CASE Catch
    BY <2>17 DEF Catch
  <2>18. CASE CheckOwnership
    BY <2>18 DEF CheckOwnership
  <2>19. CASE ValidateAttempted
    BY <2>19 DEF ValidateAttempted
  <2>20. CASE CompensateCheck
    BY <2>20 DEF CompensateCheck
  <2>21. CASE CompensateWrite
    BY <2>21 DEF CompensateWrite
  <2>22. CASE CompensateVerify
    BY <2>22 DEF CompensateVerify
  <2>23. CASE CompensatePostconditions
    BY <2>23 DEF CompensatePostconditions
  <2>24. CASE PersistRolledBack
    BY <2>24 DEF PersistRolledBack
  <2>25. CASE PersistManual
    BY <2>25 DEF PersistManual
  <2>26. CASE ReadFails
    BY <2>26 DEF ReadFails, TryReads, OtherReads
  <2>. QED BY <1>1, <2>1, <2>2, <2>3, <2>4, <2>5, <2>6, <2>7, <2>8, <2>9, <2>10, <2>11, <2>12,
        <2>13, <2>14, <2>15, <2>16, <2>17, <2>18, <2>19, <2>20, <2>21, <2>22, <2>23, <2>24,
        <2>25, <2>26 DEF RunnerStep, RunStep
<1>2. CASE RecoveryStep
  <2>. fresh' = {}  BY <1>2 DEF RecoveryStep
  <2>1. CASE Load
    BY <2>1 DEF Load, Kind, Classify, JournalState
  <2>2. CASE Discard
    BY <2>2 DEF Discard
  <2>3. CASE Observe
    BY <2>3 DEF Observe
  <2>4. CASE Judge
    BY <2>4 DEF Judge
  <2>5. CASE PersistRollingBack
    BY <2>5 DEF PersistRollingBack
  <2>6. CASE Reread
    BY <2>6 DEF Reread
  <2>7. CASE RestoreTarget
    BY <2>7 DEF RestoreTarget
  <2>8. CASE ConfirmTarget
    BY <2>8 DEF ConfirmTarget
  <2>9. CASE FinalCheck
    BY <2>9 DEF FinalCheck
  <2>10. CASE PersistFinish
    BY <2>10 DEF PersistFinish
  <2>11. CASE Remove
    BY <2>11 DEF Remove
  <2>12. CASE PersistGiveUp
    BY <2>12 DEF PersistGiveUp
  <2>13. CASE RestoreReadFails
    BY <2>13 DEF RestoreReadFails
  <2>. QED BY <1>2, <2>1, <2>2, <2>3, <2>4, <2>5, <2>6, <2>7, <2>8, <2>9, <2>10, <2>11, <2>12, <2>13 DEF RecoveryStep
<1>3. CASE Undo  BY <1>3 DEF Undo, StartUndo
<1>4. CASE Outside  BY <1>4 DEF Outside, OutsideWrite
<1>5. CASE Crash  BY <1>5 DEF Crash
<1>6. CASE Restart  BY <1>6 DEF Restart
<1>7. CASE UNCHANGED vars  BY <1>7 DEF vars, runVars
<1>. QED BY <1>1, <1>2, <1>3, <1>4, <1>5, <1>6, <1>7 DEF Next

------------------------------------------------------------------------------
\* Every reachable state satisfies the inductive invariant.
THEOREM Invariance == Spec => []IInv
<1>1. Init => IInv
  BY Ranges, Labels DEF Init, RunInit, IInv, TypeOK, Image, Result, Outcome, Unowned, NothingYet,
     JournalAhead, Receipts, LoopProgress, JournalSpeaksTrue, LookedAt, AnswerIsDurable, Undoable, Undisturbed,
     CauseIsKept, Cause, BeforeWrites, InTry, Compensating, Restoring, RunPc, RecoveryPc, CleanState, AtBase, Landed
<1>2. IInv /\ [Next]_vars => IInv'
  BY TypeOKStep, JournalStep, TargetsStep, CauseStep DEF IInv
<1>. QED BY <1>1, <1>2, PTL DEF Spec

\* Every variable keeps its type (the run, its journal and the recovery pass).
THEOREM TypeCorrect == Spec => []TypeOK
<1>1. IInv => TypeOK  BY DEF IInv
<1>. QED BY <1>1, Invariance, PTL

\* No byte of a transaction is on disk without a journal that recovery will act on.
THEOREM WriteAheadHolds == Spec => []WriteAhead
<1>1. IInv => WriteAhead
  <2>. SUFFICES ASSUME IInv, NEW t \in Target, owner[t] = "txn", disk[t] # "base"
                PROVE  \/ jState \in JournalState \ CleanState
                       \/ jState = "absent" /\ retired = "committed"
    BY DEF WriteAhead, JournalState, CleanState
  <2>1. ~AtBase(t)  BY DEF AtBase
  <2>. QED BY <2>1 DEF IInv, TypeOK, JournalSpeaksTrue
<1>. QED BY <1>1, Invariance, PTL

\* The catch block always finds a record the transition table lets roll back.
THEOREM CatchCanRollBackHolds == Spec => []CatchCanRollBack
<1>1. IInv => CatchCanRollBack
  BY DEF IInv, JournalAhead, CatchCanRollBack, CanTransition, Successors, JournalState
<1>. QED BY <1>1, Invariance, PTL

\* A run that has answered leaves a journal that says the same, whatever crashes follow.
THEOREM AnswersAreDurable == Spec => []AnswerIsDurable
<1>1. IInv => AnswerIsDurable  BY DEF IInv
<1>. QED BY <1>1, Invariance, PTL

\* A user is asked to decide only after an outside write, a failed operation or a crash
\* that left a landed write without its durable receipt, however late the question comes.
THEOREM ManualDecisionsHaveCause == Spec => []ManualHasCause
<1>1. IInv => ManualHasCause  BY DEF IInv, CauseIsKept, Cause, ManualHasCause
<1>. QED BY <1>1, Invariance, PTL

\* What a step may do to the files: nothing, the pending write of the code, or an
\* outside write.
LEMMA FilesStep ==
  ASSUME TypeOK, Next
  PROVE  \/ UNCHANGED <<disk, owner>>
         \/ pc = "write" /\ pc' \in RunPc /\ Lands(i, "after")
         \/ pc = "restoreWrite" /\ pc' \in RunPc /\ Lands(i, "base")
         \/ pc = "restoreTarget" /\ pc' \in RecoveryPc /\ UNCHANGED journal /\ Lands(i, "base")
         \/ Outside
<1>1. CASE WriteLands \/ CompensateWrite \/ RestoreTarget
  BY <1>1 DEF WriteLands, CompensateWrite, RestoreTarget, Goto, RunPc, RecoveryPc
<1>2. CASE RunStep /\ ~(WriteLands \/ CompensateWrite)
  BY <1>2 DEF RunStep, Capture, PersistCreated, Gate, Recheck, PersistAborted,
     PersistApplying, Check, WriteFails, Verify, PersistReceipt, PersistApplied,
     Postconditions, RegisterUndo, PersistUndoRegistered, PersistCommitted, Catch,
     CheckOwnership, ValidateAttempted, CompensateCheck, CompensateVerify,
     CompensatePostconditions, PersistRolledBack, PersistManual, ReadFails, caller,
     history
<1>3. CASE RecoveryStep /\ ~RestoreTarget
  BY <1>3 DEF RecoveryStep, Load, Discard, Observe, Judge, PersistRollingBack, Reread,
     ConfirmTarget, FinalCheck, PersistFinish, Remove, PersistGiveUp,
     RestoreReadFails, history
<1>4. CASE Undo \/ Crash \/ Restart  BY <1>4 DEF Undo, StartUndo, Crash, Restart, history
<1>. QED BY <1>1, <1>2, <1>3, <1>4 DEF Next, RunnerStep

\* A write of the code replaces only the image the code expects, or bytes that
\* arrived after it last looked.
THEOREM NoForeignOverwriteHolds == Spec => NoForeignOverwrite
<1>1. IInv /\ [Next]_vars => [ReplacesExpected]_vars
  BY FilesStep DEF IInv, TypeOK, Image, LookedAt, ReplacesExpected, Lands, Outside, OutsideWrite
<1>. QED BY <1>1, Invariance, PTL DEF NoForeignOverwrite, Spec

\* Startup recovery restores only targets with a durable receipt.
THEOREM RestoresOnlyReceiptedHolds == Spec => RestoresOnlyReceipted
<1>1. IInv /\ [Next]_vars => [RestoresReceipt]_vars
  BY FilesStep DEF IInv, TypeOK, Receipts, RestoresReceipt, RecoveryPc, Lands, Outside, OutsideWrite
<1>. QED BY <1>1, Invariance, PTL DEF RestoresOnlyReceipted, Spec

------------------------------------------------------------------------------
\* A verdict is a promise about every target at once.
Promise ==
  /\ Verdict \in {"open", "committed", "reverted", "manual"}
  /\ Verdict = "committed" => \A t \in Target : Landed(t)
  /\ Verdict = "reverted"  => \A t \in Target : AtBase(t)

\* The verdict the code, or the journal, gives is kept by the files.
LEMMA VerdictMeans == IInv => Promise
BY DEF Promise, IInv, Verdict, RunVerdict, DurableVerdict, JournalSpeaksTrue, AnswerIsDurable, CleanState,
   Landed, AtBase

\* A run and a recovery reach a verdict once; only an undo takes it back.
LEMMA VerdictStep ==
  ASSUME IInv, Next
  PROVE  \/ Verdict' = Verdict
         \/ Verdict = "open"
         \/ Verdict \in {"committed", "manual"} /\ Verdict' = "open"
<1>. USE DEF IInv, TypeOK, Verdict, RunVerdict, DurableVerdict
<1>1. CASE RunnerStep
  <2>1. pc \in RunPc
    BY <1>1 DEF RunnerStep, RunStep, Capture, PersistCreated, Gate, Recheck, PersistAborted,
       PersistApplying, Check, WriteLands, WriteFails, Verify, PersistReceipt, PersistApplied,
       Postconditions, RegisterUndo, PersistUndoRegistered, PersistCommitted, Catch,
       CheckOwnership, ValidateAttempted, CompensateCheck, CompensateWrite, CompensateVerify,
       CompensatePostconditions, PersistRolledBack, PersistManual, ReadFails, TryReads,
       OtherReads, RunPc
  <2>. QED BY <2>1 DEF RunPc
<1>2. CASE Undo
  BY <1>2 DEF Undo, StartUndo, Undoable, Goto, Throw, Result, RunPc
<1>3. CASE Outside
  BY <1>3 DEF Outside, OutsideWrite, journal, memory, caller
<1>4. CASE Crash
  BY <1>4 DEF Crash, Goto, AnswerIsDurable, Result, RunPc, CleanState, journal
<1>5. CASE Restart
  BY <1>5 DEF Restart, Goto, RunPc, journal
<1>6. CASE RecoveryStep
  <2>. USE DEF RunPc, JournalAhead, Receipts, RecoveryPc, Goto, Report, Holds, Differs, Persisted, PersistFails,
            journal, memory, caller, history, recVars, CleanState, Compensating, Restoring
  <2>1. CASE Load  BY <1>6, <2>1 DEF Load
  <2>2. CASE Discard  BY <1>6, <2>2 DEF Discard, Delete, Unlinked
  <2>3. CASE Observe  BY LoopGoes, <1>6, <2>3 DEF Observe
  <2>4. CASE Judge  BY <1>6, <2>4 DEF Judge
  <2>5. CASE PersistRollingBack  BY <1>6, <2>5 DEF PersistRollingBack
  <2>6. CASE Reread  BY LoopGoes, <1>6, <2>6 DEF Reread
  <2>7. CASE RestoreTarget  BY <1>6, <2>7 DEF RestoreTarget
  <2>8. CASE ConfirmTarget  BY LoopGoes, <1>6, <2>8 DEF ConfirmTarget
  <2>9. CASE FinalCheck  BY LoopGoes, <1>6, <2>9 DEF FinalCheck
  <2>10. CASE PersistFinish  BY <1>6, <2>10 DEF PersistFinish
  <2>11. CASE Remove  BY <1>6, <2>11 DEF Remove, Delete, Unlinked
  <2>12. CASE PersistGiveUp  BY <1>6, <2>12 DEF PersistGiveUp
  <2>13. CASE RestoreReadFails  BY <1>6, <2>13 DEF RestoreReadFails
  <2>. QED BY <1>6, <2>1, <2>2, <2>3, <2>4, <2>5, <2>6, <2>7, <2>8, <2>9, <2>10, <2>11, <2>12,
              <2>13 DEF RecoveryStep
<1>. QED BY <1>1, <1>2, <1>3, <1>4, <1>5, <1>6 DEF Next

\* A step moves bytes only while nothing is promised, unless somebody else moves them.
LEMMA ImageStep ==
  ASSUME IInv, Next
  PROVE  \/ UNCHANGED TargetImage
         \/ /\ Verdict = "open" /\ Verdict' = "open"
            /\ \E t \in Target, v \in {"base", "after"} : TargetImage' = [TargetImage EXCEPT ![t] = v]
         \/ /\ \E t \in Target : TargetImage' = [TargetImage EXCEPT ![t] = "outside"]
            /\ UNCHANGED Verdict
<1>. USE DEF IInv, TypeOK
<1>1. CASE UNCHANGED <<disk, owner>>
  BY <1>1 DEF TargetImage
<1>2. ASSUME NEW v \in {"base", "after"}, Lands(i, v)
      PROVE  TargetImage' = [TargetImage EXCEPT ![i] = v]
  BY <1>2 DEF TargetImage, Lands
<1>3. CASE \/ pc = "write" /\ pc' \in RunPc /\ Lands(i, "after")
           \/ pc = "restoreWrite" /\ pc' \in RunPc /\ Lands(i, "base")
  <2>1. Verdict = "open" /\ Verdict' = "open"
    BY <1>3 DEF Verdict, RunVerdict, RunPc
  <2>2. \E v \in {"base", "after"} : Lands(i, v)
    BY <1>3
  <2>. QED BY <1>2, <2>1, <2>2
<1>4. CASE pc = "restoreTarget" /\ pc' \in RecoveryPc /\ UNCHANGED journal /\ Lands(i, "base")
  <2>1. Verdict = "open" /\ Verdict' = "open"
    BY <1>4 DEF Verdict, DurableVerdict, RunPc, RecoveryPc, JournalAhead, Compensating, Restoring,
       CleanState, journal
  <2>. QED BY <1>2, <1>4, <2>1
<1>5. CASE Outside
  <2>1. PICK t \in Target : owner' = [owner EXCEPT ![t] = "outside"]
                            /\ \E v \in Image : disk' = [disk EXCEPT ![t] = v]
    BY <1>5 DEF Outside, OutsideWrite
  <2>2. TargetImage' = [TargetImage EXCEPT ![t] = "outside"]
    BY <2>1 DEF TargetImage
  <2>3. UNCHANGED Verdict
    BY <1>5 DEF Outside, OutsideWrite, Verdict, RunVerdict, DurableVerdict, journal, caller
  <2>. QED BY <2>2, <2>3
<1>. QED BY <1>1, <1>3, <1>4, <1>5, FilesStep

\* The transaction implements the all-or-nothing update its callers rely on.
THEOREM Refinement == Spec => ImplementsAtomicUpdate
<1>1. Init => Abstract!Init
  BY DEF Init, RunInit, Abstract!Init, TargetImage, Verdict, RunVerdict, RunPc
<1>2. IInv /\ Promise /\ Promise' /\ [Next]_vars => [Abstract!Next]_<<TargetImage, Verdict>>
  <2>. SUFFICES ASSUME IInv, Promise, Promise', [Next]_vars
                PROVE  [Abstract!Next]_<<TargetImage, Verdict>>
    OBVIOUS
  <2>1. CASE UNCHANGED vars
    BY <2>1 DEF vars, runVars, journal, caller, history, TargetImage, Verdict, RunVerdict,
       DurableVerdict
  <2>2. CASE Next /\ UNCHANGED TargetImage
    <3>1. Verdict' = "committed" => Abstract!Whole("after")
      BY <2>2 DEF Promise, Landed, TargetImage, Abstract!Whole
    <3>2. Verdict' = "reverted" => Abstract!Whole("base")
      BY <2>2 DEF Promise, AtBase, TargetImage, Abstract!Whole
    <3>. QED
      BY <2>2, <3>1, <3>2, VerdictStep
         DEF Promise, Abstract!Next, Abstract!Commit, Abstract!Revert, Abstract!GiveUp, Abstract!Reopen
  <2>3. CASE Next /\ ~UNCHANGED TargetImage
    BY <2>3, ImageStep DEF Abstract!Next, Abstract!Work, Abstract!Outside
  <2>. QED BY <2>1, <2>2, <2>3
<1>. QED BY <1>1, <1>2, VerdictMeans, Invariance, PTL DEF Spec, ImplementsAtomicUpdate, Abstract!Spec
==============================================================================
