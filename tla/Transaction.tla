----------------------------- MODULE Transaction -----------------------------
(***************************************************************************)
(* runPatchSetTransaction (extension/src/transactionRunner.ts): one run of *)
(* a multi-file write, with the rollback a failure starts and the undo its *)
(* caller may ask for later.                                               *)
(*                                                                         *)
(* An await of the code ends a step here, so between any two steps another *)
(* process may replace a target (OutsideWrite) and the extension host may  *)
(* die (Crash, in TransactionRecovery).  A target holds one of three       *)
(* images: "base", the bytes the run captured; "after", the bytes it wants *)
(* to write; "other", anything else.                                       *)
(***************************************************************************)
EXTENDS Journal

CONSTANT N          \* number of targets of the patch set

ASSUME NAssumption == N \in Nat \ {0}

Target == 1 .. N
Image  == {"base", "after", "other"}

VARIABLES
  disk,             \* the image each target holds
  jState, jApplied, \* the durable journal: its state ("absent": no file) and appliedTargets
  pc,               \* the await the run, or the recovery, is at
  i,                \* the target the current loop is at
  state, applied,   \* the in-memory journal record
  attempted,        \* attemptedTargets: targets whose write was started and not refused
  uncertain,        \* uncertainWrite: the target whose write failed unacknowledged, or 0
  result,           \* what the run returned; "threw" when it rejected
  registered,       \* the caller holds an undoRegistration it has not used up
  \* History, read by the properties and by nothing else:
  owner,            \* who wrote the bytes of a target last: "none", "txn" or "outside"
  fresh,            \* targets an outside write reached since the last step of the code
  wrote,            \* targets on which a write of this run landed
  disturbed         \* an outside write or a failed operation happened

journal == <<jState, jApplied>>
memory  == <<state, applied, attempted, uncertain>>
history == <<owner, wrote, disturbed>>
caller  == <<result, registered>>
runVars == <<disk, journal, pc, i, memory, caller, history, fresh>>

------------------------------------------------------------------------------
(* Steps of the code that every phase uses. *)

\* The first target of an ascending loop, and of a descending one.
First == 1
Last  == N

Goto(label, at) == pc' = label /\ i' = at

\* Ascending and descending loops: the next target, or the label after the loop.
Up(label, done, at) ==
  \/ i < N /\ Goto(label, i + 1)
  \/ i = N /\ Goto(done, at)
Down(label, done, at) ==
  \/ i > 1 /\ Goto(label, i - 1)
  \/ i = 1 /\ Goto(done, at)

\* verifyFingerprint of target i against the image v: it holds it, or differs.
Holds(v)   == disk[i] = v
Differs(v) == disk[i] # v

\* adapters.persistJournal: the file is replaced, or the write fails before or
\* after the replacement (atomicWriteLocalFile, syncDirectory).
Persisted(s, a) == jState' = s /\ jApplied' = a /\ UNCHANGED disturbed
PersistFails(s, a) ==
  /\ disturbed' = TRUE
  /\ \/ UNCHANGED journal
     \/ jState' = s /\ jApplied' = a

\* A write of image v lands on target t.
Lands(t, v) ==
  /\ disk'  = [disk EXCEPT ![t] = v]
  /\ owner' = [owner EXCEPT ![t] = "txn"]
  /\ wrote' = wrote \cup {t}

\* The run rejects with an error nobody in it handles.
Throw == Goto("settled", First) /\ result' = "threw"

------------------------------------------------------------------------------
(* Before the first write. *)

\* Every target is read and must hold the declared before image
\* (planTargetMutation of resourceTransactionCoordinator.ts); no journal exists yet.
Capture ==
  /\ pc = "capture"
  /\ \/ Holds("base") /\ Up("capture", "created", First) /\ UNCHANGED result
     \/ Differs("base") /\ Throw
  /\ UNCHANGED <<disk, journal, memory, registered, owner, wrote, disturbed>>

\* createJournalRecord, then prepared: a failed write of either rejects.
PersistCreated ==
  /\ pc \in {"created", "prepared"}
  /\ state' = pc
  /\ \/ /\ Persisted(pc, {})
        /\ \/ pc = "created" /\ Goto("prepared", First)
           \/ pc = "prepared" /\ Goto("gate", First)
        /\ UNCHANGED result
     \/ PersistFails(pc, {}) /\ Throw
  /\ UNCHANGED <<disk, applied, attempted, uncertain, registered, owner, wrote>>

\* Cancellation before the first write.
Gate ==
  /\ pc = "gate"
  /\ \/ Goto("recheck", First)
     \/ Goto("aborted", First)
  /\ UNCHANGED <<disk, journal, memory, caller, history>>

\* Every baseline is verified again before the journal says applying.
Recheck ==
  /\ pc = "recheck"
  /\ \/ Holds("base") /\ Up("recheck", "applying", First)
     \/ Differs("base") /\ Goto("aborted", First)
  /\ UNCHANGED <<disk, journal, memory, caller, owner, wrote, disturbed>>

PersistAborted ==
  /\ pc = "aborted"
  /\ state' = "aborted"
  /\ \/ Persisted("aborted", applied) /\ Goto("settled", First) /\ result' = "aborted"
     \/ PersistFails("aborted", applied) /\ Throw
  /\ UNCHANGED <<disk, applied, attempted, uncertain, registered, owner, wrote>>

\* Mutant of PersistApplying: the failed write is swallowed.
PersistApplyingSwallows ==
  /\ pc = "applying"
  /\ state' = "applying"
  /\ Persisted("applying", applied) \/ PersistFails("applying", applied)
  /\ Goto("check", First)
  /\ UNCHANGED <<disk, applied, attempted, uncertain, caller, owner, wrote>>

\* This write is outside the try block: a failure rejects without a rollback.
PersistApplying ==
  /\ pc = "applying"
  /\ state' = "applying"
  /\ \/ Persisted("applying", applied) /\ Goto("check", First) /\ UNCHANGED result
     \/ PersistFails("applying", applied) /\ Throw
  /\ UNCHANGED <<disk, applied, attempted, uncertain, registered, owner, wrote>>

------------------------------------------------------------------------------
(* The loop over the targets. *)

\* Cancellation between writes, then the baseline of this target once more.
Check ==
  /\ pc = "check"
  /\ \/ Goto("catch", First)
     \/ Holds("base") /\ Goto("write", i)
     \/ Differs("base") /\ Goto("catch", First)
  /\ UNCHANGED <<disk, journal, memory, caller, owner, wrote, disturbed>>

\* Mutant of WriteLands: every rejected write is popped from attemptedTargets.
WriteLandsForgets ==
  /\ pc = "write"
  /\ Lands(i, "after")
  /\ \/ Goto("verify", i) /\ attempted' = attempted \cup {i} /\ UNCHANGED <<uncertain, disturbed>>
     \/ Goto("catch", First) /\ disturbed' = TRUE /\ UNCHANGED <<attempted, uncertain>>
  /\ UNCHANGED <<journal, state, applied, caller>>

\* attemptedTargets.push, then the provider's write.  It succeeds, or rejects:
\* transactionWriteNotApplied proves that nothing was replaced, transactionWriteLanded
\* that the bytes were, and an unmarked error proves neither.
WriteLands ==
  /\ pc = "write"
  /\ Lands(i, "after")
  /\ attempted' = attempted \cup {i}
  /\ \/ Goto("verify", i) /\ UNCHANGED <<uncertain, disturbed>>
     \/ Goto("catch", First) /\ uncertain' \in {0, i} /\ disturbed' = TRUE
  /\ UNCHANGED <<journal, state, applied, caller>>

WriteFails ==
  /\ pc = "write"
  /\ Goto("catch", First)
  /\ disturbed' = TRUE
  /\ \/ UNCHANGED <<attempted, uncertain>>
     \/ attempted' = attempted \cup {i} /\ uncertain' = i
  /\ UNCHANGED <<disk, journal, state, applied, caller, owner, wrote>>

Verify ==
  /\ pc = "verify"
  /\ \/ Holds("after") /\ Goto("receipt", i)
     \/ Differs("after") /\ Goto("catch", First)
  /\ UNCHANGED <<disk, journal, memory, caller, owner, wrote, disturbed>>

\* The receipt: appliedTargets grows in memory, then on disk.
PersistReceipt ==
  /\ pc = "receipt"
  /\ applied' = applied \cup {i}
  /\ \/ Persisted("applying", applied') /\ Up("check", "applied", First)
     \/ PersistFails("applying", applied') /\ Goto("catch", First)
  /\ UNCHANGED <<disk, state, attempted, uncertain, caller, owner, wrote>>

------------------------------------------------------------------------------
(* After the last write. *)

PersistApplied ==
  /\ pc = "applied"
  /\ state' = "applied"
  /\ \/ Persisted("applied", applied) /\ Goto("post", First)
     \/ PersistFails("applied", applied) /\ Goto("catch", First)
  /\ UNCHANGED <<disk, applied, attempted, uncertain, caller, owner, wrote>>

\* verifyPostconditions reads every applied target, then may refuse; cancellation.
Postconditions ==
  /\ pc = "post"
  /\ \/ Holds("after") /\ Up("post", "register", First)
     \/ Goto("catch", First)
  /\ UNCHANGED <<disk, journal, memory, caller, owner, wrote, disturbed>>

\* registerUndo asks the caller, who may refuse.
RegisterUndo ==
  /\ pc = "register"
  /\ \/ Goto("undoRegistered", First)
     \/ Goto("catch", First)
  /\ UNCHANGED <<disk, journal, memory, caller, history>>

\* The in-memory record advances only once the durable write succeeded.
PersistUndoRegistered ==
  /\ pc = "undoRegistered"
  /\ \/ Persisted("undoRegistered", applied) /\ Goto("committed", First) /\ state' = "undoRegistered"
     \/ PersistFails("undoRegistered", applied) /\ Goto("catch", First) /\ UNCHANGED state
  /\ UNCHANGED <<disk, applied, attempted, uncertain, caller, owner, wrote>>

PersistCommitted ==
  /\ pc = "committed"
  /\ \/ /\ Persisted("committed", applied)
        /\ Goto("settled", First)
        /\ state' = "committed"
        /\ result' = "committed"
        /\ registered' = TRUE
     \/ /\ PersistFails("committed", applied)
        /\ Goto("catch", First)
        /\ UNCHANGED <<state, caller>>
  /\ UNCHANGED <<disk, applied, attempted, uncertain, owner, wrote>>

------------------------------------------------------------------------------
(* The catch block, compensateTargets and undo(). *)

\* transitionJournal(record, 'rollingBack') throws when the table forbids it.
Catch ==
  /\ pc = "catch"
  /\ \/ /\ CanTransition(state, "rollingBack")
        /\ state' = "rollingBack"
        /\ \/ /\ Persisted("rollingBack", applied)
              /\ \/ uncertain = 0 /\ Goto("validate", Last)
                 \/ uncertain # 0 /\ Goto("owned", uncertain)
              /\ UNCHANGED result
           \/ PersistFails("rollingBack", applied) /\ Throw
     \/ /\ ~CanTransition(state, "rollingBack")
        /\ Throw
        /\ UNCHANGED <<state, journal, disturbed>>
  /\ UNCHANGED <<disk, applied, attempted, uncertain, registered, owner, wrote>>

\* An unacknowledged write that is not at its baseline has no known owner.
CheckOwnership ==
  /\ pc = "owned"
  /\ \/ Holds("base") /\ Goto("validate", Last)
     \/ Differs("base") /\ Goto("manual", First)
  /\ UNCHANGED <<disk, journal, memory, caller, owner, wrote, disturbed>>

\* compensateTargets, first loop: the whole set is validated before any restore.
ValidateAttempted ==
  /\ pc = "validate"
  /\ \/ i \notin attempted /\ Down("validate", "restore", Last)
     \/ i \in attempted /\ Differs("other") /\ Down("validate", "restore", Last)
     \/ i \in attempted /\ Holds("other") /\ Goto("manual", First)
  /\ UNCHANGED <<disk, journal, memory, caller, owner, wrote, disturbed>>

\* Mutant of CompensateCheck: the re-read does not refuse a foreign image.
CompensateCheckTrusts ==
  /\ pc = "restore"
  /\ \/ i \notin attempted /\ Down("restore", "postBase", First)
     \/ i \in attempted /\ Holds("base") /\ Down("restore", "postBase", First)
     \/ i \in attempted /\ Differs("base") /\ Goto("restoreWrite", i)
  /\ UNCHANGED <<disk, journal, memory, caller, owner, wrote, disturbed>>

\* compensateTargets, second loop: the target is read again before its restore.
CompensateCheck ==
  /\ pc = "restore"
  /\ \/ i \notin attempted /\ Down("restore", "postBase", First)
     \/ i \in attempted /\ Holds("base") /\ Down("restore", "postBase", First)
     \/ i \in attempted /\ Holds("after") /\ Goto("restoreWrite", i)
     \/ i \in attempted /\ Holds("other") /\ Goto("manual", First)
  /\ UNCHANGED <<disk, journal, memory, caller, owner, wrote, disturbed>>

CompensateWrite ==
  /\ pc = "restoreWrite"
  /\ \/ Lands(i, "base") /\ Goto("restoreVerify", i) /\ UNCHANGED disturbed
     \/ /\ Goto("manual", First)
        /\ disturbed' = TRUE
        /\ Lands(i, "base") \/ UNCHANGED <<disk, owner, wrote>>
  /\ UNCHANGED <<journal, memory, caller>>

CompensateVerify ==
  /\ pc = "restoreVerify"
  /\ \/ Holds("base") /\ Down("restore", "postBase", First)
     \/ Differs("base") /\ Goto("manual", First)
  /\ UNCHANGED <<disk, journal, memory, caller, owner, wrote, disturbed>>

\* verifyPostconditions for a rollback: every compensated target at its baseline.
CompensatePostconditions ==
  /\ pc = "postBase"
  /\ \/ i \notin attempted /\ Up("postBase", "rolledBack", First)
     \/ i \in attempted /\ Holds("base") /\ Up("postBase", "rolledBack", First)
     \/ i \in attempted /\ Differs("base") /\ Goto("manual", First)
  /\ UNCHANGED <<disk, journal, memory, caller, owner, wrote, disturbed>>

PersistRolledBack ==
  /\ pc = "rolledBack"
  /\ state' = "rolledBack"
  /\ \/ /\ Persisted("rolledBack", applied)
        /\ Goto("settled", First)
        /\ result' = "rolledBack"
        /\ registered' = FALSE
     \/ PersistFails("rolledBack", applied) /\ Throw /\ UNCHANGED registered
  /\ UNCHANGED <<disk, applied, attempted, uncertain, owner, wrote>>

\* Mutants of PersistManual: the answer is given although the write failed; the write
\* is retried for ever.
PersistManualAnyway ==
  /\ pc = "manual"
  /\ state' = "recoveryRequired"
  /\ Persisted("recoveryRequired", applied) \/ PersistFails("recoveryRequired", applied)
  /\ Goto("settled", First)
  /\ result' = "recoveryRequired"
  /\ UNCHANGED <<disk, applied, attempted, uncertain, registered, owner, wrote>>

PersistManualRetries ==
  /\ pc = "manual"
  /\ state' = "recoveryRequired"
  /\ \/ Persisted("recoveryRequired", applied) /\ Goto("settled", First) /\ result' = "recoveryRequired"
     \/ PersistFails("recoveryRequired", applied) /\ UNCHANGED <<pc, i, result>>
  /\ UNCHANGED <<disk, applied, attempted, uncertain, registered, owner, wrote>>

PersistManual ==
  /\ pc = "manual"
  /\ state' = "recoveryRequired"
  /\ \/ Persisted("recoveryRequired", applied) /\ Goto("settled", First) /\ result' = "recoveryRequired"
     \/ PersistFails("recoveryRequired", applied) /\ Throw
  /\ UNCHANGED <<disk, applied, attempted, uncertain, registered, owner, wrote>>

\* undoRegistration.undo(), which its holder may call again after an attempt that
\* failed: withState(record, 'rollingBack'), then the same compensation over
\* every target.  registered turns FALSE once an undo has succeeded.
StartUndo ==
  /\ pc = "settled"
  /\ registered
  /\ state' = "rollingBack"
  /\ attempted' = Target
  /\ \/ Persisted("rollingBack", applied) /\ Goto("validate", Last) /\ result' = "running"
     \/ PersistFails("rollingBack", applied) /\ Throw
  /\ UNCHANGED <<disk, applied, uncertain, registered, owner, wrote>>

\* A read of a target rejects.  Inside the try block that starts a rollback;
\* before it, and in the compensation, it escapes.
TryReads   == {"check", "verify", "post"}
OtherReads == {"capture", "recheck", "owned", "validate", "restore", "restoreVerify", "postBase"}

ReadFails ==
  /\ \/ pc \in TryReads /\ Goto("catch", First) /\ UNCHANGED result
     \/ pc \in OtherReads /\ Throw
  /\ disturbed' = TRUE
  /\ UNCHANGED <<disk, journal, memory, registered, owner, wrote>>

------------------------------------------------------------------------------
\* Another process, editor or tool replaces a target.
OutsideWrite ==
  \E t \in Target, v \in Image :
    /\ v # disk[t]
    /\ disk'  = [disk EXCEPT ![t] = v]
    /\ owner' = [owner EXCEPT ![t] = "outside"]
    /\ fresh' = fresh \cup {t}
    /\ disturbed' = TRUE
    /\ UNCHANGED <<journal, pc, i, memory, caller, wrote>>

RunInit ==
  /\ disk = [t \in Target |-> "base"]
  /\ jState = "absent" /\ jApplied = {}
  /\ pc = "capture" /\ i = First
  /\ state = "created" /\ applied = {} /\ attempted = {} /\ uncertain = 0
  /\ result = "running" /\ registered = FALSE
  /\ owner = [t \in Target |-> "none"]
  /\ fresh = {}
  /\ wrote = {} /\ disturbed = FALSE

\* A step of a run in progress, or of an undo.
RunStep ==
  \/ Capture \/ PersistCreated \/ Gate \/ Recheck \/ PersistAborted \/ PersistApplying
  \/ Check \/ WriteLands \/ WriteFails \/ Verify \/ PersistReceipt
  \/ PersistApplied \/ Postconditions \/ RegisterUndo \/ PersistUndoRegistered \/ PersistCommitted
  \/ Catch \/ CheckOwnership \/ ValidateAttempted \/ CompensateCheck \/ CompensateWrite
  \/ CompensateVerify \/ CompensatePostconditions \/ PersistRolledBack \/ PersistManual
  \/ ReadFails
=============================================================================
