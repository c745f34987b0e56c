------------------------- MODULE TransactionInvariant -------------------------
(***************************************************************************)
(* The inductive invariant of TransactionRecovery: what each await of the  *)
(* run and of the recovery may rely on.                                    *)
(***************************************************************************)
EXTENDS TransactionRecovery

BeforeWrites == {"capture", "created", "prepared", "gate", "recheck", "aborted", "applying"}
InTry        == {"check", "write", "verify", "receipt", "applied", "post", "register",
                 "undoRegistered", "committed"}
Compensating == {"owned", "validate", "restore", "restoreWrite", "restoreVerify",
                 "postBase", "rolledBack", "manual"}
Restoring    == {"reread", "restoreTarget", "confirmTarget", "final", "finish"}

\* Journal states that recovery discards as having nothing to undo.
CleanState == {"created", "prepared", "aborted", "rolledBack"}

\* A target the transaction never wrote is at its baseline unless somebody else moved it.
Unowned == \A t \in Target : owner[t] = "none" => disk[t] = "base"

\* Before the journal says applying, the transaction has written nothing.
NothingYet ==
  pc \in BeforeWrites =>
    /\ \A t \in Target : owner[t] # "txn"
    /\ attempted = {} /\ applied = {} /\ uncertain = 0 /\ ~registered
    /\ jState \in {"absent", "created", "prepared"} /\ retired = "none"

\* Where the durable journal and the in-memory record are, await by await.
JournalAhead ==
  /\ pc \in {"check", "write", "verify", "receipt", "applied"} =>
       jState \in {"applying", "applied"} /\ state = "applying"
  /\ pc \in {"post", "register", "undoRegistered"} =>
       jState \in {"applied", "undoRegistered"} /\ state = "applied"
  /\ pc = "committed" => jState \in {"undoRegistered", "committed"} /\ state = "undoRegistered"
  /\ pc = "catch" =>
       /\ state \in {"applying", "applied", "undoRegistered"}
       /\ jState \in {"applying", "applied", "undoRegistered", "committed"}
  /\ pc \in Compensating \cup Restoring => jState = "rollingBack"
  /\ pc \in {"discard", "observe", "judge", "resume", "remove"} => jState = state
  /\ pc = "giveUp" => jState \in {"applying", "applied", "undoRegistered", "rollingBack"}
  /\ pc = "discard" => jState \in CleanState \cup {"committed"}
  /\ pc \in {"observe", "judge", "resume"} =>
       jState \in {"applying", "applied", "undoRegistered", "rollingBack"}
  /\ pc = "remove" => jState = "rolledBack"

\* The receipts in memory and on disk name only targets a write landed on.
Receipts ==
  /\ jApplied \subseteq wrote
  /\ applied \subseteq wrote
  /\ pc \in {"verify", "receipt"} => i \in wrote
  /\ pc \in RecoveryPc \ {"load"} => applied = jApplied
  /\ pc = "restoreTarget" => i \in applied

\* The forward loop leaves the after image behind it and has not touched what is
\* ahead of it; the compensating loops leave the baseline behind them.
LoopProgress ==
  /\ pc \in InTry \cup {"catch"} \cup Compensating => \A t \in Target \ attempted : AtBase(t)
  /\ pc \in {"verify", "receipt"} => i \in attempted
  /\ pc \in {"check", "write", "verify", "receipt"} => \A t \in Target : t < i => Landed(t)
  /\ pc = "receipt" => Landed(i)
  /\ pc \in {"applied", "post", "register", "undoRegistered", "committed"} =>
       \A t \in Target : Landed(t)
  /\ pc \in {"restore", "restoreWrite", "restoreVerify", "reread", "restoreTarget", "confirmTarget"} =>
       \A t \in Target : t > i => AtBase(t)
  /\ pc \in {"restoreVerify", "confirmTarget"} => AtBase(i)
  /\ pc \in {"postBase", "rolledBack", "final", "finish"} => \A t \in Target : AtBase(t)

\* What the durable journal says of the files, whoever reads it and whenever.
JournalSpeaksTrue ==
  /\ jState \in CleanState \/ (jState = "absent" /\ retired # "committed") =>
       \A t \in Target : AtBase(t)
  /\ jState = "committed" \/ (jState = "absent" /\ retired = "committed") =>
       \A t \in Target : Landed(t)

\* A write that is about to start replaces the image the code has just looked at.
LookedAt ==
  /\ pc = "write" => i \in fresh \/ disk[i] = "base"
  /\ pc \in {"restoreWrite", "restoreTarget"} => i \in fresh \/ disk[i] = "after"

\* An undo is offered only for a run that stands.
Undoable == registered => result \notin {"aborted", "rolledBack"}

\* While nobody else wrote and nothing failed, the files hold what the transaction left in
\* them, and the receipts of the run are complete but for the write it looks at.
Undisturbed ==
  ~disturbed =>
    /\ fresh = {} /\ uncertain = 0 /\ pc # "owned"
    /\ pc = "verify" => disk[i] = "after"
    /\ \A t \in Target :
         owner[t] # "outside" /\ disk[t] # "other" /\ (disk[t] = "after" => t \in wrote)
    /\ pc \in RunPc \cup {"settled"} =>
         /\ applied = jApplied
         /\ wrote \ jApplied \subseteq (IF pc \in {"verify", "receipt"} THEN {i} ELSE {})

\* Where a manual decision is on its way, its reason is there and stays.
Cause == disturbed \/ ~(wrote \subseteq jApplied)
CauseIsKept ==
  /\ pc \in {"down", "load"} => ~conflict
  /\ pc \in RunPc => result = "running"
  /\ \/ pc \in {"manual", "giveUp"}
     \/ pc \in {"observe", "judge"} /\ conflict
     \/ "recoveryRequired" \in {jState, result}
     => Cause

IInv ==
  /\ TypeOK
  /\ Unowned
  /\ NothingYet
  /\ JournalAhead
  /\ Receipts
  /\ LoopProgress
  /\ JournalSpeaksTrue
  /\ LookedAt
  /\ AnswerIsDurable
  /\ Undoable
  /\ Undisturbed
  /\ CauseIsKept
=============================================================================
