--------------------------- MODULE RollbackFreeze ---------------------------
(***************************************************************************)
(* Preparing a rollback to an earlier version of the product: admission of *)
(* operations is frozen, those that run are awaited, the durable state is  *)
(* inspected, the workers are stopped, and only then is the user told that *)
(* the extension host may be restarted on the other version.               *)
(*                                                                         *)
(* Undo, Redo and Revert cannot be refused: they run in spite of a freeze  *)
(* and cancel it. Every notice that leaves the host frozen offers Resume.  *)
(***************************************************************************)
EXTENDS Integers

CONSTANTS
  Edits,           \* operations that a freeze refuses, openings and saves included
  Steps,           \* Undo, Redo and Revert
  Workers,         \* engine processes
  MaxGenerations   \* bound: preparations and cancellations

Operations == Edits \cup Steps

VARIABLES
  admissionFrozen,
  inFlight,          \* inFlightOperations
  durable,           \* what an operation has left in the ledger and the journals
  worker,            \* the engine processes that run
  autoSave,          \* unsaved files that auto-save would write
  epoch,             \* invalidationEpoch
  generation,        \* rollbackGeneration
  prep,              \* the running preparation: its stage and what it noted
  offers,            \* generations whose notice offers Resume
  answered,          \* those whose notice the user has answered or closed
  certified          \* a ready answer that stands, with what the user accepted

adminVars == <<epoch, generation, offers, certified>>
vars == <<admissionFrozen, inFlight, durable, worker, autoSave, prep, answered, adminVars>>

Nothing == [stands |-> FALSE, acknowledged |-> {}]
Idle == [stage |-> "idle", owns |-> FALSE, epoch |-> 0, acknowledged |-> {}]

Init ==
  /\ admissionFrozen = FALSE /\ inFlight = {}
  /\ durable \in [Operations -> {"closed", "open", "unresolved", "journal"}]
  /\ worker \in SUBSET Workers /\ autoSave \in BOOLEAN
  /\ epoch = 0 /\ generation = 0 /\ prep = Idle /\ certified = Nothing
  /\ offers = {} /\ answered = {}

-----------------------------------------------------------------------------
(* Operations (mutationOperation.ts).                                      *)

Start(o) ==
  /\ o \notin inFlight /\ inFlight' = inFlight \cup {o}
  /\ UNCHANGED <<worker, autoSave, prep, answered>>

(* run opens a record in the ledger; trackHostMutation and                 *)
(* beginHostMutation have none: an opening, a save, a companion's replay.  *)
Admit(o) ==
  /\ ~admissionFrozen /\ Start(o)
  /\ \E d \in {durable[o], "open"} : durable' = [durable EXCEPT ![o] = d]
  /\ UNCHANGED <<admissionFrozen, adminVars>>

(* trackUnrefusableHostMutation, with the listener of the rollback command. *)
Step(o) ==
  /\ Start(o) /\ UNCHANGED durable
  /\ \/ ~admissionFrozen /\ UNCHANGED <<admissionFrozen, adminVars>>
     \/ /\ admissionFrozen /\ generation < MaxGenerations
        /\ admissionFrozen' = FALSE /\ certified' = Nothing
        /\ epoch' = epoch + 1 /\ generation' = generation + 1
        /\ UNCHANGED offers

(* An operation settles: its records are decided, need a human decision, are *)
(* left as they were, or leave a journal that recovery has to finish.        *)
Settle(o) ==
  /\ o \in inFlight /\ inFlight' = inFlight \ {o}
  /\ \E d \in {"closed", "open", "unresolved", "journal"} : durable' = [durable EXCEPT ![o] = d]
  /\ UNCHANGED <<admissionFrozen, worker, autoSave, prep, answered, adminVars>>

(* getEngine spawns a process; a process exits by itself. *)
StartWorker(w) ==
  /\ ~admissionFrozen /\ w \notin worker /\ worker' = worker \cup {w}
  /\ UNCHANGED <<admissionFrozen, inFlight, durable, autoSave, prep, answered, adminVars>>

WorkerExits(w) ==
  /\ w \in worker /\ worker' = worker \ {w}
  /\ UNCHANGED <<admissionFrozen, inFlight, durable, autoSave, prep, answered, adminVars>>

FilesChange ==
  /\ autoSave' = ~autoSave
  /\ UNCHANGED <<admissionFrozen, inFlight, durable, worker, prep, answered, adminVars>>

-----------------------------------------------------------------------------
(* prepareRollback, with the command around it.                            *)

(* A second command while one runs changes nothing. A preparation that     *)
(* finds the host frozen does not own the freeze.                          *)
Prepare ==
  /\ prep.stage = "idle" /\ generation < MaxGenerations
  /\ generation' = generation + 1 /\ admissionFrozen' = TRUE
  /\ prep' = [stage |-> "settling", owns |-> ~admissionFrozen, epoch |-> epoch,
              acknowledged |-> {}]
  /\ UNCHANGED <<inFlight, durable, worker, autoSave, epoch, offers, answered, certified>>

RefuseAndThaw ==
  /\ admissionFrozen' = FALSE
  /\ prep' = Idle /\ UNCHANGED <<epoch, generation, certified, offers>>

RefuseSilently ==
  /\ admissionFrozen' = (admissionFrozen /\ ~prep.owns)
  /\ prep' = Idle /\ UNCHANGED <<epoch, generation, certified, offers>>

(* The notice of a refusal offers Resume when the host is still frozen. *)
Refuse ==
  /\ admissionFrozen' = (admissionFrozen /\ ~prep.owns)
  /\ prep' = Idle
  /\ offers' = IF admissionFrozen' THEN offers \cup {generation} ELSE offers
  /\ UNCHANGED <<epoch, generation, certified>>

Proceed(stage, acknowledged) ==
  /\ prep' = [prep EXCEPT !.stage = stage, !.acknowledged = acknowledged]
  /\ UNCHANGED <<admissionFrozen, adminVars>>

(* A step of the preparation that goes on or refuses. *)
Blocked(blockers, stage, acknowledged) ==
  /\ IF blockers THEN Refuse ELSE Proceed(stage, acknowledged)
  /\ UNCHANGED <<inFlight, durable, worker, autoSave, answered>>

Left(d) == {o \in Operations : durable[o] = d}

NeverTimesOut == FALSE /\ UNCHANGED vars

SettleTimesOut ==
  /\ prep.stage = "settling" /\ inFlight # {} /\ Blocked(TRUE, "", {})

SettledUnchecked ==
  /\ prep.stage = "settling"
  /\ Blocked(autoSave \/ Left("open") # {}, "inspecting", Left("unresolved"))

(* Nothing is in flight: the check of auto-save and the records of the     *)
(* ledger, in one turn. A journal is read in a later one.                  *)
Settled ==
  /\ prep.stage = "settling" /\ inFlight = {}
  /\ Blocked(autoSave \/ Left("open") # {}, "inspecting", Left("unresolved"))

Inspected ==
  /\ prep.stage = "inspecting"
  /\ Blocked(Left("journal") # {},
             IF prep.acknowledged = {} THEN "stopping" ELSE "confirming", prep.acknowledged)

(* Whatever throws is a refusal too: a directory that cannot be read, a stop. *)
Throws == prep.stage # "idle" /\ Blocked(TRUE, "", {})

Confirm ==
  /\ prep.stage = "confirming"
  /\ \E accepted \in BOOLEAN : Blocked(~accepted, "stopping", prep.acknowledged)

(* stopEnginesConfirmed, to its end: a process may survive. *)
Stop ==
  /\ prep.stage = "stopping"
  /\ \E survivors \in SUBSET worker : worker' = survivors
  /\ Proceed("stopped", prep.acknowledged)
  /\ UNCHANGED <<inFlight, durable, autoSave, answered>>

(* The count of the survivors, the second check of auto-save and the check *)
(* of the epoch, in the turn in which the stop returns.                    *)
Refused == worker # {} \/ autoSave \/ epoch # prep.epoch

Ready ==
  /\ certified' = [stands |-> TRUE, acknowledged |-> prep.acknowledged]
  /\ offers' = offers \cup {generation} /\ prep' = Idle
  /\ UNCHANGED <<admissionFrozen, epoch, generation>>

Answer ==
  /\ prep.stage = "stopped" /\ (IF Refused THEN Refuse ELSE Ready)
  /\ UNCHANGED <<inFlight, durable, worker, autoSave, answered>>

(* The action of a notice lifts the freeze only of the newest preparation. *)
Current(g) == g = generation

Resume(g) ==
  /\ g \in offers \ answered /\ answered' = answered \cup {g}
  /\ \/ Current(g) /\ admissionFrozen' = FALSE /\ certified' = Nothing
     \/ UNCHANGED <<admissionFrozen, certified>>   \* an older notice, or closed
  /\ UNCHANGED <<inFlight, durable, worker, autoSave, prep, epoch, generation, offers>>

Next ==
  \/ \E o \in Edits : Admit(o)
  \/ \E o \in Steps : Step(o)
  \/ \E o \in Operations : Settle(o)
  \/ \E w \in Workers : StartWorker(w) \/ WorkerExits(w)
  \/ FilesChange
  \/ Prepare \/ SettleTimesOut \/ Settled \/ Inspected \/ Confirm \/ Stop \/ Answer
  \/ Throws
  \/ \E g \in offers : Resume(g)

(* The wait for the operations and the stop of the workers are bounded by  *)
(* timers, the rest answers by itself, and the user answers the question.  *)
Fairness == WF_vars(SettleTimesOut \/ Settled \/ Inspected \/ Confirm \/ Stop \/ Answer)

Spec == Init /\ [][Next]_vars /\ Fairness

-----------------------------------------------------------------------------
TypeOK ==
  /\ admissionFrozen \in BOOLEAN /\ inFlight \subseteq Operations
  /\ durable \in [Operations -> {"closed", "open", "unresolved", "journal"}]
  /\ worker \subseteq Workers /\ autoSave \in BOOLEAN
  /\ epoch \in Nat /\ generation \in Nat /\ offers \subseteq 0..generation /\ answered \subseteq offers
  /\ prep \in [stage : {"idle", "settling", "inspecting", "confirming", "stopping", "stopped"},
               owns : BOOLEAN, epoch : Nat, acknowledged : SUBSET Operations]
  /\ certified \in [stands : BOOLEAN, acknowledged : SUBSET Operations]

(* While a ready answer stands nothing the switch would tear apart goes on *)
(* or is left over: admission is frozen, no operation and no worker runs,  *)
(* every record and journal is decided or was accepted by the user. It     *)
(* stands until Undo, Redo, Revert or the newest Resume says otherwise     *)
(* (rollbackPreparation.ts:6-13, 128-153).                                 *)
ReadyMeansQuiet ==
  certified.stands =>
    /\ admissionFrozen /\ inFlight = {} /\ worker = {}
    /\ Left("open") = {} /\ Left("journal") = {}
    /\ Left("unresolved") \subseteq certified.acknowledged

(* A refused preparation that nothing invalidated leaves the admission as  *)
(* it found it: its own freeze is lifted, one that an earlier preparation  *)
(* relies on is not (rollbackPreparation.ts:113-126, extension.ts:2480).   *)
RefusalRestoresAdmission ==
  [][prep.stage # "idle" /\ prep'.stage = "idle" /\ certified' = certified /\ epoch = prep.epoch
       => admissionFrozen' = ~prep.owns]_vars

(* A host that is left frozen was offered the way back: the notice of the  *)
(* newest generation, the one whose Resume has an effect, carries it       *)
(* (extension.ts:2460-2483, 2508-2518).                                    *)
FreezeHasAWayBack == admissionFrozen /\ prep.stage = "idle" => generation \in offers

(* A preparation answers, whatever the operations and the workers do       *)
(* (rollbackPreparation.ts:52, 128-159).                                   *)
PreparationAnswers == prep.stage # "idle" ~> prep.stage = "idle"
=============================================================================
