------------------------ MODULE RollbackFreezeProofs ------------------------
(***************************************************************************)
(* What a prepared rollback may rely on, for every number of operations,   *)
(* workers and preparations. The argument follows the stages: while the    *)
(* epoch is the one the preparation noted, admission has stayed frozen, so *)
(* what a stage has found about the operations, the ledger and the         *)
(* journals is still true in the next ones; a ready answer keeps it.       *)
(***************************************************************************)
EXTENDS RollbackFreeze, TLAPS

Untouched == epoch = prep.epoch

(* What the stages of a preparation have established. *)
Frozen == prep.stage # "idle" /\ Untouched => admissionFrozen

Settling ==
  prep.stage \in {"inspecting", "confirming", "stopping", "stopped"} /\ Untouched =>
    /\ inFlight = {} /\ Left("open") = {}
    /\ Left("unresolved") \subseteq prep.acknowledged

Inspecting ==
  prep.stage \in {"confirming", "stopping", "stopped"} /\ Untouched => Left("journal") = {}

(* The notices: none of the running preparation yet, and a preparation     *)
(* that meets a ready answer does not own the freeze.                      *)
Notices ==
  prep.stage # "idle" =>
    generation \notin offers /\ prep.epoch <= epoch /\ (certified.stands => ~prep.owns)

IInv ==
  /\ TypeOK /\ Frozen /\ Settling /\ Inspecting /\ Notices
  /\ ReadyMeansQuiet /\ FreezeHasAWayBack

-----------------------------------------------------------------------------
Stages == {"idle", "settling", "inspecting", "confirming", "stopping", "stopped"}

Preparations == [stage : Stages, owns : BOOLEAN, epoch : Nat, acknowledged : SUBSET Operations]

\* No preparation and nothing durable are among the values of their types.
LEMMA RestIsTyped ==
  /\ Idle \in Preparations /\ Idle.stage = "idle"
  /\ Nothing \in [stands : BOOLEAN, acknowledged : SUBSET Operations] /\ Nothing.stands = FALSE
<1>1. {} \in SUBSET Operations OBVIOUS
<1>2. Idle \in Preparations /\ Idle.stage = "idle" BY <1>1 DEF Idle, Preparations, Stages
<1>3. Nothing \in [stands : BOOLEAN, acknowledged : SUBSET Operations] /\ Nothing.stands = FALSE
  BY <1>1 DEF Nothing
<1> QED BY <1>2, <1>3

\* A new window satisfies the invariant.
LEMMA InitEstablishes == Init => IInv
<1> SUFFICES ASSUME Init PROVE IInv OBVIOUS
<1>1. TypeOK BY RestIsTyped DEF Init, TypeOK, Preparations, Stages
<1>2. prep.stage = "idle" /\ certified.stands = FALSE /\ ~admissionFrozen
  BY RestIsTyped DEF Init
<1> QED BY <1>1, <1>2 DEF IInv, Frozen, Settling, Inspecting, Notices, ReadyMeansQuiet,
           FreezeHasAWayBack

\* Every step keeps the types.
LEMMA TypeStep == ASSUME TypeOK, [Next]_vars PROVE TypeOK'
<1> USE DEF TypeOK, Operations
<1>1. ASSUME NEW o \in Edits, Admit(o) PROVE TypeOK'
  BY <1>1 DEF Admit, Start, adminVars
<1>2. ASSUME NEW o \in Steps, Step(o) PROVE TypeOK'
  <2>1. inFlight' = inFlight \cup {o} /\ UNCHANGED <<worker, autoSave, prep, answered, durable,
                                                     offers>>
    BY <1>2 DEF Step, Start, adminVars
  <2>2. CASE UNCHANGED <<admissionFrozen, adminVars>> BY <2>1, <2>2 DEF adminVars
  <2>3. CASE /\ admissionFrozen' = FALSE /\ certified' = Nothing
             /\ epoch' = epoch + 1 /\ generation' = generation + 1
    <3>1. certified' \in [stands : BOOLEAN, acknowledged : SUBSET Operations]
      BY <2>3, RestIsTyped
    <3>2. epoch' \in Nat /\ generation' \in Nat /\ offers' \subseteq 0..generation'
      BY <2>1, <2>3
    <3> QED BY <2>1, <2>3, <3>1, <3>2
  <2> QED BY <1>2, <2>2, <2>3 DEF Step
<1>3. ASSUME NEW o \in Operations, Settle(o) PROVE TypeOK'
  BY <1>3 DEF Settle, adminVars
<1>4. ASSUME NEW w \in Workers, StartWorker(w) \/ WorkerExits(w) PROVE TypeOK'
  BY <1>4 DEF StartWorker, WorkerExits, adminVars
<1>5. CASE FilesChange BY <1>5 DEF FilesChange, adminVars
<1>6. CASE Prepare BY <1>6 DEF Prepare
<1>0. ASSUME Refuse, UNCHANGED <<inFlight, durable, worker, autoSave, answered>> PROVE TypeOK'
  BY <1>0, RestIsTyped DEF Refuse, Preparations, Stages
<1>7. ASSUME NEW a \in SUBSET Operations, NEW b,
             NEW st \in {"inspecting", "confirming", "stopping", "stopped"},
             Blocked(b, st, a) PROVE TypeOK'
  <2>1. CASE Refuse /\ UNCHANGED <<inFlight, durable, worker, autoSave, answered>>
    BY <1>0, <2>1
  <2>2. CASE Proceed(st, a) /\ UNCHANGED <<inFlight, durable, worker, autoSave, answered>>
    BY <2>2 DEF Proceed, adminVars
  <2> QED BY <1>7, <2>1, <2>2 DEF Blocked
<1>8. CASE SettleTimesOut \/ Throws
  BY <1>8, <1>0 DEF SettleTimesOut, Throws, Blocked
<1>9. CASE Settled
  <2>1. Left("unresolved") \in SUBSET Operations BY DEF Left
  <2> QED BY <1>9, <1>7, <2>1 DEF Settled
<1>10. CASE Inspected
  <2>1. prep.acknowledged \in SUBSET Operations OBVIOUS
  <2> QED BY <1>10, <1>7, <2>1 DEF Inspected
<1>11. CASE Confirm
  <2>1. prep.acknowledged \in SUBSET Operations OBVIOUS
  <2> QED BY <1>11, <1>7, <2>1 DEF Confirm
<1>12. CASE Stop BY <1>12 DEF Stop, Proceed, adminVars
<1>13. CASE Answer
  <2>1. CASE Refused BY <1>13, <2>1, <1>0 DEF Answer
  <2>2. CASE ~Refused
    <3>1. Ready /\ UNCHANGED <<inFlight, durable, worker, autoSave, answered>>
      BY <1>13, <2>2 DEF Answer
    <3>2. /\ prep' \in Preparations
          /\ certified' \in [stands : BOOLEAN, acknowledged : SUBSET Operations]
      BY <3>1, RestIsTyped DEF Ready
    <3> QED BY <3>1, <3>2 DEF Ready, Preparations, Stages
  <2> QED BY <2>1, <2>2
<1>14. ASSUME NEW g \in offers, Resume(g) PROVE TypeOK'
  BY <1>14, RestIsTyped DEF Resume
<1>15. CASE UNCHANGED vars BY <1>15 DEF vars, adminVars
<1> QED BY <1>1, <1>2, <1>3, <1>4, <1>5, <1>6, <1>8, <1>9, <1>10, <1>11, <1>12, <1>13,
           <1>14, <1>15 DEF Next

(* An operation that is admitted, or cannot be refused, meets no freeze or *)
(* ends it; one that settles was in flight.                                *)
LEMMA OperationStep ==
  ASSUME IInv, TypeOK',
         \/ \E o \in Edits : Admit(o)
         \/ \E o \in Steps : Step(o)
         \/ \E o \in Operations : Settle(o)
  PROVE IInv'
<1> USE DEF TypeOK, Operations
<1>0. TypeOK BY DEF IInv
<1>1. ASSUME NEW o \in Edits, Admit(o) PROVE IInv'
  <2>1. ~admissionFrozen /\ UNCHANGED <<admissionFrozen, prep, worker, autoSave, answered,
                                       epoch, generation, offers, certified>>
    BY <1>1 DEF Admit, Start, adminVars
  <2>2. ~certified.stands BY <2>1 DEF IInv, ReadyMeansQuiet
  <2>3. prep.stage = "idle" \/ ~Untouched BY <2>1 DEF IInv, Frozen
  <2> QED BY <2>1, <2>2, <2>3 DEF IInv, Frozen, Settling, Inspecting, Notices,
             ReadyMeansQuiet, FreezeHasAWayBack, Untouched
<1>2. ASSUME NEW o \in Steps, Step(o) PROVE IInv'
  <2>1. UNCHANGED <<prep, worker, autoSave, answered, offers, durable>>
    BY <1>2 DEF Step, Start, adminVars
  <2>2. CASE ~admissionFrozen /\ UNCHANGED <<admissionFrozen, adminVars>>
    <3>1. ~certified.stands BY <2>2 DEF IInv, ReadyMeansQuiet
    <3>2. prep.stage = "idle" \/ ~Untouched BY <2>2 DEF IInv, Frozen
    <3> QED BY <2>1, <2>2, <3>1, <3>2 DEF IInv, Frozen, Settling, Inspecting, Notices,
               ReadyMeansQuiet, FreezeHasAWayBack, Untouched, adminVars
  <2>3. CASE /\ admissionFrozen' = FALSE /\ certified' = Nothing
             /\ epoch' = epoch + 1 /\ generation' = generation + 1
    <3>1. prep.stage # "idle" => prep.epoch <= epoch BY DEF IInv, Notices
    <3>2. prep'.stage # "idle" => ~(epoch' = prep'.epoch)
      BY <1>0, <2>1, <2>3, <3>1
    <3>3. generation' \notin offers' BY <1>0, <2>1, <2>3
    <3>4. certified'.stands = FALSE BY <2>3 DEF Nothing
    <3>5. prep'.stage # "idle" => prep'.epoch <= epoch' BY <1>0, <2>1, <2>3, <3>1
    <3> QED BY <2>3, <3>2, <3>3, <3>4, <3>5 DEF IInv, Frozen, Settling, Inspecting, Notices,
               ReadyMeansQuiet, FreezeHasAWayBack, Untouched
  <2> QED BY <1>2, <2>2, <2>3 DEF Step
<1>3. ASSUME NEW o \in Operations, Settle(o) PROVE IInv'
  <2>1. o \in inFlight /\ UNCHANGED <<admissionFrozen, prep, worker, epoch, generation, offers,
                                     certified>>
    BY <1>3 DEF Settle, adminVars
  <2>2. ~certified.stands BY <2>1 DEF IInv, ReadyMeansQuiet
  <2>3. ~(prep.stage \in {"inspecting", "confirming", "stopping", "stopped"} /\ Untouched)
    BY <2>1 DEF IInv, Settling
  <2> QED BY <2>1, <2>2, <2>3 DEF IInv, Frozen, Settling, Inspecting, Notices,
             ReadyMeansQuiet, FreezeHasAWayBack, Untouched
<1> QED BY <1>1, <1>2, <1>3

\* Workers, files, notices and time take nothing from a preparation.
LEMMA EnvironmentStep ==
  ASSUME IInv, TypeOK',
         \/ \E w \in Workers : StartWorker(w) \/ WorkerExits(w)
         \/ FilesChange
         \/ \E g \in offers : Resume(g)
         \/ UNCHANGED vars
  PROVE IInv'
<1> USE DEF TypeOK
<1>1. ASSUME NEW w \in Workers, StartWorker(w) PROVE IInv'
  <2>1. ~certified.stands BY <1>1 DEF StartWorker, IInv, ReadyMeansQuiet
  <2> QED BY <1>1, <2>1 DEF StartWorker, adminVars, IInv, Frozen, Settling, Inspecting,
             Notices, ReadyMeansQuiet, FreezeHasAWayBack, Untouched, Left
<1>2. ASSUME NEW w \in Workers, WorkerExits(w) PROVE IInv'
  BY <1>2 DEF WorkerExits, adminVars, IInv, Frozen, Settling, Inspecting,
     Notices, ReadyMeansQuiet, FreezeHasAWayBack, Untouched, Left
<1>3. CASE FilesChange
  BY <1>3 DEF FilesChange, adminVars, IInv, Frozen, Settling, Inspecting,
     Notices, ReadyMeansQuiet, FreezeHasAWayBack, Untouched, Left
<1>4. ASSUME NEW g \in offers, Resume(g) PROVE IInv'
  <2>1. UNCHANGED <<inFlight, durable, worker, autoSave, prep, epoch, generation, offers>>
    BY <1>4 DEF Resume
  <2>2. CASE UNCHANGED <<admissionFrozen, certified>>
    BY <2>1, <2>2 DEF IInv, Frozen, Settling, Inspecting, Notices, ReadyMeansQuiet,
       FreezeHasAWayBack, Untouched, Left
  <2>3. CASE Current(g) /\ admissionFrozen' = FALSE /\ certified' = Nothing
    <3>1. prep.stage = "idle" BY <2>3 DEF Current, IInv, Notices
    <3>2. certified'.stands = FALSE BY <2>3 DEF Nothing
    <3> QED BY <2>1, <2>3, <3>1, <3>2 DEF IInv, Frozen, Settling, Inspecting, Notices,
               ReadyMeansQuiet, FreezeHasAWayBack, Untouched
  <2> QED BY <1>4, <2>2, <2>3 DEF Resume
<1>5. CASE UNCHANGED vars
  BY <1>5 DEF vars, adminVars, IInv, Frozen, Settling, Inspecting, Notices,
     ReadyMeansQuiet, FreezeHasAWayBack, Untouched, Left
<1> QED BY <1>1, <1>2, <1>3, <1>4, <1>5

(* A refusal lifts the freeze only when the preparation made it. *)
LEMMA RefuseStep ==
  ASSUME IInv, TypeOK', prep.stage # "idle", Refuse,
         UNCHANGED <<inFlight, durable, worker, autoSave, answered>>
  PROVE IInv'
<1> USE DEF TypeOK
<1>1. prep'.stage = "idle" /\ UNCHANGED <<epoch, generation, certified>> BY DEF Refuse, Idle
<1>2. certified.stands => admissionFrozen' = admissionFrozen
  BY DEF Refuse, IInv, Notices
<1>3. ReadyMeansQuiet' BY <1>1, <1>2 DEF IInv, ReadyMeansQuiet, Left
<1>4. FreezeHasAWayBack' BY <1>1 DEF Refuse, FreezeHasAWayBack
<1> QED BY <1>1, <1>3, <1>4 DEF IInv, Frozen, Settling, Inspecting, Notices

\* The stages of a preparation, each with what the last one found.
LEMMA PreparationStep ==
  ASSUME IInv, TypeOK',
         Prepare \/ SettleTimesOut \/ Throws \/ Settled \/ Inspected \/ Confirm \/ Stop \/ Answer
  PROVE IInv'
<1> USE DEF TypeOK
<1>0. TypeOK BY DEF IInv
<1>1. CASE Prepare
  <2>1. prep.stage = "idle" /\ UNCHANGED <<inFlight, durable, worker, offers, certified, epoch>>
    BY <1>1 DEF Prepare
  <2>2. prep'.stage = "settling" /\ admissionFrozen' /\ prep'.epoch = epoch
         /\ prep'.owns = ~admissionFrozen
    BY <1>1 DEF Prepare
  <2>3. generation' \notin offers BY <1>1 DEF Prepare, IInv
  <2>4. certified.stands => admissionFrozen BY DEF IInv, ReadyMeansQuiet
  <2> QED BY <2>1, <2>2, <2>3, <2>4 DEF IInv, Frozen, Settling, Inspecting, Notices,
             ReadyMeansQuiet, FreezeHasAWayBack, Left
<1>2. CASE SettleTimesOut \/ Throws
  BY <1>2, RefuseStep DEF SettleTimesOut, Throws, Blocked
<1>3. CASE Settled
  <2>1. CASE autoSave \/ Left("open") # {}
    BY <1>3, <2>1, RefuseStep DEF Settled, Blocked
  <2>2. CASE ~(autoSave \/ Left("open") # {})
    <3>1. /\ prep.stage = "settling" /\ inFlight = {} /\ Left("open") = {}
          /\ prep' = [prep EXCEPT !.stage = "inspecting", !.acknowledged = Left("unresolved")]
          /\ UNCHANGED <<admissionFrozen, adminVars, inFlight, durable, worker>>
      BY <1>3, <2>2 DEF Settled, Blocked, Proceed
    <3>2. /\ prep'.stage = "inspecting" /\ prep'.acknowledged = Left("unresolved")
          /\ prep'.epoch = prep.epoch /\ prep'.owns = prep.owns
      BY <3>1
    <3>3. Left("open")' = Left("open") /\ Left("unresolved")' = Left("unresolved")
          /\ Left("journal")' = Left("journal")
      BY <3>1 DEF Left
    <3>4. Frozen' /\ Notices'
      BY <3>1, <3>2 DEF IInv, Frozen, Notices, Untouched, adminVars
    <3>5. Settling' /\ Inspecting'
      BY <3>1, <3>2, <3>3 DEF Settling, Inspecting
    <3>6. ReadyMeansQuiet' /\ FreezeHasAWayBack'
      BY <3>1, <3>2, <3>3 DEF IInv, ReadyMeansQuiet, FreezeHasAWayBack, adminVars
    <3> QED BY <3>4, <3>5, <3>6 DEF IInv
  <2> QED BY <2>1, <2>2
<1>4. CASE Inspected
  <2>1. CASE Left("journal") # {}
    BY <1>4, <2>1, RefuseStep DEF Inspected, Blocked
  <2>2. CASE Left("journal") = {}
    <3>1. /\ prep.stage = "inspecting" /\ Left("journal") = {}
          /\ UNCHANGED <<admissionFrozen, adminVars, inFlight, durable, worker>>
      BY <1>4, <2>2 DEF Inspected, Blocked, Proceed
    <3>2. /\ prep'.stage \in {"stopping", "confirming"} /\ prep'.acknowledged = prep.acknowledged
          /\ prep'.epoch = prep.epoch /\ prep'.owns = prep.owns
      <4>1. Proceed(IF prep.acknowledged = {} THEN "stopping" ELSE "confirming",
                    prep.acknowledged)
        BY <1>4, <2>2 DEF Inspected, Blocked
      <4>2. CASE prep.acknowledged = {}
        BY <1>0, <4>1, <4>2 DEF Proceed
      <4>3. CASE prep.acknowledged # {}
        BY <1>0, <4>1, <4>3 DEF Proceed
      <4> QED BY <4>2, <4>3
    <3> QED BY <3>1, <3>2 DEF IInv, Frozen, Settling, Inspecting, Notices, ReadyMeansQuiet,
               FreezeHasAWayBack, Untouched, Left, adminVars
  <2> QED BY <2>1, <2>2
<1>5. CASE Confirm
  <2>1. PICK accepted \in BOOLEAN : Blocked(~accepted, "stopping", prep.acknowledged)
    BY <1>5 DEF Confirm
  <2>2. CASE ~accepted
    BY <1>5, <2>1, <2>2, RefuseStep DEF Confirm, Blocked
  <2>3. CASE accepted
    <3>1. /\ prep.stage = "confirming" /\ prep'.stage = "stopping"
          /\ prep'.acknowledged = prep.acknowledged
          /\ prep'.epoch = prep.epoch /\ prep'.owns = prep.owns
          /\ UNCHANGED <<admissionFrozen, adminVars, inFlight, durable, worker>>
      BY <1>5, <2>1, <2>3 DEF Confirm, Blocked, Proceed
    <3> QED BY <3>1 DEF IInv, Frozen, Settling, Inspecting, Notices, ReadyMeansQuiet,
               FreezeHasAWayBack, Untouched, Left, adminVars
  <2> QED BY <2>2, <2>3
<1>6. CASE Stop
  <2>1. /\ prep.stage = "stopping" /\ prep'.stage = "stopped"
        /\ prep'.acknowledged = prep.acknowledged
        /\ prep'.epoch = prep.epoch /\ prep'.owns = prep.owns
        /\ worker' \subseteq worker
        /\ UNCHANGED <<admissionFrozen, adminVars, inFlight, durable>>
    BY <1>6 DEF Stop, Proceed
  <2> QED BY <2>1 DEF IInv, Frozen, Settling, Inspecting, Notices, ReadyMeansQuiet,
             FreezeHasAWayBack, Untouched, Left, adminVars
<1>7. CASE Answer
  <2>1. CASE Refused
    BY <1>7, <2>1, RefuseStep DEF Answer
  <2>2. CASE ~Refused
    <3>1. /\ prep.stage = "stopped" /\ worker = {} /\ Untouched
          /\ Ready /\ UNCHANGED <<inFlight, durable, worker, autoSave>>
      BY <1>7, <2>2 DEF Answer, Refused, Untouched
    <3>2. /\ admissionFrozen /\ inFlight = {} /\ Left("open") = {} /\ Left("journal") = {}
          /\ Left("unresolved") \subseteq prep.acknowledged
      BY <3>1 DEF IInv, Frozen, Settling, Inspecting
    <3>3. /\ prep'.stage = "idle" /\ certified'.acknowledged = prep.acknowledged
          /\ generation' \in offers' /\ UNCHANGED <<admissionFrozen, generation>>
      BY <3>1 DEF Ready, Idle
    <3> QED BY <3>1, <3>2, <3>3 DEF IInv, Frozen, Settling, Inspecting, Notices,
               ReadyMeansQuiet, FreezeHasAWayBack, Left
  <2> QED BY <2>1, <2>2
<1> QED BY <1>1, <1>2, <1>3, <1>4, <1>5, <1>6, <1>7

(* The stages of a preparation and the answers it gave mean what they say, *)
(* whatever the operations, the workers and the user do meanwhile          *)
(* (rollbackPreparation.ts:112-160).                                       *)
THEOREM PreparationInvariant == Spec => []IInv
<1>1. IInv /\ [Next]_vars => IInv'
  <2> SUFFICES ASSUME IInv, [Next]_vars PROVE IInv' OBVIOUS
  <2>1. TypeOK' BY TypeStep DEF IInv
  <2> QED BY <2>1, OperationStep, EnvironmentStep, PreparationStep DEF Next
<1> QED BY <1>1, InitEstablishes, PTL DEF Spec

(* While a ready answer stands, nothing runs that the switch would tear    *)
(* apart and nothing undecided is left that the user did not accept.       *)
THEOREM ReadyStaysQuiet == Spec => []ReadyMeansQuiet
<1>1. IInv => ReadyMeansQuiet BY DEF IInv
<1> QED BY <1>1, PreparationInvariant, PTL

(* The newest notice of a host that is left frozen offers Resume. *)
THEOREM FreezeIsOffered == Spec => []FreezeHasAWayBack
<1>1. IInv => FreezeHasAWayBack BY DEF IInv
<1> QED BY <1>1, PreparationInvariant, PTL

(* A refusal that nothing invalidated lifts its own freeze and keeps the   *)
(* one an earlier preparation relies on.                                   *)
THEOREM RefusalRestores == Spec => RefusalRestoresAdmission
<1>1. ASSUME IInv, Next, prep.stage # "idle", prep'.stage = "idle", certified' = certified,
             epoch = prep.epoch
      PROVE admissionFrozen' = ~prep.owns
  <2>1. admissionFrozen /\ prep.owns \in BOOLEAN BY <1>1 DEF IInv, Frozen, Untouched, TypeOK
  <2>2. Refuse \/ Ready
    <3>1. prep' # prep /\ prep'.stage = "idle" BY <1>1
    <3>2. ASSUME NEW st \in Stages \ {"idle"}, NEW a, Proceed(st, a) PROVE FALSE
      BY <1>1, <3>2 DEF Proceed, IInv, TypeOK, Stages
    <3>3. ~Prepare BY <1>1 DEF Prepare
    <3>4. ~Stop BY <3>2 DEF Stop, Stages
    <3>5. SettleTimesOut \/ Throws \/ Settled \/ Inspected \/ Confirm \/ Answer
      BY <1>1, <3>1, <3>3, <3>4 DEF Next, Admit, Step, Start, Settle, StartWorker, WorkerExits,
         FilesChange, Resume
    <3>6. ASSUME NEW b, NEW st \in Stages \ {"idle"}, NEW a, Blocked(b, st, a) PROVE Refuse
      BY <3>6, <3>2 DEF Blocked
    <3>7. SettleTimesOut \/ Throws => Refuse BY DEF SettleTimesOut, Throws, Blocked
    <3>8. Settled => Refuse BY <3>6 DEF Settled, Stages
    <3>9. Inspected => Refuse
      <4>1. (IF prep.acknowledged = {} THEN "stopping" ELSE "confirming") \in Stages \ {"idle"}
        BY DEF Stages
      <4> QED BY <3>6, <4>1 DEF Inspected
    <3>10. Confirm => Refuse BY <3>6 DEF Confirm, Stages
    <3>11. Answer => Refuse \/ Ready BY DEF Answer
    <3> QED BY <3>5, <3>7, <3>8, <3>9, <3>10, <3>11
  <2>3. CASE Refuse BY <2>1, <2>3 DEF Refuse
  <2>4. CASE Ready
    <3>1. certified.stands BY <1>1, <2>4 DEF Ready
    <3> QED BY <1>1, <2>1, <2>4, <3>1 DEF Ready, IInv, Notices
  <2> QED BY <2>2, <2>3, <2>4
<1>2. IInv /\ [Next]_vars =>
        [prep.stage # "idle" /\ prep'.stage = "idle" /\ certified' = certified /\ epoch = prep.epoch
           => admissionFrozen' = ~prep.owns]_vars
  BY <1>1
<1> QED BY <1>2, PreparationInvariant, PTL DEF Spec, RefusalRestoresAdmission
=============================================================================
