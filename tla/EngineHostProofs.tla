-------------------------- MODULE EngineHostProofs --------------------------
(***************************************************************************)
(* What holds of the engine processes for any number of projects, workflows*)
(* and processes and any budget.                                           *)
(***************************************************************************)
EXTENDS EngineHost, FiniteSetTheorems, TLAPS

\* recycleNet48Engine keeps the invariant, whoever asks and whatever else it makes the registry forget.
LEMMA RecycleKeepsIInv ==
  ASSUME IInv, NEW p \in Procs, NEW others, Recycle(p, others), UNCHANGED <<proc, shuttingDown>>
  PROVE  IInv'
<1>1. LiveProcs' = LiveProcs
  BY DEF LiveProcs, Alive
<1>2. signalled \subseteq signalled'
  BY DEF Recycle
<1>3. BlockedUntilExit'
  BY <1>1 DEF Recycle, IInv, BlockedUntilExit, LiveProcs, Alive
<1>4. \A q \in recycled' : q \in Procs /\ proc[q] # "unborn"
  BY DEF Recycle, IInv, Alive
<1> QED
  BY <1>1, <1>2, <1>3, <1>4 DEF IInv, ShutdownLeavesNoProcess, ProcessBudget

\* One process is spawned, within the budget, before shutdown, and no net48 process is blocked if it is one.
LEMMA StartKeepsIInv ==
  ASSUME IInv, NEW r \in Requests, Start(r)
  PROVE  IInv'
<1>1. PICK p \in Procs : proc[p] = "unborn" /\ proc' = [proc EXCEPT ![p] = "alive"]
  BY DEF Start
<1>2. LiveProcs' = LiveProcs \cup {p} /\ p \notin recycled
  BY <1>1 DEF IInv, LiveProcs, Alive
<1>3. ~ shuttingDown'
  BY DEF Start, MustStart, Admitted
<1>4. IsFiniteSet(LiveProcs') /\ Cardinality(LiveProcs') <= ProcessLimit
  <2>1. IsFiniteSet(LiveProcs)
    BY DEF IInv
  <2>2. Cardinality(LiveProcs) \in Nat /\ Cardinality(LiveProcs) < ProcessLimit
    BY <2>1, FS_CardinalityType DEF Start, WithinBudget
  <2>3. /\ IsFiniteSet(LiveProcs \cup {p})
        /\ Cardinality(LiveProcs \cup {p}) \in {Cardinality(LiveProcs), Cardinality(LiveProcs) + 1}
    BY <2>1, FS_AddElement
  <2> QED
    BY <1>2, <2>2, <2>3, EngineHostAssumption DEF EngineHostAssumption
<1>5. blocked' = blocked /\ recycled' = recycled
  BY DEF Start
<1>6. proc' \in [Procs -> {"unborn", "alive", "exited"}] /\ \A q \in recycled : q \in Procs /\ proc'[q] # "unborn"
  BY <1>1 DEF IInv
<1> QED
  BY <1>2, <1>3, <1>4, <1>5, <1>6 DEF IInv, BlockedUntilExit, ShutdownLeavesNoProcess, ProcessBudget

\* Any other step spawns nothing, recycles nothing and takes no signal back.
LEMMA OtherStepsKeepIInv ==
  ASSUME IInv, UNCHANGED <<proc, recycled, blocked>>, signalled \subseteq signalled',
         shuttingDown' => shuttingDown \/ LiveProcs \subseteq signalled'
  PROVE  IInv'
<1>1. LiveProcs' = LiveProcs
  BY DEF LiveProcs, Alive
<1> QED
  BY <1>1 DEF IInv, BlockedUntilExit, ShutdownLeavesNoProcess, ProcessBudget

\* A process exits: it is blocked no longer.
LEMMA ExitKeepsIInv ==
  ASSUME IInv, NEW p \in Procs, Exit(p)
  PROVE  IInv'
<1>1. proc' = [proc EXCEPT ![p] = "exited"] /\ blocked' = blocked \ {p}
      /\ UNCHANGED <<signalled, recycled, shuttingDown>>
  BY DEF Exit
<1>2. LiveProcs' = LiveProcs \ {p}
  BY <1>1 DEF IInv, LiveProcs, Alive
<1>3. IsFiniteSet(LiveProcs') /\ Cardinality(LiveProcs') <= ProcessLimit
  <2>1. IsFiniteSet(LiveProcs)
    BY DEF IInv
  <2>2. IsFiniteSet(LiveProcs') /\ Cardinality(LiveProcs') <= Cardinality(LiveProcs)
    BY <1>2, <2>1, FS_Subset
  <2>3. Cardinality(LiveProcs) \in Nat /\ Cardinality(LiveProcs') \in Nat
    BY <2>1, <2>2, FS_CardinalityType
  <2> QED
    BY <2>2, <2>3, EngineHostAssumption DEF IInv, ProcessBudget, EngineHostAssumption
<1>4. proc' \in [Procs -> {"unborn", "alive", "exited"}] /\ \A q \in recycled : q \in Procs /\ proc'[q] # "unborn"
  BY <1>1 DEF IInv
<1> QED
  BY <1>1, <1>2, <1>3, <1>4 DEF IInv, BlockedUntilExit, ShutdownLeavesNoProcess, ProcessBudget

\* The invariant holds of every reachable state, whatever starts, fails, is evicted, recycled or stopped.
THEOREM ProcessesInvariant == Spec => []IInv
<1>1. Init => IInv
  <2> SUFFICES ASSUME Init PROVE IInv
    OBVIOUS
  <2>1. LiveProcs = {}
    BY DEF Init, LiveProcs, Alive
  <2> QED
    BY <2>1, FS_EmptySet, EngineHostAssumption
    DEF Init, IInv, BlockedUntilExit, ShutdownLeavesNoProcess, ProcessBudget, EngineHostAssumption
<1>2. IInv /\ [Next]_vars => IInv'
  <2> SUFFICES ASSUME IInv, [Next]_vars PROVE IInv'
    OBVIOUS
  <2>1. ASSUME NEW r \in Requests, GetEngine(r) PROVE IInv'
    <3>1. CASE Start(r)
      BY <3>1, StartKeepsIInv
    <3>2. CASE Evict(r)
      <4>1. PICK p \in Procs :
              IF KeyOf[p] \in Net48 THEN Recycle(p, Dead(want[r]))
              ELSE Dispose({p}) /\ UNCHANGED <<recycling, blocked, recycled>>
        BY <3>2 DEF Evict, Evictable, Victims, Residents
      <4>2. UNCHANGED <<proc, shuttingDown>>
        BY <3>2 DEF Evict
      <4>3. CASE KeyOf[p] \in Net48
        BY <4>1, <4>2, <4>3, RecycleKeepsIInv
      <4>4. CASE KeyOf[p] \notin Net48
        BY <4>1, <4>2, <4>4, OtherStepsKeepIInv DEF Dispose
      <4> QED
        BY <4>3, <4>4
    <3>3. CASE \/ AwaitIdle(r) \/ AwaitRecycles(r) \/ Refuse(r) \/ AwaitCleanup(r) \/ UseRunning(r) \/ JoinStart(r)
               \/ RefuseOrAwaitAdmission(r)
      BY <3>3, OtherStepsKeepIInv
      DEF AwaitIdle, AwaitRecycles, Refuse, AwaitCleanup, UseRunning, JoinStart, RefuseOrAwaitAdmission, physical
    <3> QED
      BY <2>1, <3>1, <3>2, <3>3 DEF GetEngine
  <2>2. ASSUME NEW r \in Requests,
               \/ AdmissionOpens(r) \/ Expire(r) \/ BudgetWaitOver(r) \/ Close(r) \/ \E k \in Keys : Call(r, k)
        PROVE  IInv'
    <3>1. UNCHANGED <<physical, shuttingDown>>
      BY <2>2 DEF AdmissionOpens, Expire, BudgetWaitOver, Close, Call
    <3> QED
      BY <3>1, OtherStepsKeepIInv DEF physical
  <2>3. ASSUME NEW r \in Requests, Handoff(r) \/ Abort(r) PROVE IInv'
    <3>1. UNCHANGED <<proc, recycled, blocked, shuttingDown>>
      BY <2>3 DEF Handoff, Abort
    <3>2. signalled \subseteq signalled'
      BY <2>3 DEF Handoff, Abort, Finish, Abandon
    <3> QED
      BY <3>1, <3>2, OtherStepsKeepIInv
  <2>4. ASSUME NEW p \in Procs, Exit(p) PROVE IInv'
    BY <2>4, ExitKeepsIInv
  <2>5. ASSUME NEW p \in Procs, ConnectionCloses(p) PROVE IInv'
    <3>1. UNCHANGED <<proc, shuttingDown>>
      BY <2>5 DEF ConnectionCloses, starts
    <3>2. \/ Recycle(p, {})
          \/ Dispose({p}) /\ UNCHANGED <<recycling, blocked, recycled>>
      BY <2>5 DEF ConnectionCloses
    <3>3. CASE Recycle(p, {})
      BY <3>1, <3>3, RecycleKeepsIInv
    <3>4. CASE Dispose({p}) /\ UNCHANGED <<recycling, blocked, recycled>>
      BY <3>1, <3>4, OtherStepsKeepIInv DEF Dispose
    <3> QED
      BY <3>2, <3>3, <3>4
  <2>6. ASSUME NEW p \in Procs, StopNext(p) PROVE IInv'
    <3>1. UNCHANGED <<proc, shuttingDown>>
      BY <2>6 DEF StopNext
    <3>2. CASE KeyOf[p] \in Net48
      BY <2>6, <3>1, <3>2, RecycleKeepsIInv DEF StopNext
    <3>3. CASE KeyOf[p] \notin Net48
      BY <2>6, <3>1, <3>3, OtherStepsKeepIInv DEF StopNext, Dispose
    <3> QED
      BY <3>2, <3>3
  <2>7. ASSUME NEW p \in Procs, BuildRecycle(p) PROVE IInv'
    BY <2>7, RecycleKeepsIInv DEF BuildRecycle
  <2>8. ASSUME NEW p \in Procs,
               \/ StartSucceeds(p) \/ StartFails(p) \/ CleanupConfirmed(p) \/ CleanupTimesOut(p)
               \/ SupervisorRecycles(p) \/ RecycleReturns(p)
        PROVE  IInv'
    BY <2>8, OtherStepsKeepIInv
    DEF StartSucceeds, StartFails, CleanupConfirmed, CleanupTimesOut, SupervisorRecycles, RecycleReturns, Dispose, physical
  <2>9. CASE \/ \E reason \in StopReasons : Stop(reason)
             \/ StopWaited \/ StopConfirms \/ StopReturns
    BY <2>9, OtherStepsKeepIInv DEF Stop, StopWaited, StopConfirms, StopReturns, Abandon, physical
  <2>10. CASE Deactivate
    BY <2>10, OtherStepsKeepIInv DEF Deactivate
  <2>11. CASE UNCHANGED vars
    BY <2>11, OtherStepsKeepIInv DEF vars, physical
  <2> QED
    BY <2>1, <2>2, <2>3, <2>4, <2>5, <2>6, <2>7, <2>8, <2>9, <2>10, <2>11 DEF Next
<1> QED
  BY <1>1, <1>2, PTL DEF Spec

\* extension.ts:2429-2434: the block on a recycled process is neither lifted early nor latched.
THEOREM RecycledStaysBlocked == Spec => []BlockedUntilExit
<1>1. IInv => BlockedUntilExit
  BY DEF IInv
<1> QED
  BY <1>1, ProcessesInvariant, PTL

\* extension.ts:1722-1729: no net48 process starts while a recycled one may still pin an output.
THEOREM NoNet48StartWhileBlocked == Spec => NoStartBesideARecycle
<1> DEFINE Beside == \A p \in Procs : proc[p] = "unborn" /\ proc'[p] = "alive" /\ KeyOf[p] \in Net48
                                        => recycled \cap LiveProcs = {}
<1>1. IInv /\ [Next]_vars => [Beside]_vars
  <2> SUFFICES ASSUME IInv, Next, NEW p \in Procs, proc[p] = "unborn", proc'[p] = "alive", KeyOf[p] \in Net48
               PROVE  recycled \cap LiveProcs = {}
    BY DEF Beside
  <2>1. proc' # proc
    OBVIOUS
  <2>2. \A r \in Requests :
          /\ ~ AwaitIdle(r) /\ ~ AwaitRecycles(r) /\ ~ Refuse(r) /\ ~ AwaitCleanup(r) /\ ~ UseRunning(r)
          /\ ~ JoinStart(r) /\ ~ Evict(r) /\ ~ RefuseOrAwaitAdmission(r)
    BY <2>1 DEF AwaitIdle, AwaitRecycles, Refuse, AwaitCleanup, UseRunning, JoinStart, Evict, RefuseOrAwaitAdmission,
                physical
  <2>3. \A r \in Requests :
          /\ ~ AdmissionOpens(r) /\ ~ Expire(r) /\ ~ BudgetWaitOver(r) /\ ~ Handoff(r) /\ ~ Close(r) /\ ~ Abort(r)
          /\ \A k \in Keys : ~ Call(r, k)
    BY <2>1 DEF AdmissionOpens, Expire, BudgetWaitOver, Handoff, Close, Abort, Call, physical
  <2>4. \A q \in Procs :
          /\ ~ StartSucceeds(q) /\ ~ StartFails(q) /\ ~ CleanupConfirmed(q) /\ ~ CleanupTimesOut(q)
          /\ ~ ConnectionCloses(q) /\ ~ SupervisorRecycles(q) /\ ~ BuildRecycle(q) /\ ~ RecycleReturns(q)
          /\ ~ StopNext(q)
    BY <2>1 DEF StartSucceeds, StartFails, CleanupConfirmed, CleanupTimesOut, ConnectionCloses, SupervisorRecycles,
                BuildRecycle, RecycleReturns, StopNext, physical
  <2>5. /\ \A reason \in StopReasons : ~ Stop(reason)
        /\ ~ StopWaited /\ ~ StopConfirms /\ ~ StopReturns /\ ~ Deactivate
    BY <2>1 DEF Stop, StopWaited, StopConfirms, StopReturns, Deactivate, physical
  <2>6. \A q \in Procs : ~ Exit(q)
    <3> SUFFICES ASSUME NEW q \in Procs, Exit(q) PROVE FALSE
      OBVIOUS
    <3>1. proc' = [proc EXCEPT ![q] = "exited"]
      BY DEF Exit
    <3> QED
      BY <3>1 DEF IInv
  <2>7. PICK r \in Requests : Start(r)
    BY <2>2, <2>3, <2>4, <2>5, <2>6 DEF Next, GetEngine
  <2>8. PICK q \in Procs : KeyOf[q] = want[r] /\ proc' = [proc EXCEPT ![q] = "alive"]
    BY <2>7 DEF Start
  <2>9. p = q /\ ~ RecycleBlocked(r)
    BY <2>7, <2>8 DEF Start, MustStart, Admitted, IInv
  <2> QED
    BY <2>8, <2>9 DEF RecycleBlocked, IInv, BlockedUntilExit
<1> QED
  BY <1>1, ProcessesInvariant, PTL DEF Spec, NoStartBesideARecycle

\* extension.ts:1762: no interleaving of starts, evictions and waits exceeds the budget.
THEOREM BudgetHolds == Spec => []ProcessBudget
<1>1. IInv => ProcessBudget
  BY DEF IInv
<1> QED
  BY <1>1, ProcessesInvariant, PTL

\* extension.ts:1730-1734: a start that was suspended when the window closed spawns nothing afterwards.
THEOREM ShutdownHolds == Spec => []ShutdownLeavesNoProcess
<1>1. IInv => ShutdownLeavesNoProcess
  BY DEF IInv
<1> QED
  BY <1>1, ProcessesInvariant, PTL

-----------------------------------------------------------------------------
(* Types. *)

\* A call of getEngine, or the end of its wait, keeps the types.
LEMMA GetEngineKeepsTypes ==
  ASSUME TypeOK, NEW r \in Requests, GetEngine(r)
  PROVE  TypeOK'
<1> USE EngineHostAssumption DEF TypeOK, EngineHostAssumption, Calling, registry, starts, physical,
        Admitted, Running, PastIdle
<1>1. CASE AwaitIdle(r) \/ AwaitRecycles(r)
  BY <1>1 DEF AwaitIdle, AwaitRecycles
<1>2. CASE Refuse(r)
  BY <1>2 DEF Refuse, Return, ReturnAll
<1>3. CASE AwaitCleanup(r)
  <2>1. engineStarts[want[r]] \in Procs /\ engineStarts[want[r]] # None
    BY <1>3 DEF AwaitCleanup, Abandoning
  <2> QED
    BY <1>3, <2>1 DEF AwaitCleanup
<1>4. CASE UseRunning(r)
  <2>1. RunningWorker(want[r]) \in Procs
    BY <1>4 DEF UseRunning, RunningWorker
  <2> QED
    BY <1>4, <2>1 DEF UseRunning, Return, ReturnAll
<1>5. CASE JoinStart(r)
  <2>1. engineStarts[want[r]] \in Procs
    BY <1>5 DEF JoinStart
  <2> QED
    BY <1>5, <2>1 DEF JoinStart
<1>6. CASE Start(r)
  BY <1>6 DEF Start, MustStart
<1>7. CASE Evict(r)
  <2>1. PICK p \in Procs :
          /\ IF KeyOf[p] \in Net48
             THEN Recycle(p, Dead(want[r]))
             ELSE /\ Forget({p} \cup Dead(want[r]))
                  /\ Dispose({p})
                  /\ UNCHANGED <<recycling, blocked, recycled>>
          /\ pc' = [pc EXCEPT ![r] = "budgetWait"]
          /\ on' = [on EXCEPT ![r] = p]
          /\ awaits' = [awaits EXCEPT ![r] = {p} \cap recycling']
    BY <1>7 DEF Evict, Evictable, Victims, Residents
  <2>2. UNCHANGED <<starts, proc, want, held, closed, stop, shuttingDown>> /\ want[r] # None
    BY <1>7 DEF Evict, MustStart
  <2>3. engines' \in [Keys -> Procs \cup {None}] /\ engineStarts' \in [Keys -> Procs \cup {None}]
    BY <2>1 DEF Recycle, Forget, Without
  <2>4. {signalled', disposed', recycling', blocked', recycled'} \subseteq SUBSET Procs
    BY <2>1 DEF Recycle, Dispose
  <2> QED
    BY <2>1, <2>2, <2>3, <2>4
<1>8. CASE RefuseOrAwaitAdmission(r)
  <2>1. engines' \in [Keys -> Procs \cup {None}] /\ engineStarts' \in [Keys -> Procs \cup {None}]
    BY <1>8 DEF RefuseOrAwaitAdmission, Forget, Without
  <2>2. CASE Return(r)
    BY <1>8, <2>1, <2>2 DEF RefuseOrAwaitAdmission, Return, ReturnAll
  <2>3. CASE pc' = [pc EXCEPT ![r] = "admissionWait"] /\ UNCHANGED <<want, on, awaits>>
    BY <1>8, <2>1, <2>3 DEF RefuseOrAwaitAdmission, MustStart
  <2> QED
    BY <1>8, <2>2, <2>3 DEF RefuseOrAwaitAdmission
<1> QED
  BY <1>1, <1>2, <1>3, <1>4, <1>5, <1>6, <1>7, <1>8 DEF GetEngine

\* The other steps of a workflow keep the types.
LEMMA WorkflowKeepsTypes ==
  ASSUME TypeOK, NEW r \in Requests,
         \/ AdmissionOpens(r) \/ Expire(r) \/ BudgetWaitOver(r) \/ Handoff(r) \/ Close(r) \/ Abort(r)
         \/ \E k \in Keys : Call(r, k)
  PROVE  TypeOK'
<1> USE EngineHostAssumption DEF TypeOK, EngineHostAssumption, Calling, registry, starts, physical, Return, ReturnAll
<1>1. CASE AdmissionOpens(r)
  BY <1>1 DEF AdmissionOpens, StartOver
<1>2. CASE Expire(r)
  BY <1>2 DEF Expire
<1>3. CASE BudgetWaitOver(r)
  BY <1>3 DEF BudgetWaitOver, StartOver
<1>4. CASE Handoff(r)
  BY <1>4 DEF Handoff, Finish, Abandon
<1>5. CASE Close(r)
  BY <1>5 DEF Close
<1>6. CASE Abort(r)
  BY <1>6 DEF Abort, Finish, Abandon
<1>7. ASSUME NEW k \in Keys, Call(r, k) PROVE TypeOK'
  BY <1>7 DEF Call
<1> QED
  BY <1>1, <1>2, <1>3, <1>4, <1>5, <1>6, <1>7

\* The steps of a startup, a process and a recycle keep the types.
LEMMA ProcessKeepsTypes ==
  ASSUME TypeOK, NEW p \in Procs,
         \/ StartSucceeds(p) \/ StartFails(p) \/ CleanupConfirmed(p) \/ CleanupTimesOut(p)
         \/ Exit(p) \/ ConnectionCloses(p) \/ SupervisorRecycles(p) \/ BuildRecycle(p) \/ RecycleReturns(p)
         \/ StopNext(p)
  PROVE  TypeOK'
<1> USE EngineHostAssumption DEF TypeOK, EngineHostAssumption, Calling, registry, starts, physical, requests,
        Forget, Without, Recycle, Dispose
<1>1. CASE StartSucceeds(p) \/ StartFails(p)
  BY <1>1 DEF StartSucceeds, StartFails
<1>2. CASE CleanupConfirmed(p)
  BY <1>2 DEF CleanupConfirmed, StartOver, Waiters
<1>3. CASE CleanupTimesOut(p)
  BY <1>3 DEF CleanupTimesOut, ReturnAll, Waiters
<1>4. CASE Exit(p)
  BY <1>4 DEF Exit
<1>5. CASE ConnectionCloses(p)
  BY <1>5 DEF ConnectionCloses
<1>6. CASE SupervisorRecycles(p)
  BY <1>6 DEF SupervisorRecycles
<1>7. CASE BuildRecycle(p)
  BY <1>7 DEF BuildRecycle
<1>8. CASE RecycleReturns(p)
  BY <1>8 DEF RecycleReturns
<1>9. CASE StopNext(p)
  <2>1. engines' \in [Keys -> Procs \cup {None}] /\ engineStarts' \in [Keys -> Procs \cup {None}]
    BY <1>9 DEF StopNext
  <2>2. {signalled', disposed', recycling', blocked', recycled'} \subseteq SUBSET Procs
    BY <1>9 DEF StopNext
  <2>3. stop' \in [active : BOOLEAN, idle : BOOLEAN, left : SUBSET Procs, current : Procs \cup {None},
                   awaits : SUBSET Procs, pending : SUBSET Procs, confirming : BOOLEAN]
    BY <1>9, <2>2 DEF StopNext
  <2> QED
    BY <1>9, <2>1, <2>2, <2>3 DEF StopNext
<1> QED
  BY <1>1, <1>2, <1>3, <1>4, <1>5, <1>6, <1>7, <1>8, <1>9

\* So do the steps that stop every engine.
LEMMA StopKeepsTypes ==
  ASSUME TypeOK, \/ \E reason \in StopReasons : Stop(reason)
                 \/ StopWaited \/ StopConfirms \/ StopReturns \/ Deactivate
  PROVE  TypeOK'
<1> USE EngineHostAssumption DEF TypeOK, EngineHostAssumption, Calling, registry, starts, physical, requests
<1>1. ASSUME NEW reason \in StopReasons, Stop(reason) PROVE TypeOK'
  BY <1>1 DEF Stop, Abandon, PendingStarts, Residents
<1>2. CASE StopWaited
  BY <1>2 DEF StopWaited
<1>5. CASE StopConfirms
  BY <1>5 DEF StopConfirms
<1>3. CASE StopReturns
  BY <1>3 DEF StopReturns, NoStop
<1>4. CASE Deactivate
  BY <1>4 DEF Deactivate, PendingStarts, Residents, LiveProcs
<1> QED
  BY <1>1, <1>2, <1>3, <1>4, <1>5

\* Every variable keeps its type; a call under way has its key and, when it waits for a process, the process.
THEOREM TypeCorrect == Spec => []TypeOK
<1>1. Init => TypeOK
  <2> SUFFICES ASSUME Init PROVE TypeOK
    OBVIOUS
  <2>1. {abandoned, accepted, reserved, signalled, disposed, recycling, blocked, recycled} \subseteq SUBSET Procs
    BY DEF Init
  <2>2. stop \in [active : BOOLEAN, idle : BOOLEAN, left : SUBSET Procs, current : Procs \cup {None},
                  awaits : SUBSET Procs, pending : SUBSET Procs, confirming : BOOLEAN]
    BY DEF Init, NoStop
  <2> QED
    BY <2>1, <2>2 DEF Init, TypeOK, Calling
<1>2. TypeOK /\ [Next]_vars => TypeOK'
  <2> SUFFICES ASSUME TypeOK, [Next]_vars PROVE TypeOK'
    OBVIOUS
  <2>1. CASE UNCHANGED vars
    BY <2>1 DEF vars, registry, starts, physical, requests, TypeOK
  <2> QED
    BY <2>1, GetEngineKeepsTypes, WorkflowKeepsTypes, ProcessKeepsTypes, StopKeepsTypes DEF Next
<1> QED
  BY <1>1, <1>2, PTL DEF Spec

-----------------------------------------------------------------------------
(* Who owns a process. *)

\* A step that forgets the processes P, and leaves the consumers where they are, keeps the ownership invariant:
\* each one is dead or told to go, is no start somebody waits for, and is recycled if it is a living net48 process.
LEMMA ForgetKeepsOwnership ==
  ASSUME TypeOK, OInv, NEW P, Forget(P),
         UNCHANGED <<startup, abandoned, accepted, reserved, proc, shuttingDown>>,
         signalled \subseteq signalled', recycled \subseteq recycled',
         recycling' \subseteq recycled', recycled' \subseteq signalled',
         \A p \in P \cap LiveProcs : p \in signalled' /\ (KeyOf[p] \in Net48 => shuttingDown \/ p \in recycled'),
         \A p \in P \cap Procs : startup[p] # "pending",
         \A r \in Requests : /\ pc'[r] = "consumer" <=> pc[r] = "consumer"
                             /\ pc[r] = "consumer" => on'[r] = on[r]
  PROVE  OInv'
<1>1. \A k \in Keys : /\ engines'[k] = IF engines[k] \in P THEN None ELSE engines[k]
                      /\ engineStarts'[k] = IF engineStarts[k] \in P THEN None ELSE engineStarts[k]
  BY DEF Forget, Without
<1>2. LiveProcs' = LiveProcs
  BY DEF LiveProcs, Alive
<1>3. RegistriesAgree'
  BY <1>1 DEF OInv, RegistriesAgree, HasOwner
<1>4. ConsumersAgree'
  BY DEF OInv, ConsumersAgree, HasOwner
<1>5. StartupsAgree'
  <2>1. \A p \in Procs : Consumers(p)' = Consumers(p)
    BY DEF Consumers
  <2>2. \A p \in Procs : startup[p] = "pending" /\ engineStarts[KeyOf[p]] = p => engineStarts'[KeyOf[p]] = p
    BY <1>1, EngineHostAssumption DEF EngineHostAssumption
  <2> QED
    BY <2>1, <2>2 DEF OInv, StartupsAgree, HasOwner
<1>6. TornDownIsSignalled'
  <2>1. \A p \in LiveProcs : HasOwner(p) => p \in signalled' \/ engines'[KeyOf[p]] = p
    BY <1>1, EngineHostAssumption DEF OInv, TornDownIsSignalled, EngineHostAssumption, LiveProcs
  <2> QED
    BY <1>2, <2>1 DEF OInv, TornDownIsSignalled, HasOwner
<1>7. Net48IsNamed'
  <2> SUFFICES ASSUME NEW p \in LiveProcs, KeyOf[p] \in Net48, ~ shuttingDown, p \notin recycled'
               PROVE  engineStarts'[KeyOf[p]] = p
    BY <1>2 DEF Net48IsNamed
  <2>1. engineStarts[KeyOf[p]] = p /\ p \notin P
    BY DEF OInv, Net48IsNamed
  <2> QED
    BY <1>1, <2>1, EngineHostAssumption DEF EngineHostAssumption, LiveProcs
<1>8. OneNet48ProcessPerKey'
  BY <1>2 DEF OInv, OneNet48ProcessPerKey
<1> QED
  BY <1>3, <1>4, <1>5, <1>6, <1>7, <1>8 DEF OInv

\* So does a step that forgets nothing.
LEMMA QuietStepKeepsOwnership ==
  ASSUME TypeOK, OInv, UNCHANGED <<registry, startup, abandoned, accepted, reserved, proc, shuttingDown>>,
         signalled \subseteq signalled', recycling' \subseteq recycling, recycled' = recycled,
         \A r \in Requests : /\ pc'[r] = "consumer" <=> pc[r] = "consumer"
                             /\ pc[r] = "consumer" => on'[r] = on[r]
  PROVE  OInv'
<1>1. Forget({})
  BY DEF Forget, Without, registry, TypeOK
<1>2. recycling' \subseteq recycled' /\ recycled' \subseteq signalled'
  BY DEF OInv, TornDownIsSignalled
<1> QED
  BY <1>1, <1>2, ForgetKeepsOwnership

\* recycleNet48Engine, of a process that has an owner; whatever else is forgotten is dead and no pending start.
LEMMA RecycleKeepsOwnership ==
  ASSUME TypeOK, OInv, NEW p \in Procs, NEW others, Recycle(p, others), HasOwner(p),
         UNCHANGED <<startup, abandoned, accepted, reserved, proc, shuttingDown>>,
         \A q \in others \cap Procs : ~ Alive(q) /\ startup[q] # "pending",
         \A r \in Requests : /\ pc'[r] = "consumer" <=> pc[r] = "consumer"
                             /\ pc[r] = "consumer" => on'[r] = on[r]
  PROVE  OInv'
<1>1. recycling \subseteq recycled /\ recycled \subseteq signalled
  BY DEF OInv, TornDownIsSignalled
<1>2. /\ signalled \subseteq signalled' /\ recycled \subseteq recycled'
      /\ recycling' \subseteq recycled' /\ recycled' \subseteq signalled'
      /\ Alive(p) => p \in recycled'
  BY <1>1 DEF Recycle
<1>3. Forget({p} \cup others)
  BY DEF Recycle
<1>4. \A q \in ({p} \cup others) \cap LiveProcs :
        q \in signalled' /\ (KeyOf[q] \in Net48 => shuttingDown \/ q \in recycled')
  BY <1>2 DEF LiveProcs
<1>5. \A q \in ({p} \cup others) \cap Procs : startup[q] # "pending"
  BY DEF HasOwner
<1> QED
  BY <1>2, <1>3, <1>4, <1>5, ForgetKeepsOwnership

\* Forgetting a modern worker, or any worker once the window closes, takes nothing but its signal.
LEMMA DisposeKeepsOwnership ==
  ASSUME TypeOK, OInv, NEW p \in Procs, NEW P, Forget(P), HasOwner(p),
         KeyOf[p] \notin Net48 \/ shuttingDown,
         Alive(p) => p \in signalled', signalled \subseteq signalled',
         UNCHANGED <<startup, abandoned, accepted, reserved, proc, recycling, recycled, shuttingDown>>,
         \A q \in (P \cap Procs) \ {p} : ~ Alive(q) /\ startup[q] # "pending",
         \A r \in Requests : /\ pc'[r] = "consumer" <=> pc[r] = "consumer"
                             /\ pc[r] = "consumer" => on'[r] = on[r]
  PROVE  OInv'
<1>1. recycling' \subseteq recycled' /\ recycled' \subseteq signalled'
  BY DEF OInv, TornDownIsSignalled
<1>2. \A q \in P \cap LiveProcs :
        q \in signalled' /\ (KeyOf[q] \in Net48 => shuttingDown \/ q \in recycled')
  BY DEF LiveProcs
<1>3. \A q \in P \cap Procs : startup[q] # "pending"
  BY DEF HasOwner
<1> QED
  BY <1>1, <1>2, <1>3, ForgetKeepsOwnership

\* What getEngine drops on its way to a new start is dead and published.
LEMMA TheDeadAreForgotten ==
  ASSUME TypeOK, OInv, NEW r \in Requests, MustStart(r)
  PROVE  \A q \in Dead(want[r]) \cap Procs : ~ Alive(q) /\ startup[q] # "pending"
<1>1. pc[r] # "idle" /\ want[r] \in Keys
  BY DEF MustStart, Admitted, Running, PastIdle, TypeOK
<1>2. CASE engines[want[r]] = None
  BY <1>2 DEF MustStart, Dead
<1>3. CASE engines[want[r]] # None
  <2>1. engineStarts[want[r]] = engines[want[r]] /\ HasOwner(engines[want[r]])
    BY <1>1, <1>3 DEF OInv, RegistriesAgree
  <2>2. ~ Alive(engines[want[r]])
    BY <1>3 DEF MustStart, RunningWorker
  <2> QED
    BY <2>1, <2>2 DEF Dead, HasOwner
<1> QED
  BY <1>2, <1>3

\* A consumer leaves its startup, with the worker or without.
LEMMA ConsumerLeaves ==
  ASSUME TypeOK, OInv, NEW r \in Requests, pc[r] = "consumer",
         UNCHANGED <<registry, startup, proc, recycling, recycled, shuttingDown>>, Return(r),
         \/ Finish(r) /\ accepted' = accepted
         \/ /\ HasOwner(on[r]) /\ accepted' = accepted \cup {on[r]}
            /\ reserved' = IF Consumers(on[r]) = {r} THEN reserved \ {on[r]} ELSE reserved
            /\ UNCHANGED <<abandoned, signalled>>
  PROVE  OInv'
<1>1. on[r] \in Procs /\ proc[on[r]] # "unborn" /\ r \in Consumers(on[r])
  BY DEF OInv, ConsumersAgree, Consumers
<1>2. \A q \in Requests : /\ pc'[q] = IF q = r THEN "idle" ELSE pc[q]
                          /\ q # r => on'[q] = on[q]
  BY DEF Return, ReturnAll
<1>3. LiveProcs' = LiveProcs /\ \A p \in Procs : HasOwner(p)' <=> HasOwner(p)
  BY DEF LiveProcs, Alive, HasOwner
<1>4. reserved' = IF Consumers(on[r]) = {r} THEN reserved \ {on[r]} ELSE reserved
  BY DEF Finish
<1>5. abandoned' \subseteq abandoned \cup {on[r]} /\ signalled \subseteq signalled' /\ abandoned' \subseteq abandoned \cup signalled'
  BY DEF Finish, Abandon
<1>6. RegistriesAgree'
  BY <1>3 DEF OInv, RegistriesAgree, registry, HasOwner
<1>7. ConsumersAgree'
  <2> SUFFICES ASSUME NEW q \in Requests, pc'[q] = "consumer"
               PROVE  on'[q] \in Procs /\ proc[on'[q]] # "unborn" /\ (HasOwner(on'[q]) => on'[q] \in reserved')
    BY DEF ConsumersAgree, HasOwner
  <2>1. q # r /\ pc[q] = "consumer" /\ on'[q] = on[q]
    BY <1>2
  <2>2. q \in Consumers(on[q])
    BY <2>1 DEF Consumers
  <2> QED
    BY <1>4, <2>1, <2>2 DEF OInv, ConsumersAgree
<1>8. StartupsAgree'
  <2> SUFFICES ASSUME NEW p \in Procs
               PROVE  /\ startup[p] = "none" <=> proc[p] = "unborn"
                      /\ p \in accepted' => HasOwner(p)
                      /\ p \in abandoned' => proc[p] # "unborn"
                      /\ startup[p] = "pending" =>
                           shuttingDown \/ p \in abandoned' \/ (engineStarts[KeyOf[p]] = p /\ Consumers(p)' # {})
    BY DEF StartupsAgree, HasOwner, registry
  <2>1. (startup[p] = "none" <=> proc[p] = "unborn") /\ (p \in accepted' => HasOwner(p)) /\ (p \in abandoned' => proc[p] # "unborn")
    BY <1>1, <1>5 DEF OInv, StartupsAgree
  <2>2. ASSUME startup[p] = "pending", ~ shuttingDown, p \notin abandoned'
        PROVE  engineStarts[KeyOf[p]] = p /\ Consumers(p)' # {}
    <3>1. p \notin abandoned
      BY <2>2 DEF Finish, Abandon
    <3>2. engineStarts[KeyOf[p]] = p /\ Consumers(p) # {}
      BY <2>2, <3>1 DEF OInv, StartupsAgree
    <3>3. p # on[r] \/ Consumers(p) # {r}
      <4> SUFFICES ASSUME p = on[r], Consumers(p) = {r} PROVE FALSE
        OBVIOUS
      <4>1. ~ HasOwner(p) /\ p \notin accepted
        BY <2>2 DEF HasOwner, OInv, StartupsAgree
      <4>2. Finish(r)
        BY <4>1
      <4> QED
        BY <2>2, <4>1, <4>2 DEF Finish, Abandon
    <3>4. PICK q \in Consumers(p) : q # r
      <4>1. CASE p # on[r]
        BY <3>2, <4>1 DEF Consumers
      <4>2. CASE p = on[r]
        BY <1>1, <3>3, <4>2
      <4> QED
        BY <4>1, <4>2
    <3>5. q \in Consumers(p)'
      BY <1>2, <3>4 DEF Consumers
    <3> QED
      BY <3>2, <3>5
  <2> QED
    BY <2>1, <2>2
<1>9. TornDownIsSignalled'
  BY <1>3, <1>5 DEF OInv, TornDownIsSignalled, registry, HasOwner
<1>10. Net48IsNamed' /\ OneNet48ProcessPerKey'
  BY <1>3 DEF OInv, Net48IsNamed, OneNet48ProcessPerKey, registry
<1> QED
  BY <1>6, <1>7, <1>8, <1>9, <1>10 DEF OInv

\* A call that reaches a start knows its key and waits for no process.
LEMMA RunningCall ==
  ASSUME TypeOK, NEW r \in Requests, Running(r)
  PROVE  want[r] \in Keys /\ pc[r] # "consumer"
BY DEF Running, PastIdle, TypeOK

\* Past the checks of getEngine, every living net48 process of the key is recycled or is what the registries name,
\* and the checks let neither pass.
LEMMA KeyIsFree ==
  ASSUME TypeOK, IInv, OInv, NEW r \in Requests, MustStart(r)
  PROVE  /\ \A p \in Procs : engineStarts[want[r]] = p => ~ Alive(p) /\ HasOwner(p)
         /\ \A p \in Procs : engines[want[r]] = p => ~ Alive(p)
         /\ want[r] \in Net48 => \A p \in LiveProcs : KeyOf[p] # want[r]
<1>1. want[r] \in Keys
  BY RunningCall DEF MustStart, Admitted
<1>2. \A p \in Procs : engines[want[r]] = p => ~ Alive(p)
  BY EngineHostAssumption DEF MustStart, RunningWorker, EngineHostAssumption
<1>3. \A p \in Procs : engineStarts[want[r]] = p => ~ Alive(p) /\ HasOwner(p)
  <2> SUFFICES ASSUME NEW p \in Procs, engineStarts[want[r]] = p PROVE ~ Alive(p) /\ HasOwner(p)
    OBVIOUS
  <2>1. engines[want[r]] # None
    BY EngineHostAssumption DEF MustStart, EngineHostAssumption
  <2> QED
    BY <1>1, <1>2, <2>1 DEF OInv, RegistriesAgree
<1>4. ASSUME want[r] \in Net48, NEW p \in LiveProcs, KeyOf[p] = want[r] PROVE FALSE
  <2>1. ~ shuttingDown /\ p \notin recycled
    BY <1>4 DEF MustStart, Admitted, RecycleBlocked, IInv, BlockedUntilExit
  <2>2. engineStarts[want[r]] = p
    BY <1>4, <2>1 DEF OInv, Net48IsNamed
  <2> QED
    BY <1>3, <2>2 DEF LiveProcs
<1> QED
  BY <1>2, <1>3, <1>4

\* One process is spawned for the key, named by its startup and waited for by the caller.
LEMMA StartKeepsOwnership ==
  ASSUME TypeOK, IInv, OInv, NEW r \in Requests, Start(r)
  PROVE  OInv'
<1>1. PICK p \in Procs : /\ KeyOf[p] = want[r] /\ proc[p] = "unborn"
                         /\ proc' = [proc EXCEPT ![p] = "alive"]
                         /\ startup' = [startup EXCEPT ![p] = "pending"]
                         /\ engines' = [engines EXCEPT ![want[r]] = None]
                         /\ engineStarts' = [engineStarts EXCEPT ![want[r]] = p]
                         /\ pc' = [pc EXCEPT ![r] = "consumer"]
                         /\ on' = [on EXCEPT ![r] = p]
  BY DEF Start
<1>2. want[r] \in Keys /\ pc[r] # "consumer" /\ MustStart(r)
  BY RunningCall DEF Start, MustStart, Admitted
<1>3. UNCHANGED <<abandoned, accepted, reserved, signalled, recycling, recycled, shuttingDown>>
  BY DEF Start
<1>4. LiveProcs' = LiveProcs \cup {p}
  BY <1>1 DEF LiveProcs, Alive, TypeOK
<1>5. startup[p] = "none" /\ p \notin abandoned
  BY <1>1 DEF OInv, StartupsAgree
<1>6. /\ \A q \in Procs : startup'[q] = IF q = p THEN "pending" ELSE startup[q]
      /\ \A q \in Procs : proc'[q] = IF q = p THEN "alive" ELSE proc[q]
      /\ \A k \in Keys : engines'[k] = IF k = want[r] THEN None ELSE engines[k]
      /\ \A k \in Keys : engineStarts'[k] = IF k = want[r] THEN p ELSE engineStarts[k]
      /\ \A q \in Requests : pc'[q] = IF q = r THEN "consumer" ELSE pc[q]
      /\ \A q \in Requests : on'[q] = IF q = r THEN p ELSE on[q]
  BY <1>1 DEF TypeOK
<1>7. RegistriesAgree'
  <2> SUFFICES ASSUME NEW k \in Keys
               PROVE  /\ engines'[k] # None => engineStarts'[k] = engines'[k] /\ startup'[engines'[k]] = "published"
                      /\ engineStarts'[k] # None =>
                           /\ engineStarts'[k] \in Procs /\ KeyOf[engineStarts'[k]] = k
                           /\ proc'[engineStarts'[k]] # "unborn"
                           /\ startup'[engineStarts'[k]] = "published" => engines'[k] = engineStarts'[k]
    BY DEF RegistriesAgree, HasOwner
  <2>1. CASE k = want[r]
    BY <1>1, <1>6, <2>1
  <2>2. CASE k # want[r]
    <3>1. engineStarts'[k] = engineStarts[k] /\ engines'[k] = engines[k]
      BY <1>6, <2>2
    <3>2. engineStarts[k] # None => engineStarts[k] \in Procs \ {p}
      BY <1>1, <2>2 DEF OInv, RegistriesAgree
    <3> QED
      BY <1>6, <3>1, <3>2 DEF OInv, RegistriesAgree, HasOwner
  <2> QED
    BY <2>1, <2>2
<1>8. ConsumersAgree'
  BY <1>1, <1>2, <1>3, <1>6 DEF OInv, ConsumersAgree, HasOwner
<1>9. StartupsAgree'
  <2> SUFFICES ASSUME NEW q \in Procs
               PROVE  /\ startup'[q] = "none" <=> proc'[q] = "unborn"
                      /\ q \in accepted => startup'[q] = "published"
                      /\ q \in abandoned => proc'[q] # "unborn"
                      /\ startup'[q] = "pending" =>
                           shuttingDown \/ q \in abandoned \/ (engineStarts'[KeyOf[q]] = q /\ Consumers(q)' # {})
    BY <1>3 DEF StartupsAgree, HasOwner
  <2>1. CASE q = p
    <3>1. r \in Consumers(p)'
      BY <1>6 DEF Consumers
    <3> QED
      BY <1>1, <1>2, <1>5, <1>6, <2>1, <3>1 DEF OInv, StartupsAgree, HasOwner
  <2>2. CASE q # p
    <3>1. Consumers(q) \subseteq Consumers(q)'
      BY <1>2, <1>6 DEF Consumers
    <3>2. startup[q] = "pending" /\ engineStarts[KeyOf[q]] = q => KeyOf[q] # want[r]
      BY <1>2, KeyIsFree DEF HasOwner
    <3>3. KeyOf[q] \in Keys
      BY EngineHostAssumption DEF EngineHostAssumption
    <3> QED
      BY <1>6, <2>2, <3>1, <3>2, <3>3 DEF OInv, StartupsAgree, HasOwner
  <2> QED
    BY <2>1, <2>2
<1>10. TornDownIsSignalled'
  <2>1. ASSUME NEW q \in LiveProcs
        PROVE  /\ q \in abandoned \/ startup'[q] = "rejected" => q \in signalled
               /\ startup'[q] = "published" => q \in signalled \/ engines'[KeyOf[q]] = q
    <3>1. q # p /\ KeyOf[q] \in Keys
      BY <1>1, EngineHostAssumption DEF LiveProcs, Alive, EngineHostAssumption
    <3>2. engines[KeyOf[q]] = q => KeyOf[q] # want[r]
      BY <1>2, KeyIsFree DEF LiveProcs
    <3> QED
      BY <1>6, <2>1, <3>1, <3>2 DEF OInv, TornDownIsSignalled, LiveProcs, HasOwner
  <2> QED
    BY <1>3, <1>4, <1>5, <1>6, <2>1 DEF OInv, TornDownIsSignalled, HasOwner
<1>11. Net48IsNamed'
  <2>1. ASSUME NEW q \in LiveProcs, KeyOf[q] \in Net48
        PROVE  shuttingDown \/ q \in recycled \/ engineStarts'[KeyOf[q]] = q
    <3>1. KeyOf[q] \in Keys /\ KeyOf[q] # want[r]
      BY <1>2, <2>1, KeyIsFree, EngineHostAssumption DEF LiveProcs, EngineHostAssumption
    <3> QED
      BY <1>6, <2>1, <3>1 DEF OInv, Net48IsNamed
  <2> QED
    BY <1>1, <1>2, <1>3, <1>4, <1>6, <2>1 DEF Net48IsNamed
<1>12. OneNet48ProcessPerKey'
  BY <1>1, <1>2, <1>4, KeyIsFree DEF OInv, OneNet48ProcessPerKey
<1> QED
  BY <1>7, <1>8, <1>9, <1>10, <1>11, <1>12 DEF OInv

\* A call joins the startup of its key, which is not published: a published one is in the registry too.
LEMMA JoinKeepsOwnership ==
  ASSUME TypeOK, OInv, NEW r \in Requests, JoinStart(r)
  PROVE  OInv'
<1>1. want[r] \in Keys /\ pc[r] # "consumer"
  BY RunningCall DEF JoinStart, Admitted
<1>2. LET p == engineStarts[want[r]]
      IN  /\ p \in Procs /\ proc[p] # "unborn" /\ ~ HasOwner(p)
          /\ \A q \in Requests : /\ pc'[q] = IF q = r THEN "consumer" ELSE pc[q]
                                 /\ on'[q] = IF q = r THEN p ELSE on[q]
  BY <1>1 DEF JoinStart, OInv, RegistriesAgree, TypeOK
<1>3. UNCHANGED <<engines, engineStarts, startup, abandoned, accepted, reserved, proc, signalled, recycling, recycled, shuttingDown>>
  BY DEF JoinStart, registry, starts, physical
<1>4. LiveProcs' = LiveProcs /\ \A p \in Procs : Consumers(p) \subseteq Consumers(p)'
  BY <1>1, <1>2, <1>3 DEF LiveProcs, Alive, Consumers
<1>5. RegistriesAgree' /\ TornDownIsSignalled' /\ Net48IsNamed' /\ OneNet48ProcessPerKey'
  BY <1>3, <1>4 DEF OInv, RegistriesAgree, TornDownIsSignalled, Net48IsNamed, OneNet48ProcessPerKey, HasOwner
<1>6. ConsumersAgree'
  BY <1>2, <1>3 DEF OInv, ConsumersAgree, HasOwner
<1>7. StartupsAgree'
  BY <1>3, <1>4 DEF OInv, StartupsAgree, HasOwner
<1> QED
  BY <1>5, <1>6, <1>7 DEF OInv

\* startEngine rejects, or resolves for a startup nobody wants any more: the child is killed.
LEMMA RejectionKeepsOwnership ==
  ASSUME TypeOK, OInv, NEW p \in Procs, startup[p] = "pending", startup' = [startup EXCEPT ![p] = "rejected"], Dispose({p}),
         UNCHANGED <<registry, abandoned, accepted, reserved, proc, recycling, recycled, requests, shuttingDown>>
  PROVE  OInv'
<1>1. \A q \in Procs : startup'[q] = IF q = p THEN "rejected" ELSE startup[q]
  BY DEF TypeOK
<1>2. LiveProcs' = LiveProcs /\ \A q \in Procs : Consumers(q)' = Consumers(q)
  BY DEF LiveProcs, Alive, Consumers, requests
<1>3. signalled \subseteq signalled' /\ (Alive(p) => p \in signalled')
  BY DEF Dispose
<1>4. RegistriesAgree'
  BY <1>1 DEF OInv, RegistriesAgree, HasOwner, registry, TypeOK
<1>5. ConsumersAgree'
  BY <1>1 DEF OInv, ConsumersAgree, HasOwner, requests
<1>6. StartupsAgree'
  BY <1>1, <1>2 DEF OInv, StartupsAgree, HasOwner, registry
<1>7. TornDownIsSignalled'
  BY <1>1, <1>2, <1>3 DEF OInv, TornDownIsSignalled, HasOwner, registry, LiveProcs
<1>8. Net48IsNamed' /\ OneNet48ProcessPerKey'
  BY <1>2 DEF OInv, Net48IsNamed, OneNet48ProcessPerKey, registry
<1> QED
  BY <1>4, <1>5, <1>6, <1>7, <1>8 DEF OInv

\* startEngine resolves for a startup that is still wanted: its worker takes the free slot of its key.
LEMMA PublicationKeepsOwnership ==
  ASSUME TypeOK, OInv, NEW p \in Procs, startup[p] = "pending", p \notin abandoned, ~ shuttingDown,
         startup' = [startup EXCEPT ![p] = "published"], reserved' = reserved \cup {p},
         engines' = [engines EXCEPT ![KeyOf[p]] = p],
         UNCHANGED <<engineStarts, abandoned, accepted, proc, signalled, recycling, recycled, requests, shuttingDown>>
  PROVE  OInv'
<1>1. \A q \in Procs : startup'[q] = IF q = p THEN "published" ELSE startup[q]
  BY DEF TypeOK
<1>2. LiveProcs' = LiveProcs /\ \A q \in Procs : Consumers(q)' = Consumers(q)
  BY DEF LiveProcs, Alive, Consumers, requests
<1>3. KeyOf[p] \in Keys /\ engineStarts[KeyOf[p]] = p /\ p # None
  BY EngineHostAssumption DEF OInv, StartupsAgree, EngineHostAssumption
<1>4. \A k \in Keys : engines'[k] = IF k = KeyOf[p] THEN p ELSE engines[k]
  BY DEF TypeOK
<1>5. RegistriesAgree'
  <2> SUFFICES ASSUME NEW k \in Keys
               PROVE  /\ engines'[k] # None => engineStarts[k] = engines'[k] /\ startup'[engines'[k]] = "published"
                      /\ engineStarts[k] # None =>
                           /\ engineStarts[k] \in Procs /\ KeyOf[engineStarts[k]] = k
                           /\ proc[engineStarts[k]] # "unborn"
                           /\ startup'[engineStarts[k]] = "published" => engines'[k] = engineStarts[k]
    BY DEF RegistriesAgree, HasOwner
  <2>1. CASE k = KeyOf[p]
    BY <1>1, <1>3, <1>4, <2>1 DEF OInv, RegistriesAgree
  <2>2. CASE k # KeyOf[p]
    BY <1>1, <1>4, <2>2 DEF OInv, RegistriesAgree, HasOwner
  <2> QED
    BY <2>1, <2>2
<1>6. ConsumersAgree'
  BY <1>1 DEF OInv, ConsumersAgree, HasOwner, requests
<1>7. StartupsAgree'
  BY <1>1, <1>2 DEF OInv, StartupsAgree, HasOwner
<1>8. TornDownIsSignalled'
  <2>1. \A q \in LiveProcs : HasOwner(q) /\ engines[KeyOf[q]] = q => engines'[KeyOf[q]] = q
    BY <1>3, <1>4, EngineHostAssumption DEF OInv, RegistriesAgree, EngineHostAssumption, LiveProcs
  <2> QED
    BY <1>1, <1>2, <1>3, <1>4, <2>1 DEF OInv, TornDownIsSignalled, HasOwner, LiveProcs
<1>9. Net48IsNamed' /\ OneNet48ProcessPerKey'
  BY <1>2 DEF OInv, Net48IsNamed, OneNet48ProcessPerKey
<1> QED
  BY <1>5, <1>6, <1>7, <1>8, <1>9 DEF OInv

\* A process exits: only a published one leaves the registries with it.
LEMMA ExitKeepsOwnership ==
  ASSUME TypeOK, OInv, NEW p \in Procs, Exit(p)
  PROVE  OInv'
<1>1. /\ \A q \in Procs : proc'[q] = IF q = p THEN "exited" ELSE proc[q]
      /\ LiveProcs' = LiveProcs \ {p}
  BY DEF Exit, TypeOK, LiveProcs, Alive
<1>2. proc[p] # "unborn"
  BY DEF Exit, Alive
<1>3. UNCHANGED <<startup, abandoned, accepted, reserved, signalled, recycling, recycled, requests, shuttingDown>>
  BY DEF Exit, starts
<1>4. \A q \in Procs : Consumers(q)' = Consumers(q)
  BY <1>3 DEF Consumers, requests
<1>5. PICK P \in SUBSET {p} :
        /\ \A k \in Keys : /\ engines'[k] = IF engines[k] \in P THEN None ELSE engines[k]
                           /\ engineStarts'[k] = IF engineStarts[k] \in P THEN None ELSE engineStarts[k]
        /\ P # {} => HasOwner(p)
  <2>1. CASE HasOwner(p) /\ p \in Residents
    BY <2>1 DEF Exit, Forget, Without
  <2>2. CASE ~ (HasOwner(p) /\ p \in Residents)
    BY <2>2 DEF Exit, registry
  <2> QED
    BY <2>1, <2>2
<1>6. RegistriesAgree'
  BY <1>1, <1>2, <1>3, <1>5 DEF OInv, RegistriesAgree, HasOwner
<1>7. ConsumersAgree'
  BY <1>1, <1>2, <1>3 DEF OInv, ConsumersAgree, HasOwner, requests
<1>8. StartupsAgree'
  <2> SUFFICES ASSUME NEW q \in Procs
               PROVE  /\ startup[q] = "none" <=> proc'[q] = "unborn"
                      /\ q \in accepted => HasOwner(q)
                      /\ q \in abandoned => proc'[q] # "unborn"
                      /\ startup[q] = "pending" =>
                           shuttingDown \/ q \in abandoned \/ (engineStarts'[KeyOf[q]] = q /\ Consumers(q) # {})
    BY <1>3, <1>4 DEF StartupsAgree, HasOwner
  <2>1. startup[q] = "pending" /\ engineStarts[KeyOf[q]] = q => engineStarts'[KeyOf[q]] = q
    BY <1>5, EngineHostAssumption DEF EngineHostAssumption, HasOwner
  <2> QED
    BY <1>1, <1>2, <2>1 DEF OInv, StartupsAgree, HasOwner
<1>9. TornDownIsSignalled'
  BY <1>1, <1>3, <1>5, EngineHostAssumption DEF OInv, TornDownIsSignalled, HasOwner, EngineHostAssumption, LiveProcs
<1>10. Net48IsNamed' /\ OneNet48ProcessPerKey'
  BY <1>1, <1>3, <1>5, EngineHostAssumption DEF OInv, Net48IsNamed, OneNet48ProcessPerKey, EngineHostAssumption, LiveProcs
<1> QED
  BY <1>6, <1>7, <1>8, <1>9, <1>10 DEF OInv

\* The starts that are pending when everything is stopped are processes, and there are none but in the registry.
LEMMA PendingStartsAreSpawned ==
  ASSUME OInv
  PROVE  \A p \in PendingStarts : p \in Procs /\ proc[p] # "unborn"
BY EngineHostAssumption DEF PendingStarts, OInv, RegistriesAgree, EngineHostAssumption

\* stopMappedEngines abandons every pending start.
LEMMA StopKeepsOwnership ==
  ASSUME TypeOK, OInv, NEW reason \in StopReasons, Stop(reason)
  PROVE  OInv'
<1>1. UNCHANGED <<registry, startup, accepted, reserved, proc, recycling, recycled, requests, shuttingDown>>
      /\ Abandon(PendingStarts)
  BY DEF Stop
<1>2. /\ abandoned \subseteq abandoned' /\ abandoned' \subseteq abandoned \cup PendingStarts
      /\ signalled \subseteq signalled' /\ abandoned' \subseteq abandoned \cup signalled'
  BY <1>1 DEF Abandon
<1>3. LiveProcs' = LiveProcs /\ \A p \in Procs : Consumers(p)' = Consumers(p)
  BY <1>1 DEF LiveProcs, Alive, Consumers, requests
<1>4. RegistriesAgree' /\ ConsumersAgree' /\ Net48IsNamed' /\ OneNet48ProcessPerKey'
  BY <1>1, <1>3 DEF OInv, RegistriesAgree, ConsumersAgree, Net48IsNamed, OneNet48ProcessPerKey, HasOwner, registry, requests
<1>5. StartupsAgree'
  BY <1>1, <1>2, <1>3, PendingStartsAreSpawned DEF OInv, StartupsAgree, HasOwner, registry
<1>6. TornDownIsSignalled'
  BY <1>1, <1>2, <1>3 DEF OInv, TornDownIsSignalled, HasOwner, registry
<1> QED
  BY <1>4, <1>5, <1>6 DEF OInv

\* deactivate() empties the registries and signals whatever lives.
LEMMA DeactivateKeepsOwnership ==
  ASSUME TypeOK, OInv, Deactivate
  PROVE  OInv'
<1>1. UNCHANGED <<startup, accepted, reserved, proc, recycling, recycled, requests>> /\ shuttingDown'
  BY DEF Deactivate
<1>2. LiveProcs' = LiveProcs /\ LiveProcs \subseteq signalled' /\ signalled \subseteq signalled'
  BY <1>1 DEF Deactivate, LiveProcs, Alive
<1>3. abandoned' \subseteq abandoned \cup PendingStarts
  BY DEF Deactivate
<1>4. RegistriesAgree'
  BY DEF Deactivate, RegistriesAgree
<1>5. ConsumersAgree' /\ OneNet48ProcessPerKey' /\ Net48IsNamed'
  BY <1>1, <1>2 DEF OInv, ConsumersAgree, OneNet48ProcessPerKey, Net48IsNamed, HasOwner, requests
<1>6. StartupsAgree'
  BY <1>1, <1>3, PendingStartsAreSpawned DEF OInv, StartupsAgree, HasOwner
<1>7. TornDownIsSignalled'
  BY <1>1, <1>2 DEF OInv, TornDownIsSignalled
<1> QED
  BY <1>4, <1>5, <1>6, <1>7 DEF OInv

\* The steps of getEngine keep it.
LEMMA GetEngineKeepsOwnership ==
  ASSUME TypeOK, IInv, OInv, NEW r \in Requests, GetEngine(r)
  PROVE  OInv'
<1>1. CASE Start(r)
  BY <1>1, StartKeepsOwnership
<1>2. CASE JoinStart(r)
  BY <1>2, JoinKeepsOwnership
<1>3. CASE \/ AwaitIdle(r) \/ AwaitRecycles(r) \/ Refuse(r) \/ AwaitCleanup(r) \/ UseRunning(r)
  <2>1. pc[r] # "consumer" /\ pc'[r] # "consumer" /\ \A q \in Requests \ {r} : pc'[q] = pc[q] /\ on'[q] = on[q]
    BY <1>3, RunningCall
    DEF AwaitIdle, AwaitRecycles, PastIdle, Refuse, AwaitCleanup, UseRunning, Admitted, Return, ReturnAll, TypeOK
  <2>2. UNCHANGED <<registry, startup, abandoned, accepted, reserved, physical, shuttingDown>>
    BY <1>3 DEF AwaitIdle, AwaitRecycles, Refuse, AwaitCleanup, UseRunning, starts
  <2> QED
    BY <2>1, <2>2, QuietStepKeepsOwnership DEF physical
<1>4. ASSUME Evict(r) \/ RefuseOrAwaitAdmission(r)
      PROVE  /\ \A q \in Dead(want[r]) \cap Procs : ~ Alive(q) /\ startup[q] # "pending"
             /\ \A q \in Requests : /\ pc'[q] = "consumer" <=> pc[q] = "consumer"
                                    /\ pc[q] = "consumer" => on'[q] = on[q]
             /\ UNCHANGED <<startup, abandoned, accepted, reserved, proc, shuttingDown>>
  <2>1. MustStart(r) /\ pc[r] # "consumer"
    BY <1>4, RunningCall DEF Evict, RefuseOrAwaitAdmission, MustStart, Admitted
  <2>2. pc'[r] # "consumer" /\ \A q \in Requests \ {r} : pc'[q] = pc[q] /\ on'[q] = on[q]
    <3>1. CASE Evict(r)
      <4>1. PICK p \in Evictable(r) : pc' = [pc EXCEPT ![r] = "budgetWait"] /\ on' = [on EXCEPT ![r] = p]
        BY <3>1 DEF Evict
      <4> QED
        BY <4>1 DEF TypeOK
    <3>2. CASE RefuseOrAwaitAdmission(r)
      BY <3>2 DEF RefuseOrAwaitAdmission, Return, ReturnAll, TypeOK
    <3> QED
      BY <1>4, <3>1, <3>2
  <2>3. UNCHANGED <<startup, abandoned, accepted, reserved, proc, shuttingDown>>
    BY <1>4 DEF Evict, RefuseOrAwaitAdmission, starts, physical
  <2> QED
    BY <2>1, <2>2, <2>3, TheDeadAreForgotten
<1>5. CASE Evict(r)
  <2>1. PICK p \in Evictable(r) :
          IF KeyOf[p] \in Net48
          THEN Recycle(p, Dead(want[r]))
          ELSE /\ Forget({p} \cup Dead(want[r]))
               /\ Dispose({p})
               /\ UNCHANGED <<recycling, blocked, recycled>>
    BY <1>5 DEF Evict
  <2>2. p \in Procs /\ HasOwner(p)
    BY EngineHostAssumption DEF Evictable, Victims, Residents, OInv, RegistriesAgree, EngineHostAssumption
  <2>3. CASE KeyOf[p] \in Net48
    BY <1>4, <1>5, <2>1, <2>2, <2>3, RecycleKeepsOwnership
  <2>4. CASE KeyOf[p] \notin Net48
    <3>1. \A q \in (({p} \cup Dead(want[r])) \cap Procs) \ {p} : ~ Alive(q) /\ startup[q] # "pending"
      BY <1>4, <1>5
    <3>2. (Alive(p) => p \in signalled') /\ signalled \subseteq signalled'
      BY <2>1, <2>4 DEF Dispose
    <3> QED
      BY <1>4, <1>5, <2>1, <2>2, <2>4, <3>1, <3>2, DisposeKeepsOwnership
  <2> QED
    BY <2>3, <2>4
<1>6. CASE RefuseOrAwaitAdmission(r)
  <2>1. Forget(Dead(want[r])) /\ UNCHANGED physical
    BY <1>6 DEF RefuseOrAwaitAdmission
  <2>2. \A q \in Dead(want[r]) \cap LiveProcs : FALSE
    BY <1>4, <1>6 DEF LiveProcs
  <2>3. recycling' \subseteq recycled' /\ recycled' \subseteq signalled'
    BY <2>1 DEF OInv, TornDownIsSignalled, physical
  <2> QED
    BY <1>4, <1>6, <2>1, <2>2, <2>3, ForgetKeepsOwnership DEF physical
<1> QED
  BY <1>1, <1>2, <1>3, <1>5, <1>6 DEF GetEngine

\* The other steps of a workflow keep it.
LEMMA WorkflowKeepsOwnership ==
  ASSUME TypeOK, OInv, NEW r \in Requests,
         \/ AdmissionOpens(r) \/ Expire(r) \/ BudgetWaitOver(r) \/ Handoff(r) \/ Close(r) \/ Abort(r)
         \/ \E k \in Keys : Call(r, k)
  PROVE  OInv'
<1>1. CASE Handoff(r)
  BY <1>1, ConsumerLeaves DEF Handoff
<1>2. CASE Abort(r) /\ pc[r] = "consumer"
  BY <1>2, ConsumerLeaves DEF Abort
<1>3. CASE \/ AdmissionOpens(r) \/ Expire(r) \/ BudgetWaitOver(r) \/ Close(r)
           \/ (Abort(r) /\ pc[r] # "consumer")
           \/ \E k \in Keys : Call(r, k)
  <2>1. \A q \in Requests : /\ pc'[q] = "consumer" <=> pc[q] = "consumer"
                            /\ pc[q] = "consumer" => on'[q] = on[q]
    <3>1. CASE AdmissionOpens(r) \/ Expire(r) \/ Close(r)
      BY <3>1 DEF AdmissionOpens, Expire, Close, Return, ReturnAll, StartOver
    <3>2. CASE BudgetWaitOver(r)
      BY <3>2 DEF BudgetWaitOver, Return, ReturnAll, StartOver
    <3>3. CASE Abort(r) /\ pc[r] # "consumer"
      BY <3>3 DEF Abort, Return, ReturnAll
    <3>4. ASSUME NEW k \in Keys, Call(r, k)
          PROVE  pc' = [pc EXCEPT ![r] = "enter"] /\ pc[r] # "consumer" /\ on' = on
      BY <3>4 DEF Call
    <3> QED
      BY <1>3, <3>1, <3>2, <3>3, <3>4 DEF TypeOK
  <2>2. UNCHANGED <<registry, startup, abandoned, accepted, reserved, proc, signalled, recycling, recycled, shuttingDown>>
    BY <1>3 DEF AdmissionOpens, Expire, BudgetWaitOver, Close, Abort, Call, starts, physical
  <2> QED
    BY <2>1, <2>2, QuietStepKeepsOwnership
<1> QED
  BY <1>1, <1>2, <1>3

\* The steps of a startup, a process and a recycle keep it.
LEMMA ProcessKeepsOwnership ==
  ASSUME TypeOK, OInv, NEW p \in Procs,
         \/ StartSucceeds(p) \/ StartFails(p) \/ CleanupConfirmed(p) \/ CleanupTimesOut(p)
         \/ Exit(p) \/ ConnectionCloses(p) \/ SupervisorRecycles(p) \/ BuildRecycle(p) \/ RecycleReturns(p)
  PROVE  OInv'
<1>1. CASE StartSucceeds(p)
  <2>1. startup[p] = "pending" /\ UNCHANGED <<engineStarts, abandoned, accepted, proc, recycling, recycled, requests, shuttingDown>>
    BY <1>1 DEF StartSucceeds
  <2>2. CASE p \in abandoned \/ shuttingDown
    BY <1>1, <2>1, <2>2, RejectionKeepsOwnership DEF StartSucceeds, registry
  <2>3. CASE p \notin abandoned /\ ~ shuttingDown
    BY <1>1, <2>1, <2>3, PublicationKeepsOwnership DEF StartSucceeds
  <2> QED
    BY <2>2, <2>3
<1>2. CASE StartFails(p)
  BY <1>2, RejectionKeepsOwnership DEF StartFails
<1>3. CASE CleanupConfirmed(p)
  <2>1. /\ Forget({p}) /\ ~ Alive(p) /\ startup[p] # "pending"
        /\ UNCHANGED <<startup, abandoned, accepted, reserved, proc, signalled, recycling, recycled, shuttingDown>>
    BY <1>3 DEF CleanupConfirmed, Settled, physical
  <2>2. \A q \in Requests : /\ pc'[q] = "consumer" <=> pc[q] = "consumer"
                            /\ pc[q] = "consumer" => on'[q] = on[q]
    BY <1>3 DEF CleanupConfirmed, StartOver, Waiters
  <2>3. recycling' \subseteq recycled' /\ recycled' \subseteq signalled'
    BY <2>1 DEF OInv, TornDownIsSignalled
  <2> QED
    BY <2>1, <2>2, <2>3, ForgetKeepsOwnership DEF LiveProcs
<1>4. CASE CleanupTimesOut(p) \/ SupervisorRecycles(p) \/ RecycleReturns(p)
  <2>1. \A q \in Requests : /\ pc'[q] = "consumer" <=> pc[q] = "consumer"
                            /\ pc[q] = "consumer" => on'[q] = on[q]
    BY <1>4 DEF CleanupTimesOut, SupervisorRecycles, RecycleReturns, ReturnAll, Waiters, requests
  <2>2. /\ UNCHANGED <<registry, startup, abandoned, accepted, reserved, proc, recycled, shuttingDown>>
        /\ signalled \subseteq signalled' /\ recycling' \subseteq recycling
    BY <1>4 DEF CleanupTimesOut, SupervisorRecycles, RecycleReturns, Dispose, starts
  <2> QED
    BY <2>1, <2>2, QuietStepKeepsOwnership
<1>5. CASE Exit(p)
  BY <1>5, ExitKeepsOwnership
<1>6. CASE ConnectionCloses(p)
  <2>1. HasOwner(p) /\ UNCHANGED <<startup, abandoned, accepted, reserved, proc, requests, shuttingDown>>
    BY <1>6 DEF ConnectionCloses, starts
  <2>2. CASE Recycle(p, {})
    BY <2>1, <2>2, RecycleKeepsOwnership DEF requests
  <2>3. CASE /\ p \in Residents /\ (KeyOf[p] \notin Net48 \/ shuttingDown)
             /\ Forget({p}) /\ Dispose({p}) /\ UNCHANGED <<recycling, blocked, recycled>>
    <3>1. (Alive(p) => p \in signalled') /\ signalled \subseteq signalled'
      BY <2>3 DEF Dispose
    <3> QED
      BY <2>1, <2>3, <3>1, DisposeKeepsOwnership DEF requests
  <2>4. CASE UNCHANGED registry /\ Dispose({p}) /\ UNCHANGED <<recycling, blocked, recycled>>
    BY <2>1, <2>4, QuietStepKeepsOwnership DEF Dispose, requests
  <2> QED
    BY <1>6, <2>2, <2>3, <2>4 DEF ConnectionCloses
<1>7. CASE BuildRecycle(p)
  BY <1>7, RecycleKeepsOwnership DEF BuildRecycle, starts, requests
<1> QED
  BY <1>1, <1>2, <1>3, <1>4, <1>5, <1>6, <1>7

\* The steps that stop every engine keep it.
LEMMA StopsKeepOwnership ==
  ASSUME TypeOK, OInv, LeftIsPublished,
         \/ \E reason \in StopReasons : Stop(reason)
         \/ \E p \in Procs : StopNext(p)
         \/ StopWaited \/ StopConfirms \/ StopReturns \/ Deactivate
  PROVE  OInv'
<1>1. ASSUME NEW p \in Procs, StopNext(p) PROVE OInv'
  <2>1. HasOwner(p) /\ UNCHANGED <<startup, abandoned, accepted, reserved, proc, requests, shuttingDown>>
    BY <1>1 DEF StopNext, starts, LeftIsPublished
  <2>2. CASE KeyOf[p] \in Net48
    BY <1>1, <2>1, <2>2, RecycleKeepsOwnership DEF StopNext, requests
  <2>3. CASE KeyOf[p] \notin Net48
    <3>1. Forget({p}) /\ (Alive(p) => p \in signalled') /\ signalled \subseteq signalled'
          /\ UNCHANGED <<recycling, recycled>>
      BY <1>1, <2>3 DEF StopNext, Dispose
    <3> QED
      BY <2>1, <2>3, <3>1, DisposeKeepsOwnership DEF requests
  <2> QED
    BY <2>2, <2>3
<1>2. CASE StopWaited \/ StopConfirms \/ StopReturns
  <2>1. \A q \in Requests : /\ pc'[q] = "consumer" <=> pc[q] = "consumer"
                            /\ pc[q] = "consumer" => on'[q] = on[q]
    BY <1>2 DEF StopWaited, StopConfirms, StopReturns, requests
  <2>2. UNCHANGED <<registry, startup, abandoned, accepted, reserved, physical, shuttingDown>>
    BY <1>2 DEF StopWaited, StopConfirms, StopReturns, starts
  <2> QED
    BY <2>1, <2>2, QuietStepKeepsOwnership DEF physical
<1> QED
  BY <1>1, <1>2, StopKeepsOwnership, DeactivateKeepsOwnership

\* A published worker stays published, and stopMappedEngines works through published ones.
LEMMA StoppedWorkersStayPublished ==
  ASSUME TypeOK, OInv, LeftIsPublished, [Next]_vars
  PROVE  LeftIsPublished'
<1>1. CASE UNCHANGED <<startup, stop>>
  BY <1>1 DEF HasOwner, LeftIsPublished
<1>2. ASSUME NEW r \in Requests, GetEngine(r) PROVE LeftIsPublished'
  <2>1. CASE Start(r)
    <3>1. PICK p \in Procs : proc[p] = "unborn" /\ startup' = [startup EXCEPT ![p] = "pending"]
      BY <2>1 DEF Start
    <3> QED
      BY <2>1, <3>1 DEF Start, HasOwner, TypeOK, OInv, StartupsAgree, LeftIsPublished
  <2>2. CASE ~ Start(r)
    BY <1>1, <1>2, <2>2 DEF GetEngine, AwaitIdle, AwaitRecycles, Refuse, AwaitCleanup, UseRunning, JoinStart, Evict,
                            RefuseOrAwaitAdmission, starts
  <2> QED
    BY <2>1, <2>2
<1>3. ASSUME NEW r \in Requests,
             \/ AdmissionOpens(r) \/ Expire(r) \/ BudgetWaitOver(r) \/ Handoff(r) \/ Close(r) \/ Abort(r)
             \/ \E k \in Keys : Call(r, k)
      PROVE  LeftIsPublished'
  BY <1>1, <1>3 DEF AdmissionOpens, Expire, BudgetWaitOver, Handoff, Close, Abort, Call, starts
<1>4. ASSUME NEW p \in Procs, StartSucceeds(p) \/ StartFails(p) PROVE LeftIsPublished'
  <2>1. startup[p] = "pending" /\ stop' = stop /\ \A q \in Procs \ {p} : startup'[q] = startup[q]
    BY <1>4 DEF StartSucceeds, StartFails, TypeOK
  <2> QED
    BY <2>1 DEF HasOwner, TypeOK, LeftIsPublished
<1>5. ASSUME NEW p \in Procs,
             \/ CleanupConfirmed(p) \/ CleanupTimesOut(p) \/ Exit(p) \/ ConnectionCloses(p)
             \/ SupervisorRecycles(p) \/ BuildRecycle(p)
      PROVE  LeftIsPublished'
  BY <1>1, <1>5 DEF CleanupConfirmed, CleanupTimesOut, Exit, ConnectionCloses, SupervisorRecycles, BuildRecycle, starts
<1>6. ASSUME startup' = startup, stop'.left \subseteq stop.left PROVE LeftIsPublished'
  BY <1>6 DEF HasOwner, LeftIsPublished
<1>7. ASSUME NEW p \in Procs, RecycleReturns(p) \/ StopNext(p) PROVE LeftIsPublished'
  <2>1. startup' = startup
    BY <1>7 DEF RecycleReturns, StopNext, starts
  <2>2. CASE RecycleReturns(p)
    BY <1>6, <2>1, <2>2 DEF RecycleReturns, TypeOK
  <2>3. CASE StopNext(p)
    BY <1>6, <2>1, <2>3 DEF StopNext, TypeOK
  <2> QED
    BY <1>7, <2>2, <2>3
<1>8. ASSUME NEW reason \in StopReasons, Stop(reason) PROVE LeftIsPublished'
  <2>1. \A p \in stop'.left : p \in Residents
    BY <1>8 DEF Stop
  <2> QED
    BY <1>8, <2>1, EngineHostAssumption
    DEF Stop, Residents, OInv, RegistriesAgree, HasOwner, LeftIsPublished, EngineHostAssumption
<1>9. CASE StopWaited \/ StopConfirms \/ StopReturns
  BY <1>6, <1>9 DEF StopWaited, StopConfirms, StopReturns, NoStop, starts, TypeOK
<1>10. CASE Deactivate
  BY <1>1, <1>10 DEF Deactivate
<1>11. CASE UNCHANGED vars
  BY <1>1, <1>11 DEF vars, starts
<1> QED
  BY <1>2, <1>3, <1>4, <1>5, <1>7, <1>8, <1>9, <1>10, <1>11 DEF Next

\* Ownership is invariant, whatever starts, fails, is cancelled, evicted, recycled or stopped.
THEOREM OwnershipInvariant == Spec => [](OInv /\ LeftIsPublished)
<1>1. Init => OInv /\ LeftIsPublished
  BY DEF Init, NoStop, OInv, LeftIsPublished, RegistriesAgree, ConsumersAgree, StartupsAgree, TornDownIsSignalled,
         Net48IsNamed, OneNet48ProcessPerKey, LiveProcs, Alive
<1>2. TypeOK /\ IInv /\ (OInv /\ LeftIsPublished) /\ [Next]_vars => (OInv /\ LeftIsPublished)'
  <2> SUFFICES ASSUME TypeOK, IInv, OInv, LeftIsPublished, [Next]_vars PROVE OInv'
    BY StoppedWorkersStayPublished
  <2>1. CASE UNCHANGED vars
    BY <2>1, QuietStepKeepsOwnership DEF vars, starts, physical, requests
  <2> QED
    BY <2>1, GetEngineKeepsOwnership, WorkflowKeepsOwnership, ProcessKeepsOwnership, StopsKeepOwnership DEF Next
<1> QED
  BY <1>1, <1>2, TypeCorrect, ProcessesInvariant, PTL DEF Spec

\* extension.ts:1712 "could each spawn an engine and leak one": a living process nobody has told to go is a worker the
\* registry names or a startup somebody waits for.
THEOREM EveryProcessIsOwned == Spec => []NoProcessIsLost
<1>1. TypeOK /\ IInv /\ OInv => NoProcessIsLost
  <2> SUFFICES ASSUME TypeOK, IInv, OInv, NEW p \in LiveProcs \ signalled
               PROVE  \/ HasOwner(p) /\ engines[KeyOf[p]] = p
                      \/ startup[p] = "pending" /\ p \notin abandoned /\ engineStarts[KeyOf[p]] = p /\ Consumers(p) # {}
    BY DEF NoProcessIsLost
  <2>1. p \in Procs /\ proc[p] # "unborn" /\ ~ shuttingDown
    BY DEF LiveProcs, Alive, IInv, ShutdownLeavesNoProcess
  <2>2. startup[p] \in {"pending", "published"} /\ p \notin abandoned
    BY <2>1 DEF TypeOK, OInv, StartupsAgree, TornDownIsSignalled
  <2> QED
    BY <2>1, <2>2 DEF OInv, StartupsAgree, TornDownIsSignalled, HasOwner
<1> QED
  BY <1>1, TypeCorrect, ProcessesInvariant, OwnershipInvariant, PTL

\* extension.ts:1722-1729: no interleaving of closed pipes, recycles, evictions and starts gives a project a second
\* living net48 process, signalled or not.
THEOREM Net48ProcessesAreUnique == Spec => []OneNet48ProcessPerKey
<1>1. OInv => OneNet48ProcessPerKey
  BY DEF OInv
<1> QED
  BY <1>1, OwnershipInvariant, PTL

\* A call that comes to wait for a victim's exit has just evicted it.
LEMMA OnlyEvictionWaits ==
  ASSUME TypeOK, Next, NEW r \in Requests, pc[r] # "budgetWait", pc'[r] = "budgetWait"
  PROVE  Evict(r)
<1>1. \A q \in Requests :
        ~ AwaitIdle(q) /\ ~ AwaitRecycles(q) /\ ~ AwaitCleanup(q) /\ ~ JoinStart(q)
  BY DEF AwaitIdle, AwaitRecycles, AwaitCleanup, JoinStart, TypeOK
<1>2. \A q \in Requests :
        ~ Refuse(q) /\ ~ UseRunning(q) /\ ~ AdmissionOpens(q) /\ ~ Expire(q) /\ ~ BudgetWaitOver(q)
        /\ ~ Handoff(q) /\ ~ Close(q) /\ ~ Abort(q)
  BY DEF Refuse, UseRunning, AdmissionOpens, Expire, BudgetWaitOver, Handoff, Close, Abort, Return, ReturnAll, StartOver
<1>3. \A q \in Requests : ~ RefuseOrAwaitAdmission(q) /\ \A k \in Keys : ~ Call(q, k)
  BY DEF RefuseOrAwaitAdmission, Call, Return, ReturnAll, TypeOK
<1>4. \A q \in Requests : ~ Start(q)
  BY DEF Start, TypeOK
<1>5. \A p \in Procs :
        /\ ~ StartSucceeds(p) /\ ~ StartFails(p) /\ ~ CleanupConfirmed(p) /\ ~ CleanupTimesOut(p)
        /\ ~ Exit(p) /\ ~ ConnectionCloses(p) /\ ~ SupervisorRecycles(p) /\ ~ BuildRecycle(p)
        /\ ~ RecycleReturns(p) /\ ~ StopNext(p)
  BY DEF StartSucceeds, StartFails, CleanupConfirmed, CleanupTimesOut, Exit, ConnectionCloses, SupervisorRecycles,
         BuildRecycle, RecycleReturns, StopNext, requests, StartOver, ReturnAll
<1>6. /\ \A reason \in StopReasons : ~ Stop(reason)
      /\ ~ StopWaited /\ ~ StopConfirms /\ ~ StopReturns /\ ~ Deactivate
  BY DEF Stop, StopWaited, StopConfirms, StopReturns, Deactivate, requests
<1>7. PICK q \in Requests : Evict(q)
  BY <1>1, <1>2, <1>3, <1>4, <1>5, <1>6 DEF Next, GetEngine
<1>8. pc' = [pc EXCEPT ![q] = "budgetWait"]
  BY <1>7 DEF Evict
<1> QED
  BY <1>7, <1>8 DEF TypeOK

\* selectEngineForBudgetRecycle: a worker handed to a workflow, or about to be, is never the victim, because a published
\* startup keeps its reservation for as long as it has a consumer.
THEOREM UsersAreSpared == Spec => BudgetSparesUsers
<1> DEFINE Spared == \A r \in Requests : pc[r] # "budgetWait" /\ pc'[r] = "budgetWait"
                       => Consumers(on'[r]) = {} /\ \A q \in Requests : on'[r] \notin held[q]
<1>1. TypeOK /\ OInv /\ [Next]_vars => [Spared]_vars
  <2> SUFFICES ASSUME TypeOK, OInv, Next, NEW r \in Requests, pc[r] # "budgetWait", pc'[r] = "budgetWait"
               PROVE  Consumers(on'[r]) = {} /\ \A q \in Requests : on'[r] \notin held[q]
    BY DEF Spared
  <2>1. PICK p \in Evictable(r) : on' = [on EXCEPT ![r] = p]
    BY OnlyEvictionWaits DEF Evict
  <2>2. on'[r] = p /\ HasOwner(p) /\ ~ Leased(p)
    BY <2>1, EngineHostAssumption
    DEF Evictable, Victims, Residents, OInv, RegistriesAgree, TypeOK, EngineHostAssumption
  <2>3. \A q \in Requests : ~ (pc[q] = "consumer" /\ on[q] = p)
    BY <2>2 DEF OInv, ConsumersAgree, Leased
  <2> QED
    BY <2>2, <2>3 DEF Consumers, Leased
<1> QED
  BY <1>1, TypeCorrect, OwnershipInvariant, PTL DEF Spec, BudgetSparesUsers

==============================================================================
