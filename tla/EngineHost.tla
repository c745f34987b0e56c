----------------------------- MODULE EngineHost -----------------------------
(***************************************************************************)
(* Who owns an engine process: getEngine of extension.ts, the shared       *)
(* startup it hands its callers to (engineStartup.ts), the eviction of idle*)
(* processes, the recycle of .NET Framework processes, the stop command    *)
(* and deactivate().                                                       *)
(*                                                                         *)
(* A member of Procs is one operating-system process with everything the   *)
(* host keeps about it: its SharedEngineStartup, its handle and its        *)
(* supervisor.  A member of Requests is one workflow scope                 *)
(* (withEngineRequestContext): it calls getEngine any number of times, for *)
(* any key, and keeps what it got under a lease until its scope closes.    *)
(*                                                                         *)
(* One action is one stretch of host code between two awaits.  A promise   *)
(* that settles and the callback that consumes it are two actions: another *)
(* continuation may run in between.                                        *)
(***************************************************************************)
EXTENDS Naturals, FiniteSets

CONSTANTS
  Keys,         \* worker keys (workerKeyId): project, configuration, graph
  Net48,        \* the keys whose runtime is net48; the others are modern
  Procs,        \* every process the behaviour may spawn: the bound on spawns
  KeyOf,        \* the key each process is spawned for
  Requests,     \* workflow scopes
  StopReasons,  \* why every engine may be stopped: "idle" (the timer), "manualStop"
  ProcessLimit, \* workers.maximumResidentProcesses
  None          \* an empty slot of a map

ASSUME EngineHostAssumption ==
  /\ Net48 \subseteq Keys
  /\ KeyOf \in [Procs -> Keys]
  /\ None \notin Procs \cup Keys
  /\ StopReasons \subseteq {"idle", "manualStop"}
  /\ ProcessLimit \in Nat \ {0}

VARIABLES
  engines, engineStarts,       \* the two registries, one slot per key
  proc,                        \* what the operating system knows of a process
  startup,                     \* the startup promise of its SharedEngineStartup
  cleanup,                     \* ... and its cleanup promise
  abandoned, accepted, reserved, \* ... and its flags
  signalled,                   \* processes a kill was sent to (proc.killed)
  disposed,                    \* handles whose supervisor is disposed
  recycling, blocked,          \* net48Recycling, blockedNet48Processes
  recycled,                    \* history: the processes a recycle was started on
  pc, want, on, awaits,        \* a request's getEngine call: its place, its key,
                               \* the process it waits for, the recycles it awaits
  held, closed,                \* leases of a scope; the scopes that are closed
  stop,                        \* the stop in progress (stopMappedEngines)
  shuttingDown

registry == <<engines, engineStarts>>
starts   == <<startup, cleanup, abandoned, accepted, reserved>>
physical == <<proc, signalled, disposed, recycling, blocked, recycled>>
requests == <<pc, want, on, awaits, held, closed>>
vars == <<registry, starts, physical, requests, stop, shuttingDown>>

NoStop == [active |-> FALSE, idle |-> FALSE, left |-> {}, current |-> None, awaits |-> {}, pending |-> {}, confirming |-> FALSE]

Calling == {"enter", "idleWait", "pastIdle", "recycleWait", "cleanupWait", "admissionWait", "budgetWait", "consumer"}

\* Types; a call under way names its key, and one that waits for a process the process.
TypeOK ==
  /\ engines \in [Keys -> Procs \cup {None}]
  /\ engineStarts \in [Keys -> Procs \cup {None}]
  /\ proc \in [Procs -> {"unborn", "alive", "exited"}]
  /\ startup \in [Procs -> {"none", "pending", "published", "rejected"}]
  /\ cleanup \in [Procs -> {"none", "running", "done", "failed"}]
  /\ {abandoned, accepted, reserved, signalled, disposed, recycling, blocked, recycled} \subseteq SUBSET Procs
  /\ pc \in [Requests -> Calling \cup {"idle"}]
  /\ want \in [Requests -> Keys \cup {None}]
  /\ on \in [Requests -> Procs \cup {None}]
  /\ \A r \in Requests : pc[r] = "idle" <=> want[r] = None
  /\ \A r \in Requests : pc[r] \in {"consumer", "cleanupWait", "budgetWait"} <=> on[r] # None
  /\ awaits \in [Requests -> SUBSET Procs]
  /\ held \in [Requests -> SUBSET Procs]
  /\ closed \subseteq Requests
  /\ stop \in [active : BOOLEAN, idle : BOOLEAN, left : SUBSET Procs, current : Procs \cup {None}, awaits : SUBSET Procs,
              pending : SUBSET Procs, confirming : BOOLEAN]
  /\ shuttingDown \in BOOLEAN

Init ==
  /\ engines = [k \in Keys |-> None]
  /\ engineStarts = [k \in Keys |-> None]
  /\ proc = [p \in Procs |-> "unborn"]
  /\ startup = [p \in Procs |-> "none"]
  /\ cleanup = [p \in Procs |-> "none"]
  /\ abandoned = {} /\ accepted = {} /\ reserved = {}
  /\ signalled = {} /\ disposed = {} /\ recycling = {} /\ blocked = {} /\ recycled = {}
  /\ pc = [r \in Requests |-> "idle"]
  /\ want = [r \in Requests |-> None]
  /\ on = [r \in Requests |-> None]
  /\ awaits = [r \in Requests |-> {}]
  /\ held = [r \in Requests |-> {}]
  /\ closed = {}
  /\ stop = NoStop
  /\ shuttingDown = FALSE

-----------------------------------------------------------------------------
(* What the state says. *)

Alive(p)  == proc[p] = "alive"
\* Mutant of Settled: the callers of a startup that fails are never told.
SettledOnSuccess(p) == startup[p] = "published"
Settled(p) == startup[p] \in {"published", "rejected"}
HasOwner(p) == startup[p] = "published"          \* SharedEngineStartup.value

\* liveProcs: in from the spawn, out at the confirmed exit.
LiveProcs == {p \in Procs : Alive(p)}

\* The consumers a shared startup counts.
Consumers(p) == {r \in Requests : pc[r] = "consumer" /\ on[r] = p}

\* Mutant of Leased: the startup reserves nothing for the consumers it still has.
LeasedByScopes(p) == \E r \in Requests : p \in held[r]

\* activeLeases: the scopes that retain the handle, and the startup's reservation.
Leased(p) == p \in reserved \/ \E r \in Requests : p \in held[r]

Residents == {p \in Procs : \E k \in Keys : engines[k] = p}

\* selectEngineForBudgetRecycle: any idle resident may be the victim.
Victims == {p \in Residents : ~ Leased(p)}

IdleRecycle == stop.active /\ stop.idle          \* idleEngineRecycleInFlight

-----------------------------------------------------------------------------
(* Effects shared by several handlers. *)

\* deleteValue on both registries.
Without(map, P) == [k \in Keys |-> IF map[k] \in P THEN None ELSE map[k]]

Forget(P) ==
  /\ engines' = Without(engines, P)
  /\ engineStarts' = Without(engineStarts, P)

\* SharedEngineStartup.abandon: dispose the owner there is, cancel the pending child, confirm.
Abandon(P) ==
  LET new == P \ abandoned
  IN  /\ abandoned' = abandoned \cup new
      /\ cleanup' = [p \in Procs |-> IF p \in new THEN "running" ELSE cleanup[p]]
      /\ signalled' = signalled \cup new
      /\ disposed' = disposed \cup {p \in new : HasOwner(p)}

\* Mutant of Finish: the last consumer leaves and the startup goes on.
FinishQuietly(r) ==
  /\ reserved' = IF Consumers(on[r]) = {r} THEN reserved \ {on[r]} ELSE reserved
  /\ UNCHANGED <<abandoned, cleanup, signalled, disposed>>

\* finish of one consumer of p: the last one gives the reservation back and, when nobody
\* accepted the worker, abandons it.
Finish(r) ==
  LET p == on[r]
      last == Consumers(p) = {r}
  IN  /\ reserved' = IF last THEN reserved \ {p} ELSE reserved
      /\ Abandon(IF last /\ p \notin accepted THEN {p} ELSE {})

\* Mutant of Recycle: a process that has already exited is blocked too, for ever.
RecycleLatches(p, others) ==
  LET fresh == p \notin recycling
      P == IF fresh THEN {p} ELSE {}
  IN  /\ Forget({p} \cup others)
      /\ recycling' = recycling \cup P
      /\ recycled' = recycled \cup P
      /\ blocked' = blocked \cup P
      /\ signalled' = signalled \cup {q \in P : Alive(q)}
      /\ disposed' = disposed \cup P

\* recycleNet48Engine: one teardown however many ask for it, and nothing to wait for when the
\* process has already exited.  A caller that forgets other processes too names them.
Recycle(p, others) ==
  LET fresh == p \notin recycling /\ Alive(p)
      P == IF fresh THEN {p} ELSE {}
  IN  /\ Forget({p} \cup others)
      /\ recycling' = recycling \cup P
      /\ recycled' = recycled \cup P
      /\ blocked' = IF p \in recycling THEN blocked ELSE (blocked \ {p}) \cup P
      /\ signalled' = signalled \cup P
      /\ disposed' = disposed \cup P

\* handle.dispose: the supervisor is disposed and the process is signalled.
Dispose(P) ==
  /\ disposed' = disposed \cup P
  /\ signalled' = signalled \cup {p \in P : Alive(p)}

\* The calls of the requests R return.
ReturnAll(R) ==
  /\ pc' = [r \in Requests |-> IF r \in R THEN "idle" ELSE pc[r]]
  /\ want' = [r \in Requests |-> IF r \in R THEN None ELSE want[r]]
  /\ on' = [r \in Requests |-> IF r \in R THEN None ELSE on[r]]
  /\ awaits' = [r \in Requests |-> IF r \in R THEN {} ELSE awaits[r]]

Return(r) == ReturnAll({r})

\* The calls of the requests R start over.
StartOver(R) ==
  /\ pc' = [r \in Requests |-> IF r \in R THEN "enter" ELSE pc[r]]
  /\ on' = [r \in Requests |-> IF r \in R THEN None ELSE on[r]]
  /\ UNCHANGED <<want, awaits>>

-----------------------------------------------------------------------------
(* getEngine *)

\* A workflow asks for a worker of key k.  Bound: as many calls as there are processes left.
Call(r, k) ==
  /\ pc[r] = "idle" /\ r \notin closed
  /\ Cardinality({q \in Requests : pc[q] \in Calling /\ want[q] = k})
       < Cardinality({p \in Procs : KeyOf[p] = k /\ proc[p] = "unborn"})
  /\ pc' = [pc EXCEPT ![r] = "enter"]
  /\ want' = [want EXCEPT ![r] = k]
  /\ UNCHANGED <<registry, starts, physical, on, awaits, held, closed, stop, shuttingDown>>

PastIdle(r) == pc[r] = "pastIdle" \/ (pc[r] = "enter" /\ ~ IdleRecycle)

AwaitIdle(r) ==
  /\ pc[r] = "enter" /\ IdleRecycle
  /\ pc' = [pc EXCEPT ![r] = "idleWait"]
  /\ UNCHANGED <<registry, starts, physical, want, on, awaits, held, closed, stop, shuttingDown>>

AwaitRecycles(r) ==
  /\ PastIdle(r) /\ want[r] \in Net48 /\ recycling # {}
  /\ pc' = [pc EXCEPT ![r] = "recycleWait"]
  /\ awaits' = [awaits EXCEPT ![r] = recycling]
  /\ UNCHANGED <<registry, starts, physical, want, on, held, closed, stop, shuttingDown>>

\* The call runs on, without another await, from here to its next wait or its result.
Running(r) ==
  \/ PastIdle(r) /\ (want[r] \in Net48 => recycling = {})
  \/ pc[r] = "recycleWait" /\ awaits[r] = {}

RecycleBlocked(r) == want[r] \in Net48 /\ blocked # {}

Refuse(r) ==
  /\ Running(r)
  /\ RecycleBlocked(r) \/ shuttingDown \/ r \in closed
  /\ Return(r)
  /\ UNCHANGED <<registry, starts, physical, held, closed, stop, shuttingDown>>

\* Mutant of Admitted: shutdown is not asked about again after the waits.
AdmittedLate(r) == Running(r) /\ ~ RecycleBlocked(r) /\ r \notin closed

Admitted(r) == Running(r) /\ ~ RecycleBlocked(r) /\ ~ shuttingDown /\ r \notin closed

Abandoning(k) == engineStarts[k] \in abandoned

\* start.waitForCleanup, which confirms again after a confirmation that failed.
AwaitCleanup(r) ==
  LET p == engineStarts[want[r]]
  IN  /\ Admitted(r) /\ Abandoning(want[r])
      /\ pc' = [pc EXCEPT ![r] = "cleanupWait"]
      /\ on' = [on EXCEPT ![r] = p]
      /\ cleanup' = [cleanup EXCEPT ![p] = IF @ = "failed" THEN "running" ELSE @]
      /\ UNCHANGED <<registry, startup, abandoned, accepted, reserved, physical, want, awaits, held, closed,
                     stop, shuttingDown>>

RunningWorker(k) == IF engines[k] # None /\ Alive(engines[k]) THEN engines[k] ELSE None

\* A resident process is returned under a lease, or refused when its supervisor is disposed.
UseRunning(r) ==
  LET p == RunningWorker(want[r])
  IN  /\ Admitted(r) /\ ~ Abandoning(want[r]) /\ p # None
      /\ held' = IF p \in disposed THEN held ELSE [held EXCEPT ![r] = @ \cup {p}]
      /\ Return(r)
      /\ UNCHANGED <<registry, starts, physical, closed, stop, shuttingDown>>

\* start.acquire on the pending startup of the key: one more consumer.
JoinStart(r) ==
  LET k == want[r]
  IN  /\ Admitted(r) /\ ~ Abandoning(k) /\ engines[k] = None /\ engineStarts[k] # None
      /\ pc' = [pc EXCEPT ![r] = "consumer"]
      /\ on' = [on EXCEPT ![r] = engineStarts[k]]
      /\ UNCHANGED <<registry, starts, physical, want, awaits, held, closed, stop, shuttingDown>>

\* No startup and no living worker: a dead one is dropped from both maps on the way.
MustStart(r) ==
  /\ Admitted(r) /\ ~ Abandoning(want[r]) /\ RunningWorker(want[r]) = None
  /\ engines[want[r]] # None \/ engineStarts[want[r]] = None

Dead(k) == {engines[k], engineStarts[k]} \ {None}

\* Mutant of WithinBudget: only the workers of the registry are counted.
WithinResidents == Cardinality(Residents) < ProcessLimit

WithinBudget == Cardinality(LiveProcs) < ProcessLimit

\* From the budget check to the spawn and to the first consumer there is no await.
Start(r) ==
  /\ MustStart(r) /\ WithinBudget
  /\ \E p \in Procs :
       /\ KeyOf[p] = want[r] /\ proc[p] = "unborn"
       /\ proc' = [proc EXCEPT ![p] = "alive"]
       /\ startup' = [startup EXCEPT ![p] = "pending"]
       /\ engines' = [engines EXCEPT ![want[r]] = None]
       /\ engineStarts' = [engineStarts EXCEPT ![want[r]] = p]
       /\ pc' = [pc EXCEPT ![r] = "consumer"]
       /\ on' = [on EXCEPT ![r] = p]
  /\ UNCHANGED <<cleanup, abandoned, accepted, reserved, signalled, disposed, recycling, blocked, recycled,
                 want, awaits, held, closed, stop, shuttingDown>>

Evictable(r) == Victims \ {engines[want[r]]}

\* The budget is spent: an idle resident leaves the maps and is torn down.
Evict(r) ==
  /\ MustStart(r) /\ ~ WithinBudget
  /\ \E p \in Evictable(r) :
       /\ IF KeyOf[p] \in Net48
          THEN Recycle(p, Dead(want[r]))
          ELSE /\ Forget({p} \cup Dead(want[r]))
               /\ Dispose({p})
               /\ UNCHANGED <<recycling, blocked, recycled>>
       /\ pc' = [pc EXCEPT ![r] = "budgetWait"]
       /\ on' = [on EXCEPT ![r] = p]
       /\ awaits' = [awaits EXCEPT ![r] = {p} \cap recycling']
  /\ UNCHANGED <<starts, proc, want, held, closed, stop, shuttingDown>>

\* Every process is resident and the caller's own: waiting for one would wait for itself.
OwnsAll(r) ==
  LET others == Residents \ {engines[want[r]]}
  IN  Cardinality(others) = Cardinality(LiveProcs) /\ others \subseteq held[r]

RefuseOrAwaitAdmission(r) ==
  /\ MustStart(r) /\ ~ WithinBudget /\ Evictable(r) = {}
  /\ Forget(Dead(want[r]))
  /\ IF OwnsAll(r) THEN Return(r)
     ELSE pc' = [pc EXCEPT ![r] = "admissionWait"] /\ UNCHANGED <<want, on, awaits>>
  /\ UNCHANGED <<starts, physical, held, closed, stop, shuttingDown>>

\* engineAdmission polls: the next poll that sees room lets the call start over.
AdmissionOpens(r) ==
  /\ pc[r] = "admissionWait"
  /\ \/ shuttingDown \/ engines[want[r]] # None \/ engineStarts[want[r]] # None
     \/ WithinBudget \/ Victims # {}
  /\ StartOver({r})
  /\ UNCHANGED <<registry, starts, physical, held, closed, stop, shuttingDown>>

\* The admission deadline of a call (REQUEST_DEADLINE_EXCEEDED).
Expire(r) ==
  /\ pc[r] \in {"admissionWait", "cleanupWait"}
  /\ Return(r)
  /\ UNCHANGED <<registry, starts, physical, held, closed, stop, shuttingDown>>

\* The victim is gone, or its net48 recycle gave up, and the call starts over.  A modern
\* process that outlives the wait fails the call.
BudgetWaitOver(r) ==
  LET p == on[r]
  IN  /\ pc[r] = "budgetWait"
      /\ IF KeyOf[p] \in Net48
         THEN awaits[r] = {} /\ StartOver({r})
         ELSE IF Alive(p) THEN Return(r) ELSE StartOver({r})
      /\ UNCHANGED <<registry, starts, physical, held, closed, stop, shuttingDown>>

-----------------------------------------------------------------------------
(* SharedEngineStartup *)

\* startEngine resolves.  Nobody wants an abandoned worker any more; any other is reserved
\* and published.
StartSucceeds(p) ==
  /\ startup[p] = "pending"
  /\ IF p \in abandoned \/ shuttingDown
     THEN /\ startup' = [startup EXCEPT ![p] = "rejected"]
          /\ Dispose({p})
          /\ UNCHANGED <<engines, reserved>>
     ELSE /\ startup' = [startup EXCEPT ![p] = "published"]
          /\ reserved' = reserved \cup {p}
          /\ engines' = [engines EXCEPT ![KeyOf[p]] = p]
          /\ UNCHANGED <<disposed, signalled>>
  /\ UNCHANGED <<engineStarts, cleanup, abandoned, accepted, proc, recycling, blocked, recycled, requests,
                 stop, shuttingDown>>

\* startEngine rejects: no pipe, a failed negotiation, the startup deadline.  Every path kills the child.
StartFails(p) ==
  /\ startup[p] = "pending"
  /\ startup' = [startup EXCEPT ![p] = "rejected"]
  /\ Dispose({p})
  /\ UNCHANGED <<registry, cleanup, abandoned, accepted, reserved, proc, recycling, blocked, recycled, requests,
                 stop, shuttingDown>>

\* The worker reaches one consumer, or does not: the startup failed or was abandoned, the
\* consumer's scope is closed, or the supervisor refuses the lease.
Handoff(r) ==
  LET p == on[r]
      retained == HasOwner(p) /\ p \notin abandoned /\ p \notin disposed /\ r \notin closed
  IN  /\ pc[r] = "consumer" /\ Settled(p)
      /\ IF retained
         THEN /\ held' = [held EXCEPT ![r] = @ \cup {p}]
              /\ accepted' = accepted \cup {p}
              /\ reserved' = IF Consumers(p) = {r} THEN reserved \ {p} ELSE reserved
              /\ UNCHANGED <<abandoned, cleanup, signalled, disposed>>
         ELSE /\ Finish(r)
              /\ UNCHANGED <<held, accepted>>
      /\ Return(r)
      /\ UNCHANGED <<registry, startup, proc, recycling, blocked, recycled, closed, stop, shuttingDown>>

Waiters(p) == {r \in Requests : pc[r] = "cleanupWait" /\ on[r] = p}

\* confirmCleanup sees the process exit: the startup leaves the maps and its waiters start over.
CleanupConfirmed(p) ==
  /\ cleanup[p] = "running" /\ Settled(p) /\ ~ Alive(p)
  /\ cleanup' = [cleanup EXCEPT ![p] = "done"]
  /\ Forget({p})
  /\ StartOver(Waiters(p))
  /\ UNCHANGED <<startup, abandoned, accepted, reserved, physical, held, closed, stop, shuttingDown>>

\* It does not see the exit in time: the startup keeps its place and its waiters are refused.
CleanupTimesOut(p) ==
  /\ cleanup[p] = "running" /\ Settled(p) /\ Alive(p)
  /\ cleanup' = [cleanup EXCEPT ![p] = "failed"]
  /\ signalled' = signalled \cup {p}
  /\ ReturnAll(Waiters(p))
  /\ UNCHANGED <<registry, startup, abandoned, accepted, reserved, proc, disposed, recycling, blocked, recycled,
                 held, closed, stop, shuttingDown>>

-----------------------------------------------------------------------------
(* Scopes *)

\* The workflow ends: its leases are given back.  A call it did not wait for goes on.
Close(r) ==
  /\ r \notin closed
  /\ closed' = closed \cup {r}
  /\ held' = [held EXCEPT ![r] = {}]
  /\ UNCHANGED <<registry, starts, physical, pc, want, on, awaits, stop, shuttingDown>>

\* The workflow is cancelled: a consumer leaves its startup at once, a waiter its wait.
Abort(r) ==
  /\ r \notin closed /\ pc[r] \in {"consumer", "cleanupWait", "admissionWait"}
  /\ closed' = closed \cup {r}
  /\ held' = [held EXCEPT ![r] = {}]
  /\ IF pc[r] = "consumer" THEN Finish(r)
     ELSE UNCHANGED <<reserved, abandoned, cleanup, signalled, disposed>>
  /\ Return(r)
  /\ UNCHANGED <<registry, startup, accepted, proc, recycling, blocked, recycled, stop, shuttingDown>>

-----------------------------------------------------------------------------
(* Processes *)

\* The process exits, on its own or because it was told to.  onLost forgets a published worker.
Exit(p) ==
  /\ Alive(p)
  /\ proc' = [proc EXCEPT ![p] = "exited"]
  /\ blocked' = blocked \ {p}
  /\ disposed' = IF HasOwner(p) THEN disposed \cup {p} ELSE disposed
  /\ IF HasOwner(p) /\ p \in Residents THEN Forget({p}) ELSE UNCHANGED registry
  /\ UNCHANGED <<starts, signalled, recycling, recycled, requests, stop, shuttingDown>>

\* Mutant of ConnectionCloses: a closed pipe is taken for an exit.
ConnectionClosesIsExit(p) ==
  /\ HasOwner(p) /\ p \notin disposed
  /\ IF p \in Residents THEN Forget({p}) ELSE UNCHANGED registry
  /\ Dispose({p})
  /\ UNCHANGED <<recycling, blocked, recycled>>
  /\ UNCHANGED <<starts, proc, requests, stop, shuttingDown>>

\* The pipe closes under a published worker.  Its process may still live and, a net48 one,
\* pin the user's output, so it is recycled before anything replaces it.
ConnectionCloses(p) ==
  /\ HasOwner(p) /\ p \notin disposed
  /\ IF p \in Residents /\ KeyOf[p] \in Net48 /\ ~ shuttingDown
     THEN Recycle(p, {})
     ELSE /\ IF p \in Residents THEN Forget({p}) ELSE UNCHANGED registry
          /\ Dispose({p})
          /\ UNCHANGED <<recycling, blocked, recycled>>
  /\ UNCHANGED <<starts, proc, requests, stop, shuttingDown>>

\* The supervisor recycles its worker (a request deadline, a usage budget).
SupervisorRecycles(p) ==
  /\ HasOwner(p) /\ p \notin disposed
  /\ Dispose({p})
  /\ UNCHANGED <<registry, starts, proc, recycling, blocked, recycled, requests, stop, shuttingDown>>

\* A build needs the output this worker would not unload.  The handle was taken before the unload
\* was asked for: the registry may have dropped or replaced it since.
BuildRecycle(p) ==
  /\ HasOwner(p) /\ KeyOf[p] \in Net48
  /\ Recycle(p, {})
  /\ UNCHANGED <<starts, proc, requests, stop, shuttingDown>>

\* doRecycleNet48 returns: the exit is confirmed, or both of its waits are over.
RecycleReturns(p) ==
  /\ p \in recycling
  /\ recycling' = recycling \ {p}
  /\ awaits' = [r \in Requests |-> awaits[r] \ {p}]
  /\ stop' = [stop EXCEPT !.awaits = @ \ {p}]
  /\ UNCHANGED <<registry, starts, proc, signalled, disposed, blocked, recycled, pc, want, on, held, closed,
                 shuttingDown>>

-----------------------------------------------------------------------------
(* Stopping every engine *)

PendingStarts == {p \in Procs : (\E k \in Keys : engineStarts[k] = p) /\ ~ HasOwner(p)}

\* stopMappedEngines: the stop command, or the idle timer.
Stop(reason) ==
  LET live == {p \in Residents : Alive(p)}
  IN  /\ ~ stop.active /\ ~ shuttingDown /\ live \cup PendingStarts # {}
      /\ stop' = [active |-> TRUE, idle |-> reason = "idle", left |-> live, current |-> None, awaits |-> {},
                  pending |-> PendingStarts, confirming |-> FALSE]
      /\ Abandon(PendingStarts)
      /\ UNCHANGED <<registry, startup, accepted, reserved, proc, recycling, blocked, recycled, requests, shuttingDown>>

\* One handle after the other, the net48 ones first.
StopNext(p) ==
  /\ stop.active /\ stop.current = None /\ p \in stop.left
  /\ KeyOf[p] \in Net48 \/ \A q \in stop.left : KeyOf[q] \notin Net48
  /\ IF KeyOf[p] \in Net48
     THEN Recycle(p, {})
     ELSE /\ Forget({p})
          /\ IF Alive(p) THEN Dispose({p}) ELSE UNCHANGED <<disposed, signalled>>
          /\ UNCHANGED <<recycling, blocked, recycled>>
  /\ stop' = [stop EXCEPT !.left = @ \ {p}, !.current = p, !.awaits = {p} \cap recycling']
  /\ UNCHANGED <<starts, proc, requests, shuttingDown>>

\* The wait for one handle is over: its recycle returned, or a modern process exited or was given up.
StopWaited ==
  /\ stop.active /\ stop.current # None /\ stop.awaits = {}
  /\ stop' = [stop EXCEPT !.current = None]
  /\ UNCHANGED <<registry, starts, physical, requests, shuttingDown>>

\* The starts that were still pending are confirmed last, again if a confirmation failed meanwhile.
StopConfirms ==
  /\ stop.active /\ stop.current = None /\ stop.left = {} /\ ~ stop.confirming
  /\ stop' = [stop EXCEPT !.confirming = TRUE]
  /\ cleanup' = [p \in Procs |-> IF p \in stop.pending /\ cleanup[p] = "failed" THEN "running" ELSE cleanup[p]]
  /\ UNCHANGED <<registry, startup, abandoned, accepted, reserved, physical, requests, shuttingDown>>

\* They are all confirmed, or one of them is not.  A call that waited for the idle recycle goes on.
StopReturns ==
  /\ stop.active /\ stop.confirming
  /\ \/ \A p \in stop.pending : cleanup[p] = "done"
     \/ \E p \in stop.pending : cleanup[p] = "failed"
  /\ stop' = NoStop
  /\ pc' = [r \in Requests |-> IF pc[r] = "idleWait" THEN "pastIdle" ELSE pc[r]]
  /\ UNCHANGED <<registry, starts, physical, want, on, awaits, held, closed, shuttingDown>>

\* deactivate(): everything mapped is disposed, every other child killed.
Deactivate ==
  /\ ~ shuttingDown
  /\ shuttingDown' = TRUE
  /\ LET new == PendingStarts \ abandoned
     IN  /\ abandoned' = abandoned \cup new
         /\ cleanup' = [p \in Procs |-> IF p \in new THEN "running" ELSE cleanup[p]]
  /\ disposed' = disposed \cup Residents
  /\ signalled' = signalled \cup LiveProcs
  /\ engines' = [k \in Keys |-> None]
  /\ engineStarts' = [k \in Keys |-> None]
  /\ UNCHANGED <<startup, accepted, reserved, proc, recycling, blocked, recycled, requests, stop>>

-----------------------------------------------------------------------------

GetEngine(r) ==
  \/ AwaitIdle(r) \/ AwaitRecycles(r) \/ Refuse(r) \/ AwaitCleanup(r) \/ UseRunning(r) \/ JoinStart(r)
  \/ Start(r) \/ Evict(r) \/ RefuseOrAwaitAdmission(r)

Next ==
  \/ \E r \in Requests :
       \/ GetEngine(r) \/ AdmissionOpens(r) \/ Expire(r) \/ BudgetWaitOver(r) \/ Handoff(r)
       \/ Close(r) \/ Abort(r)
       \/ \E k \in Keys : Call(r, k)
  \/ \E p \in Procs :
       \/ StartSucceeds(p) \/ StartFails(p) \/ CleanupConfirmed(p) \/ CleanupTimesOut(p)
       \/ Exit(p) \/ ConnectionCloses(p) \/ SupervisorRecycles(p) \/ BuildRecycle(p) \/ RecycleReturns(p)
       \/ StopNext(p)
  \/ \E reason \in StopReasons : Stop(reason)
  \/ StopWaited \/ StopConfirms \/ StopReturns \/ Deactivate

Spec == Init /\ [][Next]_vars

\* Continuations run and timers fire.  No process is assumed to exit, not even a killed one,
\* and no start to succeed.
Fairness ==
  /\ \A r \in Requests : WF_vars(GetEngine(r)) /\ WF_vars(Expire(r)) /\ WF_vars(BudgetWaitOver(r)) /\ WF_vars(Handoff(r))
  /\ \A p \in Procs :
       /\ WF_vars(StartSucceeds(p) \/ StartFails(p))
       /\ WF_vars(CleanupConfirmed(p) \/ CleanupTimesOut(p))
       /\ WF_vars(RecycleReturns(p))
       /\ WF_vars(StopNext(p))
  /\ WF_vars(StopWaited) /\ WF_vars(StopConfirms) /\ WF_vars(StopReturns)

FairSpec == Spec /\ Fairness

-----------------------------------------------------------------------------
(* Safety *)

\* A process that nobody has told to go is a worker the registry names, or a startup somebody still
\* waits for: no interleaving of failed and cancelled starts, evictions and stops loses one
\* (extension.ts:1712 "could each spawn an engine and leak one").
NoProcessIsLost ==
  \A p \in LiveProcs \ signalled :
    \/ HasOwner(p) /\ engines[KeyOf[p]] = p
    \/ startup[p] = "pending" /\ p \notin abandoned /\ engineStarts[KeyOf[p]] = p /\ Consumers(p) # {}

\* A second net48 process of a project would pin the output again that the first one's teardown
\* is about to free, so there is never one, signalled or not (extension.ts:1722-1729).
OneNet48ProcessPerKey ==
  \A p, q \in LiveProcs : KeyOf[p] = KeyOf[q] /\ KeyOf[p] \in Net48 => p = q

\* No net48 process starts, for whatever project, while a recycled one has no confirmed exit.
NoStartBesideARecycle ==
  [][\A p \in Procs : proc[p] = "unborn" /\ proc'[p] = "alive" /\ KeyOf[p] \in Net48
       => recycled \cap LiveProcs = {}]_vars

\* A net48 process is blocked from the start of its recycle until it exits, whether or not the recycle
\* gave up, and no longer: the block neither lets go early nor latches (extension.ts:2429-2434).
BlockedUntilExit == blocked = recycled \cap LiveProcs

\* However many workflows start, evict and wait at once, the processes stay within the budget.
ProcessBudget == Cardinality(LiveProcs) <= ProcessLimit

\* The budget never takes a worker from a workflow that holds it or is about to be handed it.
BudgetSparesUsers ==
  [][\A r \in Requests : pc[r] # "budgetWait" /\ pc'[r] = "budgetWait"
       => Consumers(on'[r]) = {} /\ \A q \in Requests : on'[r] \notin held[q]]_vars

\* After deactivate() every child still there has been told to go, whatever starts, stops and
\* recycles were under way.
ShutdownLeavesNoProcess == shuttingDown => LiveProcs \subseteq signalled

\* Two workflows that each hold a worker and wait for the other's, a cleanup nobody confirms, a
\* process that will not die: every call for an engine is answered all the same.
CallsSettle == \A r \in Requests : pc[r] \in Calling ~> pc[r] = "idle"

-----------------------------------------------------------------------------
(* The strengthening of the facts about processes that every step keeps. *)

IInv ==
  /\ proc \in [Procs -> {"unborn", "alive", "exited"}]
  /\ \A p \in recycled : p \in Procs /\ proc[p] # "unborn"
  /\ BlockedUntilExit
  /\ ShutdownLeavesNoProcess
  /\ IsFiniteSet(LiveProcs)
  /\ ProcessBudget

\* Who names, waits for or has signalled a process: the part of the state the two registries, the
\* startups and the recycles share.
RegistriesAgree ==
  \A k \in Keys :
    /\ engines[k] # None => engineStarts[k] = engines[k] /\ HasOwner(engines[k])
    /\ engineStarts[k] # None =>
         /\ engineStarts[k] \in Procs /\ KeyOf[engineStarts[k]] = k /\ proc[engineStarts[k]] # "unborn"
         /\ HasOwner(engineStarts[k]) => engines[k] = engineStarts[k]

ConsumersAgree ==
  \A r \in Requests : pc[r] = "consumer" =>
    /\ on[r] \in Procs /\ proc[on[r]] # "unborn"
    /\ HasOwner(on[r]) => on[r] \in reserved

StartupsAgree ==
  \A p \in Procs :
    /\ startup[p] = "none" <=> proc[p] = "unborn"
    /\ p \in accepted => HasOwner(p)
    /\ p \in abandoned => proc[p] # "unborn"
    /\ startup[p] = "pending" =>
         shuttingDown \/ p \in abandoned \/ (engineStarts[KeyOf[p]] = p /\ Consumers(p) # {})

TornDownIsSignalled ==
  /\ recycling \subseteq recycled /\ recycled \subseteq signalled
  /\ \A p \in LiveProcs : p \in abandoned \/ startup[p] = "rejected" => p \in signalled
  /\ \A p \in LiveProcs : HasOwner(p) => p \in signalled \/ engines[KeyOf[p]] = p

Net48IsNamed ==
  \A p \in LiveProcs : KeyOf[p] \in Net48 => shuttingDown \/ p \in recycled \/ engineStarts[KeyOf[p]] = p

\* The workers a stop still has to go through were published, and stay so.
LeftIsPublished == \A p \in stop.left : HasOwner(p)

OInv ==
  /\ RegistriesAgree
  /\ ConsumersAgree
  /\ StartupsAgree
  /\ TornDownIsSignalled
  /\ Net48IsNamed
  /\ OneNet48ProcessPerKey

=============================================================================
