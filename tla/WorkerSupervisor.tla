--------------------------- MODULE WorkerSupervisor ---------------------------
(***************************************************************************)
(* One slot of WorkerSupervisor (extension/src/workerSupervisor.ts): the    *)
(* worker that serves one key, the shared promise that starts it, the       *)
(* requests that race it against deadlines, cancellation and usage budgets, *)
(* and the crash quarantine of EngineRecoveryPolicy                         *)
(* (extension/src/engineRecovery.ts).                                       *)
(*                                                                          *)
(* The code runs in one JavaScript thread.  An event (a timer, an abort, a  *)
(* settled promise of the worker) runs together with the continuations it   *)
(* releases before the next event: an event may only happen when Quiet      *)
(* holds, and Resume is the rest of request() after an await.               *)
(***************************************************************************)
EXTENDS Naturals, FiniteSets

CONSTANTS
  Requests,
  MaxPending,     \* maxPendingRequests
  MaxRestarts,    \* EngineRecoveryPolicy.maxRestarts
  MaxStarts,      \* bound: calls of adapter.start
  MaxGeneration   \* bound: recycles and crashes from outside happen below it

ASSUME BoundsAssumption ==
  /\ MaxPending \in Nat \ {0} /\ MaxRestarts \in Nat
  /\ MaxStarts \in Nat \ {0} /\ MaxGeneration \in Nat \ {0}

Starts == 1 .. MaxStarts   \* a worker is known by the start that made it
NoStart == 0

VARIABLES
  slot,      \* generation, state, worker, startPromise and quarantine of the key
  starts,    \* adapter.start calls: the generation each was made in, and its worker
  req,       \* the requests
  recent,    \* crashes inside the recovery window
  disposed

vars == <<slot, starts, req, recent, disposed>>

InFlight == {r \in Requests : req[r].pc \in {"starting", "sending", "measuring"}}

\* No continuation is waiting to run.
Quiet == \A r \in Requests : req[r].won = "none"

------------------------------------------------------------------------------
(* The slot. *)

Gone == [generation |-> 0, status |-> "gone"]

\* worker.dispose() of the worker the slot holds.
WithoutWorker == [s \in Starts |-> IF s = slot.worker THEN Gone ELSE starts[s]]

Emptied(state) == [slot EXCEPT !.generation = @ + 1, !.state = state, !.worker = NoStart,
                               !.start = NoStart, !.elapsed = FALSE]

\* recycle(): whatever the slot is doing, it starts again from idle.
RecycleSlot == slot' = Emptied("idle") /\ starts' = WithoutWorker

\* releaseQuarantineIfElapsed.
Released == IF slot.state = "quarantined" /\ slot.elapsed
            THEN [slot EXCEPT !.state = "idle", !.elapsed = FALSE] ELSE slot

Unused(s) == starts[s].status = "absent" /\ \A t \in Starts : t < s => starts[t].status # "absent"
NewStart(s) ==
  /\ Unused(s)
  /\ slot' = [Released EXCEPT !.state = "starting", !.start = s]
  /\ starts' = [starts EXCEPT ![s] = [generation |-> slot.generation, status |-> "pending"]]

\* Mutant: every caller starts a worker of its own until one is running.
EnsureWorkerUnshared(s) ==
  \/ /\ Released.state = "running" /\ Released.worker = s
     /\ slot' = Released /\ UNCHANGED starts
  \/ Released.state # "running" /\ NewStart(s)

\* ensureWorker: the running worker, the start that is under way, or a new start.
EnsureWorker(s) ==
  \/ /\ Released.state = "running" /\ Released.worker = s
     /\ slot' = Released /\ UNCHANGED starts
  \/ /\ Released.state # "running" /\ Released.start = s /\ s # NoStart
     /\ slot' = Released /\ UNCHANGED starts
  \/ Released.state # "running" /\ Released.start = NoStart /\ NewStart(s)

------------------------------------------------------------------------------
(* Requests: the events. *)

Set(r, fields) == req' = [req EXCEPT ![r] = fields]
NewRequest == [pc |-> "new", gen |-> 0, start |-> NoStart, won |-> "none",
               watch |-> "off", aborted |-> FALSE, outcome |-> "none"]
Done(outcome) == [NewRequest EXCEPT !.pc = "done", !.outcome = outcome]

\* finish() of raceWorkerReply: the first of the racing events wins.
Wins(r, event) == Set(r, [req[r] EXCEPT !.won = event])

Refuse(r) ==
  /\ Quiet /\ req[r].pc = "new"
  /\ \/ disposed /\ Set(r, Done("refused"))
     \/ ~disposed /\ req[r].aborted /\ Set(r, Done("cancelled"))
     \/ /\ ~disposed /\ ~req[r].aborted
        /\ Cardinality(InFlight) >= MaxPending \/ Released.state = "quarantined"
        /\ Set(r, Done("refused"))
     \/ /\ ~disposed /\ ~req[r].aborted /\ Cardinality(InFlight) < MaxPending
        /\ slot.state = "crashLoop"
        /\ Set(r, Done("crashLoop"))
  /\ UNCHANGED <<slot, starts, recent, disposed>>

\* The generation is read before ensureWorker; a running worker answers at once.
Request(r) ==
  /\ Quiet /\ req[r].pc = "new"
  /\ ~disposed /\ ~req[r].aborted /\ Cardinality(InFlight) < MaxPending
  /\ Released.state \notin {"quarantined", "crashLoop"}
  /\ \E s \in Starts :
       /\ EnsureWorker(s)
       /\ Set(r, [req[r] EXCEPT !.pc = "starting", !.gen = slot.generation, !.start = s,
                                !.won = IF Released.state = "running" THEN "reply" ELSE "none"])
  /\ UNCHANGED <<recent, disposed>>

\* prepare().
Prepare ==
  /\ Quiet /\ ~disposed /\ Released.state \notin {"quarantined", "crashLoop"}
  /\ \E s \in Starts : EnsureWorker(s)
  /\ UNCHANGED <<req, recent, disposed>>

Abort(r) ==
  /\ Quiet /\ ~req[r].aborted /\ req[r].pc # "done"
  /\ Set(r, [req[r] EXCEPT !.aborted = TRUE, !.won = IF r \in InFlight THEN "cancelled" ELSE "none"])
  /\ UNCHANGED <<slot, starts, recent, disposed>>

\* Mutant: the health query of an answered request has no bound.
DeadlineUnbounded(r) ==
  /\ Quiet /\ r \in InFlight /\ req[r].pc # "measuring"
  /\ Wins(r, "deadlineExceeded")
  /\ UNCHANGED <<slot, starts, recent, disposed>>

Deadline(r) ==
  /\ Quiet /\ r \in InFlight
  /\ Wins(r, "deadlineExceeded")
  /\ UNCHANGED <<slot, starts, recent, disposed>>

\* A reply: the result, a refusal, an answer to something else, or a rejected promise.
Reply(r) ==
  /\ Quiet /\ req[r].pc = "sending"
  /\ \E kind \in {"reply", "refused", "stale", "faulted"} : Wins(r, kind)
  /\ UNCHANGED <<slot, starts, recent, disposed>>

\* worker.usage() after the reply: within the budget or not, rejected, or over its own bound.
Usage(r) ==
  /\ Quiet /\ req[r].pc = "measuring"
  /\ \E kind \in {"reply", "exceeds", "faulted", "unresponsive"} : Wins(r, kind)
  /\ UNCHANGED <<slot, starts, recent, disposed>>

Awaiting(s) == {r \in Requests : req[r].pc = "starting" /\ req[r].start = s}
Wake(s, event) == req' = [r \in Requests |-> IF r \in Awaiting(s) THEN [req[r] EXCEPT !.won = event] ELSE req[r]]

Stale(s) == disposed \/ slot.generation # starts[s].generation \/ slot.state = "crashLoop"

\* adapter.start resolves: its worker is adopted, or disposed when it comes too late.
StartResolves(s) ==
  /\ Quiet /\ starts[s].status = "pending"
  /\ \/ /\ ~Stale(s)
        /\ starts' = [starts EXCEPT ![s].status = "live"]
        /\ slot' = [slot EXCEPT !.worker = s, !.state = "running"]
        /\ Wake(s, "reply")
     \/ /\ Stale(s)
        /\ starts' = [starts EXCEPT ![s] = Gone]
        /\ UNCHANGED slot
        /\ Wake(s, "faulted")
  /\ UNCHANGED <<recent, disposed>>

\* adapter.start fails, or its worker has another key; ensureWorker's catch clears the slot.
StartRejects(s) ==
  /\ Quiet /\ starts[s].status = "pending"
  /\ starts' = [starts EXCEPT ![s] = Gone]
  /\ \/ slot.start = s /\ slot' = [slot EXCEPT !.start = NoStart, !.worker = NoStart, !.state = "idle"]
     \/ slot.start # s /\ UNCHANGED slot
  /\ Wake(s, "faulted")
  /\ UNCHANGED <<recent, disposed>>

------------------------------------------------------------------------------
(* Requests: the continuations. *)

Lost == {"cancelled", "deadlineExceeded", "faulted"}
Old(r) == slot.generation # req[r].gen

\* Whoever did not get its worker recycles the slot as it is now.
ResumeStarting(r) ==
  /\ req[r].pc = "starting"
  /\ \/ req[r].won \in Lost /\ RecycleSlot /\ Set(r, Done(req[r].won))
     \/ /\ req[r].won = "reply"
        /\ \/ Set(r, IF Old(r) THEN Done("stale")
                     ELSE [req[r] EXCEPT !.pc = "sending", !.watch = "waiting", !.won = "none"])
           \/ ~Old(r) /\ Set(r, Done("faulted"))   \* send() throws
        /\ UNCHANGED <<slot, starts>>

ResumeSending(r) ==
  /\ req[r].pc = "sending"
  /\ \/ req[r].won \in Lost /\ Set(r, Done(req[r].won))
     \/ req[r].won \in {"reply", "refused", "stale"} /\ Old(r) /\ Set(r, Done("stale"))
     \/ req[r].won \in {"refused", "stale"} /\ ~Old(r) /\ Set(r, Done(req[r].won))
     \/ req[r].won = "reply" /\ ~Old(r)
        /\ Set(r, [req[r] EXCEPT !.pc = "measuring", !.watch = "off", !.won = "none"])
  /\ UNCHANGED <<slot, starts>>

\* Mutant: nothing is checked again after the health query.
ResumeMeasuringTrusts(r) ==
  /\ req[r].pc = "measuring"
  /\ \/ req[r].won \in Lost /\ Set(r, Done(req[r].won)) /\ UNCHANGED <<slot, starts>>
     \/ req[r].won \in {"exceeds", "unresponsive"} /\ RecycleSlot /\ Set(r, Done("faulted"))
     \/ req[r].won = "reply" /\ Set(r, Done("ok")) /\ UNCHANGED <<slot, starts>>

\* The last gate looks at the generation and at the clock once more.
ResumeMeasuring(r) ==
  /\ req[r].pc = "measuring"
  /\ \/ req[r].won \in Lost /\ Set(r, Done(req[r].won)) /\ UNCHANGED <<slot, starts>>
     \/ req[r].won \in {"exceeds", "unresponsive"} /\ RecycleSlot /\ Set(r, Done("faulted"))
     \/ /\ req[r].won = "reply" /\ UNCHANGED <<slot, starts>>
        /\ \E outcome \in IF Old(r) THEN {"stale"} ELSE {"ok", "deadlineExceeded"} : Set(r, Done(outcome))

Resume(r) ==
  /\ ResumeStarting(r) \/ ResumeSending(r) \/ ResumeMeasuring(r)
  /\ UNCHANGED <<recent, disposed>>

------------------------------------------------------------------------------
(* watchActiveUsage while the worker is busy. *)

Watch(r, state) == Set(r, [req[r] EXCEPT !.watch = state])

Poll(r) ==
  /\ Quiet /\ req[r].watch = "waiting"
  /\ Watch(r, IF Old(r) \/ disposed THEN "off" ELSE "probing")
  /\ UNCHANGED <<slot, starts, recent, disposed>>

Probe(r) ==
  /\ Quiet /\ req[r].watch = "probing"
  /\ Watch(r, IF Old(r) \/ disposed THEN "off" ELSE "waiting")
  /\ UNCHANGED <<slot, starts, recent, disposed>>

\* Over the budget, rejected, or no answer in time: the slot is recycled as it is now.
ProbeFails(r) ==
  /\ Quiet /\ req[r].watch = "probing"
  /\ RecycleSlot
  /\ Set(r, [req[r] EXCEPT !.watch = "off", !.won = "faulted"])
  /\ UNCHANGED <<recent, disposed>>

------------------------------------------------------------------------------
(* The owner of the supervisor, the recovery policy and the clock. *)

Recycle ==
  /\ Quiet /\ slot.generation < MaxGeneration
  /\ RecycleSlot
  /\ UNCHANGED <<req, recent, disposed>>

\* What EngineRecoveryPolicy.recordCrash counts: this crash and those still in the window.
RecentCrashes == 1 .. recent + 1

\* Mutant: a crash replaces the worker without disposing what is left of it.
RecordCrashForgets ==
  /\ Quiet /\ slot.generation < MaxGeneration
  /\ \E crashes \in RecentCrashes :
       /\ recent' = crashes
       /\ slot' = Emptied(IF crashes <= MaxRestarts THEN "quarantined" ELSE "crashLoop")
  /\ UNCHANGED <<starts, req, disposed>>

\* recordCrash and replaceCrashedWorker.
RecordCrash ==
  /\ Quiet /\ slot.generation < MaxGeneration
  /\ \E crashes \in RecentCrashes :
       /\ recent' = crashes
       /\ slot' = Emptied(IF crashes <= MaxRestarts THEN "quarantined" ELSE "crashLoop")
  /\ starts' = WithoutWorker
  /\ UNCHANGED <<req, disposed>>

Elapse ==
  /\ Quiet /\ slot.state = "quarantined" /\ ~slot.elapsed
  /\ slot' = [slot EXCEPT !.elapsed = TRUE]
  /\ UNCHANGED <<starts, req, recent, disposed>>

\* state(): even a report ends a quarantine that has elapsed.
Observe ==
  /\ Quiet /\ slot' = Released
  /\ UNCHANGED <<starts, req, recent, disposed>>

Dispose ==
  /\ Quiet /\ ~disposed
  /\ disposed' = TRUE
  /\ RecycleSlot
  /\ UNCHANGED <<req, recent>>

------------------------------------------------------------------------------
Init ==
  /\ slot = [generation |-> 1, state |-> "idle", worker |-> NoStart, start |-> NoStart, elapsed |-> FALSE]
  /\ starts = [s \in Starts |-> [generation |-> 0, status |-> "absent"]]
  /\ req = [r \in Requests |-> NewRequest]
  /\ recent = 0 /\ disposed = FALSE

Next ==
  \/ \E r \in Requests :
       \/ Refuse(r) \/ Request(r) \/ Abort(r) \/ Deadline(r) \/ Reply(r) \/ Usage(r) \/ Resume(r)
       \/ Poll(r) \/ Probe(r) \/ ProbeFails(r)
  \/ \E s \in Starts : StartResolves(s) \/ StartRejects(s)
  \/ Prepare \/ Recycle \/ RecordCrash \/ Elapse \/ Observe \/ Dispose

\* Continuations run, and the timer of a deadline fires.
Fairness == \A r \in Requests : WF_vars(Resume(r)) /\ WF_vars(Deadline(r))

Spec == Init /\ [][Next]_vars
FairSpec == Spec /\ Fairness

------------------------------------------------------------------------------
(* Properties *)

State   == {"idle", "starting", "running", "quarantined", "crashLoop"}
Outcome == {"none", "ok", "refused", "cancelled", "deadlineExceeded", "stale", "faulted", "crashLoop"}

SlotType == [generation : Nat \ {0}, state : State, worker : Starts \cup {NoStart},
             start : Starts \cup {NoStart}, elapsed : BOOLEAN]
StartType == [generation : Nat, status : {"absent", "pending", "live", "gone"}]
RequestType ==
  [pc : {"new", "starting", "sending", "measuring", "done"}, gen : Nat, start : Starts \cup {NoStart},
   won : {"none", "reply", "refused", "stale", "exceeds", "unresponsive"} \cup Lost,
   watch : {"off", "waiting", "probing"}, aborted : BOOLEAN, outcome : Outcome]

TypeOK ==
  /\ slot \in SlotType /\ starts \in [Starts -> StartType] /\ req \in [Requests -> RequestType]
  /\ recent \in Nat /\ disposed \in BOOLEAN

\* Every worker that lives is the one the slot serves from: no interleaving of starts,
\* recycles, crashes and disposal leaves a process behind that nobody owns.
NoOrphanWorker == \A s \in Starts : starts[s].status = "live" => slot.worker = s

\* The requests of a generation share one startup.
OneStartPerGeneration ==
  \A s, t \in Starts :
    starts[s].status = "pending" /\ starts[t].status \in {"pending", "live"}
      /\ starts[s].generation = starts[t].generation => s = t

\* What the code relies on between two events, strong enough to be inductive: the slot's
\* worker and startup are those of its generation, every other startup is an earlier one, and
\* a request of the slot's generation holds the startup or the worker of the slot.
SlotHoldsWorker ==
  slot.worker # NoStart =>
    /\ slot.state = "running" /\ slot.start = slot.worker
    /\ starts[slot.worker].status = "live"
SlotHoldsStart ==
  /\ slot.start # NoStart =>
       /\ ~disposed /\ slot.state \in {"starting", "running"}
       /\ starts[slot.start].generation = slot.generation
       /\ slot.state = "running" => slot.worker = slot.start
       /\ slot.state = "starting" => starts[slot.start].status = "pending"
  /\ slot.state = "running" => slot.worker # NoStart
OthersAreOrphaned ==
  \A s \in Starts :
    /\ starts[s].generation <= slot.generation
    /\ starts[s].status = "pending" /\ starts[s].generation = slot.generation => slot.start = s
RequestHolds(r) ==
  /\ req[r].gen <= slot.generation
  /\ r \in InFlight /\ ~Old(r) =>
       /\ req[r].pc # "starting" \/ req[r].won = "reply" =>
            slot.worker = req[r].start /\ slot.worker # NoStart
       /\ req[r].pc = "starting" /\ req[r].won = "none" =>
            slot.start = req[r].start /\ slot.start # NoStart
SlotInv ==
  /\ slot \in SlotType /\ starts \in [Starts -> StartType]
  /\ NoOrphanWorker /\ SlotHoldsWorker /\ SlotHoldsStart /\ OthersAreOrphaned
  /\ OneStartPerGeneration
IInv ==
  /\ TypeOK /\ SlotInv
  /\ \A r \in Requests : RequestHolds(r)

\* "Late replies cannot win" (docs/v2/v1-characterization-matrix.md:27): a request only
\* succeeds while the worker that answered it is still the one of the slot.
Answered(r) == req[r].outcome # "ok" /\ req'[r].outcome = "ok"
OkIsCurrent ==
  [][\A r \in Requests : Answered(r) => slot.worker = req[r].start /\ starts[slot.worker].status = "live"]_vars

\* Whatever the worker does, a request that was admitted is answered.
RequestsSettle == \A r \in Requests : r \in InFlight ~> req[r].pc = "done"

\* "Honors recovery quarantine before replacing a crashed worker"
\* (extension/src/workerSupervisor.test.ts:368): only time, or the owner, ends it.
Barred == {"quarantined", "crashLoop"}
QuarantineHolds ==
  [][slot.state \in Barred /\ slot'.state \notin Barred => slot.elapsed \/ Recycle \/ Dispose]_vars
=============================================================================
