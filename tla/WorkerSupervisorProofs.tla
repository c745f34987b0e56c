------------------------ MODULE WorkerSupervisorProofs ------------------------
(***************************************************************************)
(* What holds of a slot of the supervisor for any number of requests,       *)
(* startups, generations and crashes.                                       *)
(***************************************************************************)
EXTENDS WorkerSupervisor, TLAPS

USE DEF NoStart

\* A start is told from "no start".
LEMMA StartsAreNumbers == Starts \subseteq Nat \ {0}
  BY BoundsAssumption DEF Starts

\* A slot that slotFor() has just made satisfies the invariant.
LEMMA InitHolds == Init => IInv
<1> SUFFICES ASSUME Init PROVE IInv
  OBVIOUS
<1>1. slot \in SlotType /\ starts \in [Starts -> StartType]
  BY DEF Init, SlotType, StartType, State
<1>2. req \in [Requests -> RequestType]
  BY DEF Init, NewRequest, RequestType, Lost, Outcome
<1>3. SlotInv
  BY <1>1, StartsAreNumbers DEF Init, SlotInv, NoOrphanWorker, SlotHoldsWorker, SlotHoldsStart, OthersAreOrphaned,
     OneStartPerGeneration
<1>4. \A r \in Requests : RequestHolds(r)
  BY DEF Init, RequestHolds, InFlight, NewRequest
<1> QED
  BY <1>1, <1>2, <1>3, <1>4 DEF Init, IInv, TypeOK

(* The slot *)

\* recycle(), dispose() and replaceCrashedWorker leave a slot of the next generation with no worker.
LEMMA EmptyingKeepsSlot ==
  ASSUME SlotInv, NEW state \in {"idle", "quarantined", "crashLoop"},
         slot' = Emptied(state), starts' = WithoutWorker
  PROVE  SlotInv' /\ slot'.generation = slot.generation + 1
<1>1. slot' \in SlotType
  <2>1. slot.generation + 1 \in Nat \ {0} /\ state \in State
    BY DEF SlotInv, SlotType, State
  <2> QED
    BY <2>1 DEF SlotInv, SlotType, Emptied
<1>2. starts' \in [Starts -> StartType]
  BY DEF SlotInv, WithoutWorker, StartType, Gone
<1>3. slot'.generation = slot.generation + 1 /\ slot.generation \in Nat /\ slot'.state = state
      /\ slot'.worker = NoStart /\ slot'.start = NoStart
  BY DEF SlotInv, SlotType, Emptied
<1>4. \A s \in Starts : starts'[s] = starts[s] \/ starts'[s] = Gone
  BY DEF WithoutWorker
<1>5. \A s \in Starts : starts'[s].status = "live" => s # slot.worker /\ starts[s].status = "live"
  BY DEF WithoutWorker, Gone
<1>6. \A s \in Starts : starts[s].generation \in Nat /\ starts'[s].generation \in Nat
  BY <1>2 DEF SlotInv, StartType
<1>7. \A s \in Starts : starts'[s].generation <= slot.generation
  BY <1>3, <1>4, <1>6 DEF SlotInv, OthersAreOrphaned, Gone
<1>8. NoOrphanWorker'
  BY <1>5 DEF SlotInv, NoOrphanWorker
<1>9. SlotHoldsWorker' /\ SlotHoldsStart'
  BY <1>3 DEF SlotHoldsWorker, SlotHoldsStart
<1>10. OthersAreOrphaned'
  BY <1>3, <1>6, <1>7 DEF OthersAreOrphaned
<1>11. OneStartPerGeneration'
  <2>1. \A s \in Starts : starts'[s].status \in {"pending", "live"} => starts'[s] = starts[s]
    BY <1>4 DEF Gone
  <2> QED
    BY <2>1 DEF SlotInv, OneStartPerGeneration
<1> QED
  BY <1>1, <1>2, <1>3, <1>8, <1>9, <1>10, <1>11 DEF SlotInv

\* The end of a quarantine changes neither the worker nor the generation.
LEMMA ReleasingKeepsSlot ==
  ASSUME SlotInv, slot' = Released, UNCHANGED <<starts, disposed>>
  PROVE  SlotInv' /\ slot'.generation = slot.generation /\ slot'.worker = slot.worker /\ slot'.start = slot.start
<1>1. slot' \in SlotType /\ slot'.generation = slot.generation /\ slot'.worker = slot.worker
      /\ slot'.start = slot.start
      /\ (slot'.state # slot.state => slot.state = "quarantined" /\ slot'.state = "idle")
  BY DEF SlotInv, SlotType, Released, State
<1> QED
  BY <1>1 DEF SlotInv, NoOrphanWorker, SlotHoldsWorker, SlotHoldsStart, OthersAreOrphaned, OneStartPerGeneration

\* A new startup belongs to the generation of the slot.
LEMMA StartingKeepsSlot ==
  ASSUME SlotInv, NEW s \in Starts, NewStart(s), ~disposed, disposed' = disposed,
         Released.state # "running", slot.start = NoStart
  PROVE  /\ SlotInv'
         /\ slot'.generation = slot.generation /\ slot'.worker = slot.worker /\ slot'.start = s
<1>1. Released \in SlotType /\ Released.generation = slot.generation /\ Released.worker = slot.worker
      /\ (slot.state = "running" => Released.state = "running")
  BY DEF SlotInv, SlotType, Released, State
<1>2. slot' \in SlotType /\ slot'.generation = slot.generation /\ slot'.worker = slot.worker
      /\ slot'.start = s /\ slot'.state = "starting"
  BY <1>1 DEF NewStart, SlotType, State
<1>3. slot.worker = NoStart
  BY <1>1 DEF SlotInv, SlotHoldsWorker
<1>4. slot.generation \in Nat
  BY DEF SlotInv, SlotType
<1>5. starts' \in [Starts -> StartType]
  BY <1>4 DEF NewStart, SlotInv, StartType
<1>6. starts'[s].generation = slot.generation /\ starts'[s].status = "pending"
      /\ \A t \in Starts : t # s => starts'[t] = starts[t]
  BY DEF NewStart, SlotInv
<1>7. s # NoStart
  BY StartsAreNumbers
<1>8. \A t \in Starts : starts[t].status # "live" /\ starts[t].generation \in Nat
  BY <1>3, StartsAreNumbers DEF SlotInv, NoOrphanWorker, StartType
<1>9. NoOrphanWorker' /\ SlotHoldsWorker' /\ SlotHoldsStart'
  BY <1>2, <1>3, <1>6, <1>7, <1>8 DEF NoOrphanWorker, SlotHoldsWorker, SlotHoldsStart
<1>10. OthersAreOrphaned'
  BY <1>2, <1>4, <1>6, <1>8, StartsAreNumbers DEF SlotInv, OthersAreOrphaned
<1>11. OneStartPerGeneration'
  <2>1. \A t \in Starts : ~(starts[t].status = "pending" /\ starts[t].generation = slot.generation)
    BY StartsAreNumbers DEF SlotInv, OthersAreOrphaned
  <2> QED
    BY <1>6, <1>8, <2>1 DEF SlotInv, OneStartPerGeneration
<1> QED
  BY <1>2, <1>5, <1>9, <1>10, <1>11 DEF SlotInv

\* ensureWorker hands out the one worker, or the one startup, of the generation.
LEMMA EnsuringKeepsSlot ==
  ASSUME SlotInv, NEW s \in Starts, EnsureWorker(s), ~disposed, disposed' = disposed
  PROVE  /\ SlotInv'
         /\ slot'.generation = slot.generation /\ slot'.worker = slot.worker /\ slot'.start = s
         /\ slot.start \in {s, NoStart}
         /\ slot.worker # NoStart => slot.worker = s
         /\ Released.state = "running" => slot'.worker = s
<1>1. Released.generation = slot.generation /\ Released.worker = slot.worker /\ Released.start = slot.start
      /\ (slot.state = "running" <=> Released.state = "running")
  BY DEF SlotInv, SlotType, Released, State
<1>2. CASE Released.state = "running" /\ Released.worker = s /\ slot' = Released /\ UNCHANGED starts
  BY <1>1, <1>2, ReleasingKeepsSlot, StartsAreNumbers DEF SlotInv, SlotHoldsWorker
<1>3. CASE Released.state # "running" /\ Released.start = s /\ slot' = Released /\ UNCHANGED starts
  BY <1>1, <1>3, ReleasingKeepsSlot, StartsAreNumbers DEF SlotInv, SlotHoldsWorker
<1>4. CASE Released.state # "running" /\ Released.start = NoStart /\ NewStart(s)
  BY <1>1, <1>4, StartingKeepsSlot DEF SlotInv, SlotHoldsWorker
<1> QED
  BY <1>2, <1>3, <1>4 DEF EnsureWorker

\* A worker that is not stale when it comes up was started by the slot's own startup.
LEMMA AdoptingKeepsSlot ==
  ASSUME SlotInv, NEW s \in Starts, starts[s].status = "pending", ~Stale(s), disposed' = disposed,
         starts' = [starts EXCEPT ![s].status = "live"],
         slot' = [slot EXCEPT !.worker = s, !.state = "running"]
  PROVE  SlotInv' /\ slot.start = s /\ slot'.generation = slot.generation /\ slot'.worker = s /\ slot'.start = s
<1>1. slot.start = s /\ ~disposed /\ starts[s].generation = slot.generation /\ s # NoStart
  BY StartsAreNumbers DEF SlotInv, Stale, OthersAreOrphaned
<1>2. slot' \in SlotType /\ slot'.generation = slot.generation /\ slot'.worker = s /\ slot'.start = s
      /\ slot'.state = "running"
  BY <1>1 DEF SlotInv, SlotType, State
<1>3. starts' \in [Starts -> StartType]
  BY DEF SlotInv, StartType
<1>4. starts'[s].generation = starts[s].generation /\ starts'[s].status = "live"
      /\ \A t \in Starts : t # s => starts'[t] = starts[t]
  BY DEF SlotInv, StartType
<1>5. \A t \in Starts : starts[t].status # "live"
  BY <1>1, StartsAreNumbers DEF SlotInv, NoOrphanWorker, SlotHoldsWorker
<1>6. NoOrphanWorker' /\ SlotHoldsWorker' /\ SlotHoldsStart'
  BY <1>1, <1>2, <1>4, <1>5 DEF NoOrphanWorker, SlotHoldsWorker, SlotHoldsStart
<1>7. OthersAreOrphaned'
  BY <1>1, <1>2, <1>4 DEF SlotInv, OthersAreOrphaned
<1>8. OneStartPerGeneration'
  BY <1>4 DEF SlotInv, OneStartPerGeneration
<1> QED
  BY <1>1, <1>2, <1>3, <1>6, <1>7, <1>8 DEF SlotInv

\* A startup that fails, or comes too late, takes nothing of another generation with it.
LEMMA LosingAStartKeepsSlot ==
  ASSUME SlotInv, NEW s \in Starts, starts[s].status = "pending", disposed' = disposed,
         starts' = [starts EXCEPT ![s] = Gone],
         \/ slot.start # s /\ slot' = slot
         \/ slot.start = s /\ slot' = [slot EXCEPT !.start = NoStart, !.worker = NoStart, !.state = "idle"]
  PROVE  SlotInv' /\ slot'.generation = slot.generation
<1>1. slot' \in SlotType /\ slot'.generation = slot.generation
      /\ \/ slot.start # s /\ slot' = slot
         \/ /\ slot.start = s /\ slot'.start = NoStart /\ slot'.worker = NoStart /\ slot'.state = "idle"
  BY DEF SlotInv, SlotType, State
<1>2. starts' \in [Starts -> StartType]
  BY DEF SlotInv, StartType, Gone
<1>3. starts'[s].status = "gone" /\ starts'[s].generation = 0
      /\ \A t \in Starts : t # s => starts'[t] = starts[t]
  BY DEF SlotInv, Gone
<1>4. s # NoStart /\ slot.worker # s /\ slot.generation \in Nat \ {0}
  BY StartsAreNumbers DEF SlotInv, SlotHoldsWorker, SlotType
<1>5. slot.start = s => \A t \in Starts : starts[t].status # "live"
  BY <1>4, StartsAreNumbers DEF SlotInv, NoOrphanWorker, SlotHoldsWorker
<1>6. NoOrphanWorker' /\ SlotHoldsWorker' /\ SlotHoldsStart'
  BY <1>1, <1>3, <1>4, <1>5 DEF SlotInv, NoOrphanWorker, SlotHoldsWorker, SlotHoldsStart
<1>7. OthersAreOrphaned'
  BY <1>1, <1>3, <1>4 DEF SlotInv, OthersAreOrphaned
<1>8. OneStartPerGeneration'
  BY <1>3 DEF SlotInv, OneStartPerGeneration
<1> QED
  BY <1>1, <1>2, <1>6, <1>7, <1>8 DEF SlotInv

(* The requests *)

\* A request that has ended holds nothing.
LEMMA DoneIsTyped == \A outcome \in Outcome : Done(outcome) \in RequestType
                                             /\ Done(outcome).pc = "done" /\ Done(outcome).gen = 0
                                             /\ Done(outcome).outcome = outcome
  BY DEF Done, NewRequest, RequestType, Outcome, Lost

\* A step of one request leaves the others alone.
LEMMA OneRequestChanges ==
  ASSUME IInv, NEW r \in Requests, NEW fields \in RequestType, Set(r, fields)
  PROVE  /\ req' \in [Requests -> RequestType] /\ req'[r] = fields
         /\ \A q \in Requests : q # r => req'[q] = req[q]
  BY DEF IInv, TypeOK, Set

\* The types the arithmetic on generations needs.
LEMMA GenerationIsNatural ==
  IInv => slot.generation \in Nat /\ \A r \in Requests : req[r] \in RequestType /\ req[r].gen \in Nat
  BY DEF IInv, TypeOK, SlotType, RequestType

\* The slot of the next state has the same generation, worker and startup, or the next generation.
SameSlot == slot'.generation = slot.generation /\ slot'.worker = slot.worker /\ slot'.start = slot.start
NextSlot == slot'.generation = slot.generation + 1

\* A request that does not move keeps what it holds, or its generation is over.
LEMMA UntouchedHolds ==
  ASSUME IInv, NEW r \in Requests, req'[r] = req[r], SameSlot \/ NextSlot
  PROVE  RequestHolds(r)'
<1>1. RequestHolds(r) /\ slot.generation \in Nat /\ req[r].gen \in Nat
  BY GenerationIsNatural DEF IInv
<1>2. CASE SameSlot
  BY <1>1, <1>2 DEF SameSlot, RequestHolds, InFlight, Old
<1>3. CASE NextSlot
  BY <1>1, <1>3 DEF NextSlot, RequestHolds, InFlight, Old
<1> QED
  BY <1>2, <1>3

\* A request that ended holds nothing to keep.
LEMMA OverHolds ==
  ASSUME IInv, NEW r \in Requests, req'[r].pc = "done", req'[r].gen = 0, SameSlot \/ NextSlot
  PROVE  RequestHolds(r)'
  BY GenerationIsNatural DEF SameSlot, NextSlot, RequestHolds, InFlight

\* A request that only learns who won, or changes its watch or its flag.
LEMMA WinningHolds ==
  ASSUME IInv, NEW r \in Requests, SameSlot \/ NextSlot,
         req'[r].pc = req[r].pc, req'[r].gen = req[r].gen, req'[r].start = req[r].start,
         req'[r].won = req[r].won \/ req[r].pc # "starting" \/ req'[r].won \in Lost
  PROVE  RequestHolds(r)'
<1>1. RequestHolds(r) /\ slot.generation \in Nat /\ req[r].gen \in Nat
  BY GenerationIsNatural DEF IInv
<1>2. CASE SameSlot
  BY <1>1, <1>2 DEF SameSlot, RequestHolds, InFlight, Old, Lost
<1>3. CASE NextSlot
  BY <1>1, <1>3 DEF NextSlot, RequestHolds, InFlight, Old
<1> QED
  BY <1>2, <1>3

\* The invariant is the slot's part, the types and what each request holds.
LEMMA Assembled ==
  ASSUME SlotInv', req' \in [Requests -> RequestType], recent' \in Nat, disposed' \in BOOLEAN,
         \A r \in Requests : RequestHolds(r)'
  PROVE  IInv'
  BY DEF IInv, TypeOK, SlotInv

\* A step that leaves the slot alone keeps the slot's part.
LEMMA UnchangedSlot ==
  ASSUME IInv, UNCHANGED <<slot, starts, disposed>> PROVE SlotInv' /\ SameSlot
  BY DEF IInv, SlotInv, NoOrphanWorker, SlotHoldsWorker, SlotHoldsStart, OthersAreOrphaned, OneStartPerGeneration,
     SameSlot

\* A recycled slot is in its next generation.
LEMMA RecycledSlot == ASSUME IInv, RecycleSlot PROVE SlotInv' /\ NextSlot
  BY EmptyingKeepsSlot DEF IInv, RecycleSlot, NextSlot

(* The steps *)

\* One request ends or only learns something; the slot stays or is recycled.
LEMMA OneRequestStep ==
  ASSUME IInv, NEW r \in Requests, NEW fields \in RequestType, Set(r, fields), UNCHANGED <<recent, disposed>>,
         \/ UNCHANGED <<slot, starts>>
         \/ RecycleSlot,
         \/ fields.pc = "done" /\ fields.gen = 0
         \/ /\ fields.pc = req[r].pc /\ fields.gen = req[r].gen /\ fields.start = req[r].start
            /\ fields.won = req[r].won \/ req[r].pc # "starting" \/ fields.won \in Lost
  PROVE  IInv'
<1>1. /\ req' \in [Requests -> RequestType] /\ req'[r] = fields
      /\ \A q \in Requests : q # r => req'[q] = req[q]
  BY OneRequestChanges
<1>2. SlotInv' /\ (SameSlot \/ NextSlot)
  BY UnchangedSlot, RecycledSlot
<1>3. RequestHolds(r)'
  BY <1>1, <1>2, OverHolds, WinningHolds
<1>4. \A q \in Requests : q # r => RequestHolds(q)'
  BY <1>1, <1>2, UntouchedHolds
<1> QED
  BY <1>1, <1>2, <1>3, <1>4, Assembled DEF IInv, TypeOK

\* The slot changes and no request does.
LEMMA OwnerStep ==
  ASSUME IInv, SlotInv', SameSlot \/ NextSlot, UNCHANGED req, recent' \in Nat, disposed' \in BOOLEAN
  PROVE  IInv'
  BY UntouchedHolds, Assembled DEF IInv, TypeOK

\* A startup that settles decides the race of exactly the requests that await it.
LEMMA WakingKeepsRequests ==
  ASSUME IInv, NEW s \in Starts, NEW event \in {"reply", "faulted"}, Wake(s, event)
  PROVE  /\ req' \in [Requests -> RequestType]
         /\ \A r \in Requests :
              /\ r \notin Awaiting(s) => req'[r] = req[r]
              /\ r \in Awaiting(s) =>
                   /\ req'[r].pc = "starting" /\ req'[r].gen = req[r].gen /\ req'[r].start = s
                   /\ req'[r].won = event
<1>1. \A r \in Requests : [req[r] EXCEPT !.won = event] \in RequestType
  BY GenerationIsNatural DEF RequestType, Lost
<1>2. \A r \in Requests : r \in Awaiting(s) => req'[r] = [req[r] EXCEPT !.won = event]
  BY DEF Wake
<1>3. \A r \in Requests : r \notin Awaiting(s) => req'[r] = req[r]
  BY DEF Wake
<1>4. req' \in [Requests -> RequestType]
  BY <1>1, GenerationIsNatural DEF Wake
<1>5. \A r \in Requests : r \in Awaiting(s) => req[r].pc = "starting" /\ req[r].start = s
  BY DEF Awaiting
<1>6. \A r \in Requests : r \in Awaiting(s) =>
        req'[r].pc = req[r].pc /\ req'[r].gen = req[r].gen /\ req'[r].start = req[r].start /\ req'[r].won = event
  BY <1>2, GenerationIsNatural DEF RequestType
<1> QED
  BY <1>3, <1>4, <1>5, <1>6

\* Nobody else holds anything while the startup of the slot is under way.
LEMMA OnlyAwaitingHold ==
  ASSUME IInv, Quiet, NEW s \in Starts, starts[s].status = "pending", slot.start = s,
         NEW r \in Requests, r \in InFlight, ~Old(r)
  PROVE  r \in Awaiting(s)
<1>1. req[r].won = "none" /\ RequestHolds(r) /\ SlotHoldsWorker
  BY DEF Quiet, IInv, SlotInv
<1>2. slot.worker = NoStart
  BY <1>1, StartsAreNumbers DEF SlotHoldsWorker
<1> QED
  BY <1>1, <1>2 DEF RequestHolds, Awaiting

\* A request ends, and the slot stays or is recycled.
LEMMA EndingStep ==
  ASSUME IInv, NEW r \in Requests, NEW outcome \in Outcome, Set(r, Done(outcome)), UNCHANGED <<recent, disposed>>,
         UNCHANGED <<slot, starts>> \/ RecycleSlot
  PROVE  IInv'
  BY DoneIsTyped, OneRequestStep

\* The outcomes other than ok.
LEMMA LostAreOutcomes ==
  Lost \cup {"stale", "faulted", "refused", "deadlineExceeded"} \subseteq Outcome \ {"ok"}
  BY DEF Lost, Outcome

\* An answered request goes on with the worker of the slot.
LEMMA GoingOnStep ==
  ASSUME IInv, NEW r \in Requests, ~Old(r), r \in InFlight, req[r].won = "reply",
         NEW pc \in {"sending", "measuring"}, NEW watch \in {"off", "waiting"},
         Set(r, [req[r] EXCEPT !.pc = pc, !.watch = watch, !.won = "none"]),
         UNCHANGED <<slot, starts, recent, disposed>>
  PROVE  IInv'
<1> DEFINE fields == [req[r] EXCEPT !.pc = pc, !.watch = watch, !.won = "none"]
<1>1. fields \in RequestType /\ fields.pc = pc /\ fields.gen = req[r].gen /\ fields.start = req[r].start
  BY GenerationIsNatural DEF RequestType
<1>2. Set(r, fields)
  OBVIOUS
<1> HIDE DEF fields
<1>3. /\ req' \in [Requests -> RequestType] /\ req'[r] = fields
      /\ \A q \in Requests : q # r => req'[q] = req[q]
  BY <1>1, <1>2, OneRequestChanges
<1>4. slot.worker = req[r].start /\ slot.worker # NoStart /\ req[r].gen <= slot.generation
  BY DEF IInv, RequestHolds
<1>5. RequestHolds(r)'
  BY <1>1, <1>3, <1>4 DEF RequestHolds
<1>6. SlotInv' /\ SameSlot
  BY UnchangedSlot
<1>7. \A q \in Requests : q # r => RequestHolds(q)'
  BY <1>3, <1>6, UntouchedHolds
<1> QED
  BY <1>3, <1>5, <1>6, <1>7, Assembled DEF IInv, TypeOK

\* Every step of the supervisor keeps the invariant.
LEMMA NextHolds == IInv /\ [Next]_vars => IInv'
<1> SUFFICES ASSUME IInv, [Next]_vars PROVE IInv'
  OBVIOUS
<1>1. ASSUME NEW r \in Requests, Refuse(r)
      PROVE  IInv'
  <2>1. PICK outcome \in {"refused", "cancelled", "crashLoop"} : Set(r, Done(outcome))
    BY <1>1 DEF Refuse
  <2>2. outcome \in Outcome
    BY DEF Outcome
  <2> QED
    BY <1>1, <2>1, <2>2, DoneIsTyped, OneRequestStep DEF Refuse
<1>2. ASSUME NEW r \in Requests, Request(r)
      PROVE  IInv'
  <2> DEFINE fields(s) == [req[r] EXCEPT !.pc = "starting", !.gen = slot.generation, !.start = s,
                                         !.won = IF Released.state = "running" THEN "reply" ELSE "none"]
  <2>1. PICK s \in Starts : EnsureWorker(s) /\ Set(r, fields(s))
    BY <1>2 DEF Request
  <2>2. ~disposed /\ disposed' = disposed /\ SlotInv
    BY <1>2 DEF Request, IInv
  <2>3. SlotInv' /\ slot'.generation = slot.generation /\ slot'.worker = slot.worker /\ slot'.start = s
        /\ slot.start \in {s, NoStart} /\ (slot.worker # NoStart => slot.worker = s)
        /\ (Released.state = "running" => slot'.worker = s)
    BY <2>1, <2>2, EnsuringKeepsSlot
  <2>4. fields(s) \in RequestType
    BY GenerationIsNatural DEF RequestType
  <2>5. fields(s).pc = "starting" /\ fields(s).gen = slot.generation /\ fields(s).start = s
        /\ fields(s).won = (IF Released.state = "running" THEN "reply" ELSE "none")
    BY GenerationIsNatural DEF RequestType
  <2> HIDE DEF fields
  <2>6. /\ req' \in [Requests -> RequestType] /\ req'[r] = fields(s)
        /\ \A q \in Requests : q # r => req'[q] = req[q]
    BY <2>1, <2>4, OneRequestChanges
  <2>7. RequestHolds(r)'
    BY <2>3, <2>5, <2>6, GenerationIsNatural, StartsAreNumbers DEF RequestHolds
  <2>8. ASSUME NEW q \in Requests, q # r PROVE RequestHolds(q)'
    <3>1. RequestHolds(q) /\ req'[q] = req[q]
      BY <2>6, <2>8 DEF IInv
    <3>2. slot.worker # NoStart => slot.start = slot.worker
      BY DEF IInv, SlotInv, SlotHoldsWorker
    <3> QED
      BY <2>3, <3>1, <3>2 DEF RequestHolds, InFlight, Old
  <2> QED
    BY <1>2, <2>2, <2>3, <2>6, <2>7, <2>8, Assembled DEF IInv, TypeOK, Request
<1>3. ASSUME Prepare
      PROVE  IInv'
  <2>1. PICK s \in Starts : EnsureWorker(s)
    BY <1>3 DEF Prepare
  <2>2. ~disposed /\ UNCHANGED <<req, recent, disposed>> /\ SlotInv
    BY <1>3 DEF Prepare, IInv
  <2>3. SlotInv' /\ slot'.generation = slot.generation /\ slot'.worker = slot.worker /\ slot'.start = s
        /\ slot.start \in {s, NoStart}
    BY <2>1, <2>2, EnsuringKeepsSlot
  <2>4. ASSUME NEW q \in Requests PROVE RequestHolds(q)'
    BY <2>2, <2>3 DEF IInv, RequestHolds, InFlight, Old
  <2> QED
    BY <2>2, <2>3, <2>4, Assembled DEF IInv, TypeOK
<1>4. ASSUME NEW r \in Requests, Abort(r) \/ Deadline(r) \/ Reply(r) \/ Usage(r) \/ Poll(r) \/ Probe(r)
      PROVE  IInv'
  <2>1. req[r] \in RequestType
    BY GenerationIsNatural
  <2>2. UNCHANGED <<slot, starts, recent, disposed>>
    BY <1>4 DEF Abort, Deadline, Reply, Usage, Poll, Probe
  <2>3. CASE Abort(r)
    <3> DEFINE fields == [req[r] EXCEPT !.aborted = TRUE, !.won = IF r \in InFlight THEN "cancelled" ELSE "none"]
    <3>1. fields \in RequestType /\ fields.pc = req[r].pc /\ fields.gen = req[r].gen /\ fields.start = req[r].start
          /\ (req[r].pc # "starting" \/ fields.won \in Lost)
      BY <2>1 DEF RequestType, Lost, InFlight
    <3>2. Set(r, fields)
      BY <1>4, <2>3 DEF Abort
    <3> QED
      BY <2>2, <3>1, <3>2, OneRequestStep
  <2>4. ASSUME NEW event \in {"reply", "refused", "stale", "exceeds", "unresponsive"} \cup Lost, Wins(r, event),
               req[r].pc # "starting" \/ event \in Lost
        PROVE  IInv'
    <3> DEFINE fields == [req[r] EXCEPT !.won = event]
    <3>1. fields \in RequestType /\ fields.pc = req[r].pc /\ fields.gen = req[r].gen /\ fields.start = req[r].start
          /\ fields.won = event
      BY <2>1 DEF RequestType
    <3>2. Set(r, fields)
      BY <2>4 DEF Wins
    <3> QED
      BY <2>2, <2>4, <3>1, <3>2, OneRequestStep
  <2>5. ASSUME NEW state \in {"off", "waiting", "probing"}, Watch(r, state) PROVE IInv'
    <3> DEFINE fields == [req[r] EXCEPT !.watch = state]
    <3>1. fields \in RequestType /\ fields.pc = req[r].pc /\ fields.gen = req[r].gen /\ fields.start = req[r].start
          /\ fields.won = req[r].won
      BY <2>1 DEF RequestType
    <3>2. Set(r, fields)
      BY <2>5 DEF Watch
    <3> QED
      BY <2>2, <3>1, <3>2, OneRequestStep
  <2>6. CASE Deadline(r)
    BY <2>4, <2>6 DEF Deadline, Lost
  <2>7. CASE Reply(r)
    BY <2>4, <2>7 DEF Reply, Lost
  <2>8. CASE Usage(r)
    BY <2>4, <2>8 DEF Usage, Lost
  <2>9. CASE Poll(r)
    BY <2>5, <2>9 DEF Poll
  <2>10. CASE Probe(r)
    BY <2>5, <2>10 DEF Probe
  <2> QED
    BY <1>4, <2>3, <2>6, <2>7, <2>8, <2>9, <2>10
<1>5. ASSUME NEW s \in Starts, StartResolves(s)
      PROVE  IInv'
  <2>1. Quiet /\ starts[s].status = "pending" /\ disposed' = disposed /\ recent' = recent /\ SlotInv
    BY <1>5 DEF StartResolves, IInv
  <2>2. CASE /\ ~Stale(s)
             /\ starts' = [starts EXCEPT ![s].status = "live"]
             /\ slot' = [slot EXCEPT !.worker = s, !.state = "running"]
             /\ Wake(s, "reply")
    <3>1. SlotInv' /\ slot.start = s /\ slot'.generation = slot.generation /\ slot'.worker = s /\ slot'.start = s
      BY <2>1, <2>2, AdoptingKeepsSlot
    <3>2. /\ req' \in [Requests -> RequestType]
          /\ \A r \in Requests :
               /\ r \notin Awaiting(s) => req'[r] = req[r]
               /\ r \in Awaiting(s) =>
                    /\ req'[r].pc = "starting" /\ req'[r].gen = req[r].gen /\ req'[r].start = s
                    /\ req'[r].won = "reply"
      BY <2>2, WakingKeepsRequests
    <3>3. ASSUME NEW r \in Requests PROVE RequestHolds(r)'
      <4>1. CASE r \in Awaiting(s)
        BY <3>1, <3>2, <4>1, StartsAreNumbers DEF IInv, RequestHolds
      <4>2. CASE r \notin Awaiting(s)
        <5>1. ~(r \in InFlight /\ ~Old(r)) /\ req'[r] = req[r]
          BY <2>1, <3>1, <3>2, <4>2, OnlyAwaitingHold
        <5> QED
          BY <3>1, <5>1 DEF IInv, RequestHolds, InFlight, Old
      <4> QED
        BY <4>1, <4>2
    <3> QED
      BY <2>1, <3>1, <3>2, <3>3, Assembled DEF IInv, TypeOK
  <2>3. CASE Stale(s) /\ starts' = [starts EXCEPT ![s] = Gone] /\ UNCHANGED slot /\ Wake(s, "faulted")
    <3>1. slot.start # s
      BY <2>1, <2>3, StartsAreNumbers DEF SlotInv, SlotHoldsStart, Stale
    <3>2. SlotInv' /\ SameSlot
      BY <2>1, <2>3, <3>1, LosingAStartKeepsSlot DEF SameSlot
    <3>3. /\ req' \in [Requests -> RequestType]
          /\ \A r \in Requests :
               /\ r \notin Awaiting(s) => req'[r] = req[r]
               /\ r \in Awaiting(s) =>
                    /\ req'[r].pc = "starting" /\ req'[r].gen = req[r].gen /\ req'[r].start = s
                    /\ req'[r].won = "faulted"
      BY <2>3, WakingKeepsRequests
    <3>4. ASSUME NEW r \in Requests PROVE RequestHolds(r)'
      <4>1. CASE r \in Awaiting(s)
        BY <3>2, <3>3, <4>1, WinningHolds DEF Awaiting, Lost
      <4>2. CASE r \notin Awaiting(s)
        BY <3>2, <3>3, <4>2, UntouchedHolds
      <4> QED
        BY <4>1, <4>2
    <3> QED
      BY <2>1, <3>2, <3>3, <3>4, Assembled DEF IInv, TypeOK
  <2> QED
    BY <1>5, <2>2, <2>3 DEF StartResolves
<1>6. ASSUME NEW s \in Starts, StartRejects(s)
      PROVE  IInv'
  <2>1. Quiet /\ starts[s].status = "pending" /\ disposed' = disposed /\ recent' = recent /\ SlotInv
    BY <1>6 DEF StartRejects, IInv
  <2>2. SlotInv' /\ slot'.generation = slot.generation /\ (slot.start # s => slot' = slot)
    BY <1>6, <2>1, LosingAStartKeepsSlot DEF StartRejects
  <2>3. /\ req' \in [Requests -> RequestType]
        /\ \A r \in Requests :
             /\ r \notin Awaiting(s) => req'[r] = req[r]
             /\ r \in Awaiting(s) =>
                  /\ req'[r].pc = "starting" /\ req'[r].gen = req[r].gen /\ req'[r].start = s
                  /\ req'[r].won = "faulted"
    BY <1>6, WakingKeepsRequests DEF StartRejects
  <2>4. ASSUME NEW r \in Requests PROVE RequestHolds(r)'
    <3>1. CASE r \in Awaiting(s)
      BY <2>2, <2>3, <3>1 DEF IInv, RequestHolds
    <3>2. CASE r \notin Awaiting(s) /\ slot.start # s
      BY <2>2, <2>3, <3>2, UntouchedHolds DEF SameSlot
    <3>3. CASE r \notin Awaiting(s) /\ slot.start = s
      <4>1. ~(r \in InFlight /\ ~Old(r)) /\ req'[r] = req[r]
        BY <2>1, <2>3, <3>3, OnlyAwaitingHold
      <4> QED
        BY <2>2, <4>1 DEF IInv, RequestHolds, InFlight, Old
    <3> QED
      BY <3>1, <3>2, <3>3
  <2> QED
    BY <2>1, <2>2, <2>3, <2>4, Assembled DEF IInv, TypeOK
<1>7. ASSUME NEW r \in Requests, Resume(r)
      PROVE  IInv'
  <2>1. UNCHANGED <<recent, disposed>>
    BY <1>7 DEF Resume
  <2>2. CASE ResumeStarting(r)
    <3>1. CASE req[r].won \in Lost /\ RecycleSlot /\ Set(r, Done(req[r].won))
      BY <2>1, <3>1, LostAreOutcomes, EndingStep
    <3>2. CASE UNCHANGED <<slot, starts>> /\ \E outcome \in {"stale", "faulted"} : Set(r, Done(outcome))
      BY <2>1, <3>2, LostAreOutcomes, EndingStep
    <3>3. CASE /\ req[r].won = "reply" /\ ~Old(r) /\ UNCHANGED <<slot, starts>>
               /\ Set(r, [req[r] EXCEPT !.pc = "sending", !.watch = "waiting", !.won = "none"])
      BY <2>1, <2>2, <3>3, GoingOnStep DEF ResumeStarting, InFlight
    <3> QED
      BY <2>2, <3>1, <3>2, <3>3 DEF ResumeStarting
  <2>3. CASE ResumeSending(r)
    <3>1. CASE UNCHANGED <<slot, starts>> /\ \E outcome \in Lost \cup {"stale", "refused"} : Set(r, Done(outcome))
      BY <2>1, <3>1, LostAreOutcomes, EndingStep
    <3>2. CASE /\ req[r].won = "reply" /\ ~Old(r) /\ UNCHANGED <<slot, starts>>
               /\ Set(r, [req[r] EXCEPT !.pc = "measuring", !.watch = "off", !.won = "none"])
      BY <2>1, <2>3, <3>2, GoingOnStep DEF ResumeSending, InFlight
    <3> QED
      BY <2>3, <3>1, <3>2 DEF ResumeSending
  <2>4. CASE ResumeMeasuring(r)
    <3>1. CASE RecycleSlot /\ Set(r, Done("faulted"))
      BY <2>1, <3>1, LostAreOutcomes, EndingStep
    <3>2. CASE UNCHANGED <<slot, starts>>
               /\ \E outcome \in Lost \cup {"stale", "ok", "deadlineExceeded"} : Set(r, Done(outcome))
      BY <2>1, <3>2, LostAreOutcomes, EndingStep DEF Outcome
    <3> QED
      BY <2>4, <3>1, <3>2 DEF ResumeMeasuring
  <2> QED
    BY <1>7, <2>2, <2>3, <2>4 DEF Resume
<1>8. ASSUME NEW r \in Requests, ProbeFails(r)
      PROVE  IInv'
  <2> DEFINE fields == [req[r] EXCEPT !.watch = "off", !.won = "faulted"]
  <2>1. fields \in RequestType /\ fields.pc = req[r].pc /\ fields.gen = req[r].gen /\ fields.start = req[r].start
        /\ fields.won \in Lost
    BY GenerationIsNatural DEF RequestType, Lost
  <2>2. Set(r, fields) /\ RecycleSlot /\ UNCHANGED <<recent, disposed>>
    BY <1>8 DEF ProbeFails
  <2> QED
    BY <2>1, <2>2, OneRequestStep
<1>9. ASSUME RecordCrash
      PROVE  IInv'
  <2>1. PICK state \in {"quarantined", "crashLoop"} : slot' = Emptied(state)
    BY <1>9 DEF RecordCrash
  <2>2. starts' = WithoutWorker /\ UNCHANGED <<req, disposed>> /\ recent' \in Nat
    BY <1>9 DEF RecordCrash, RecentCrashes, IInv, TypeOK
  <2>3. SlotInv' /\ NextSlot
    BY <2>1, <2>2, EmptyingKeepsSlot DEF IInv, NextSlot
  <2> QED
    BY <2>2, <2>3, OwnerStep DEF IInv, TypeOK
<1>10. ASSUME Recycle \/ Dispose \/ Elapse \/ Observe
      PROVE  IInv'
  <2>1. recent' \in Nat /\ disposed' \in BOOLEAN /\ UNCHANGED req
    BY <1>10 DEF IInv, TypeOK, Recycle, Dispose, Elapse, Observe
  <2>2. CASE Recycle \/ Dispose
    BY <1>10, <2>1, <2>2, RecycledSlot, OwnerStep DEF Recycle, Dispose
  <2>3. CASE Observe
    BY <1>10, <2>1, <2>3, ReleasingKeepsSlot, OwnerStep DEF Observe, IInv, SameSlot
  <2>4. CASE Elapse
    <3>1. slot' \in SlotType /\ SameSlot /\ slot'.state = slot.state
      BY <1>10, <2>4 DEF Elapse, IInv, SlotInv, SlotType, SameSlot
    <3>2. starts' = starts /\ disposed' = disposed
      BY <1>10, <2>4 DEF Elapse
    <3>3. SlotInv'
      BY <3>1, <3>2 DEF IInv, SlotInv, NoOrphanWorker, SlotHoldsWorker, SlotHoldsStart, OthersAreOrphaned,
         OneStartPerGeneration, SameSlot
    <3> QED
      BY <2>1, <3>1, <3>3, OwnerStep
  <2> QED
    BY <1>10, <2>2, <2>3, <2>4
<1>11. CASE UNCHANGED vars
    BY <1>11, UnchangedSlot, OwnerStep DEF vars, IInv, TypeOK
<1> QED
  BY <1>1, <1>2, <1>3, <1>4, <1>5, <1>6, <1>7, <1>8, <1>9, <1>10, <1>11 DEF Next

(* Who answers ok *)

\* A request that ends with another outcome was not answered.
LEMMA EndedOtherwise ==
  ASSUME IInv, NEW q \in Requests, NEW outcome \in Outcome, outcome # "ok", Set(q, Done(outcome)), NEW r \in Requests
  PROVE  ~Answered(r)
  BY DoneIsTyped, OneRequestChanges DEF Answered

\* A request that keeps its outcome was not answered.
LEMMA WentOn ==
  ASSUME IInv, NEW q \in Requests, NEW fields, Set(q, fields), fields.outcome = req[q].outcome, NEW r \in Requests
  PROVE  ~Answered(r)
  BY DEF IInv, TypeOK, Set, Answered

(***************************************************************************)
(* The theorems                                                             *)
(***************************************************************************)

\* The slot of request(), ensureWorker, recycle and recordCrash is always in one of the
\* states IInv describes.
THEOREM SupervisorInvariant == Spec => []IInv
  BY InitHolds, NextHolds, PTL DEF Spec

\* disposeWorker reaches every worker that ensureWorker adopted.
THEOREM NoWorkerIsOrphaned == Spec => []NoOrphanWorker
<1>1. IInv => NoOrphanWorker
  BY DEF IInv, SlotInv
<1> QED
  BY <1>1, SupervisorInvariant, PTL

\* ensureWorker's shared promise: two startups of one generation are never both alive.
THEOREM StartupIsShared == Spec => []OneStartPerGeneration
<1>1. IInv => OneStartPerGeneration
  BY DEF IInv, SlotInv
<1> QED
  BY <1>1, SupervisorInvariant, PTL

\* "Late replies cannot win": request() answers ok only for a reply of the worker the slot
\* still serves from, whatever happened while it awaited the reply and the health query.
THEOREM LateRepliesCannotWin == Spec => OkIsCurrent
<1>1. IInv /\ [Next]_vars =>
        [\A r \in Requests : Answered(r) => slot.worker = req[r].start /\ starts[slot.worker].status = "live"]_vars
  <2> SUFFICES ASSUME IInv, Next, NEW r \in Requests, Answered(r)
               PROVE  slot.worker = req[r].start /\ starts[slot.worker].status = "live"
    OBVIOUS
  <2>1. ASSUME NEW q \in Requests, Resume(q)
        PROVE  slot.worker = req[r].start /\ starts[slot.worker].status = "live"
    <3>1. req[q] \in RequestType
      BY GenerationIsNatural
    <3>2. ~ \E outcome \in Lost \cup {"stale", "faulted", "refused", "deadlineExceeded"} : Set(q, Done(outcome))
      BY LostAreOutcomes, EndedOtherwise
    <3>3. ~ \E pc, watch, won : Set(q, [req[q] EXCEPT !.pc = pc, !.watch = watch, !.won = won])
      BY <3>1, WentOn DEF RequestType
    <3>4. ~ResumeStarting(q)
      BY <3>2, <3>3 DEF ResumeStarting
    <3>5. ~ResumeSending(q)
      BY <3>2, <3>3 DEF ResumeSending
    <3>6. req[q].pc = "measuring" /\ ~Old(q) /\ Set(q, Done("ok"))
      BY <2>1, <3>2, <3>4, <3>5 DEF Resume, ResumeMeasuring
    <3>7. q = r
      BY <3>6, DoneIsTyped, OneRequestChanges DEF Answered, Outcome
    <3> QED
      BY <3>6, <3>7 DEF IInv, SlotInv, SlotHoldsWorker, RequestHolds, InFlight
  <2>2. ASSUME NEW q \in Requests,
               \/ Refuse(q) \/ Request(q) \/ Abort(q) \/ Deadline(q) \/ Reply(q)
               \/ Usage(q) \/ Poll(q) \/ Probe(q) \/ ProbeFails(q)
        PROVE  FALSE
    <3>1. req[q] \in RequestType
      BY GenerationIsNatural
    <3>2. CASE Refuse(q)
      <4>1. PICK outcome \in {"refused", "cancelled", "crashLoop"} : Set(q, Done(outcome))
        BY <3>2 DEF Refuse
      <4> QED
        BY <4>1, EndedOtherwise DEF Outcome
    <3>3. CASE Request(q)
      BY <3>1, <3>3, WentOn DEF Request, RequestType
    <3>4. CASE Abort(q)
      BY <3>1, <3>4, WentOn DEF Abort, RequestType
    <3>5. ASSUME NEW event, Wins(q, event) PROVE FALSE
      BY <3>1, <3>5, WentOn DEF Wins, RequestType
    <3>6. ASSUME NEW state, Watch(q, state) PROVE FALSE
      BY <3>1, <3>6, WentOn DEF Watch, RequestType
    <3>7. CASE ProbeFails(q)
      BY <3>1, <3>7, WentOn DEF ProbeFails, RequestType
    <3> QED
      BY <2>2, <3>2, <3>3, <3>4, <3>5, <3>6, <3>7 DEF Deadline, Reply, Usage, Poll, Probe
  <2>3. ASSUME NEW s \in Starts, StartResolves(s) \/ StartRejects(s)
        PROVE  FALSE
    <3>1. req'[r] = req[r] \/ \E event : req'[r] = [req[r] EXCEPT !.won = event]
      BY <2>3 DEF StartResolves, StartRejects, Wake
    <3> QED
      BY <3>1, GenerationIsNatural DEF Answered, RequestType
  <2>4. CASE Prepare \/ Recycle \/ RecordCrash \/ Elapse \/ Observe \/ Dispose
    BY <2>4 DEF Prepare, Recycle, RecordCrash, Elapse, Observe, Dispose, Answered
  <2> QED
    BY <2>1, <2>2, <2>3, <2>4 DEF Next
<1> QED
  BY <1>1, SupervisorInvariant, PTL DEF Spec, OkIsCurrent
=============================================================================
