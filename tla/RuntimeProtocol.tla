--------------------------- MODULE RuntimeProtocol ---------------------------
(***************************************************************************)
(* The engine's side of a request (engine/RuntimeProtocol.cs, compiled into *)
(* both engines): admission, the queue of one, cancellation and deadlines,  *)
(* the freshness of a document's revision and generation, and the record    *)
(* that lets a mutation be asked for again without running again.           *)
(*                                                                          *)
(* Every request runs on a thread of its own (ExecuteV2Envelope is a        *)
(* Task.Run), so one action is what a thread does inside one lock, or up to *)
(* its next await.  A version stands for a revision and its source hash, a  *)
(* payload for what its hash tells, a document for its session and id.      *)
(***************************************************************************)
EXTENDS Naturals, Sequences, FiniteSets

CONSTANTS
  Requests,      \* a request, known by its id; its cancellation token is `${id}:cancel`
  Documents, Versions, Payloads,
  Commands,      \* command ids of mutations
  NoCommand,     \* the command of a read
  MaxPending,    \* 64
  MaxDocuments,  \* 1024
  MaxRecords,    \* 256
  MaxCancelled   \* 256

ASSUME ProtocolAssumption ==
  /\ NoCommand \notin Commands
  /\ MaxPending \in Nat \ {0} /\ MaxDocuments \in Nat \ {0}
  /\ MaxRecords \in Nat \ {0} /\ MaxCancelled \in Nat \ {0}

Envelope == [document : Documents, generation : Nat, version : Versions,
             command : Commands \cup {NoCommand}, payload : Payloads]
Unknown == [generation |-> 0, version |-> "none"]

VARIABLES
  pc,         \* where the thread of a request is
  envelope,   \* what was asked
  signals,    \* "deadline" has passed; its cancellation "token" is set: the RPC's, and once linked the source too
  outcome,    \* what it is or will be answered
  free,       \* _dispatch has its one place free
  pending,    \* _pending
  documents,  \* _documents: the newest generation admitted, and its version
  cancelled,  \* _cancelled, in the order of _cancelOrder
  picked,     \* sources a Cancel call has read and not yet cancelled
  records,    \* _operations, in the order of _operationOrder
  runs        \* history: how often a command ran since its record was last dropped

router == <<free, pending, documents, cancelled, picked, records, runs>>
vars == <<pc, envelope, signals, outcome, router>>

Known(d) == documents[d] # Unknown
Key(r) == <<envelope[r].document, envelope[r].command>>
Mutation(r) == envelope[r].command # NoCommand

Holding == {"entered", "checked", "running", "leaving"}  \* has entered the dispatch and not released it
Registered(r) == pc[r] \in Holding \cup {"queued", "withdrawn"}
InFlight == {r \in Requests : Registered(r) \/ pc[r] = "admitted"}
Signalled(r) == signals[r] # {}
InCancelled(r) == \E i \in DOMAIN cancelled : cancelled[i] = r

Init ==
  /\ pc = [r \in Requests |-> "new"]
  /\ envelope = [r \in Requests |-> Unknown]
  /\ signals = [r \in Requests |-> {}]
  /\ outcome = [r \in Requests |-> "none"]
  /\ free = TRUE /\ pending = 0
  /\ documents = [d \in Documents |-> Unknown]
  /\ cancelled = <<>> /\ picked = {} /\ records = <<>>
  /\ runs = [k \in Documents \X Commands |-> 0]

------------------------------------------------------------------------------
(* What the client and the clock do. *)

Send(r, e) ==
  /\ pc[r] = "new"
  /\ pc' = [pc EXCEPT ![r] = "sent"]
  /\ envelope' = [envelope EXCEPT ![r] = e]
  /\ UNCHANGED <<signals, outcome, router>>

\* Once the answer is known nothing reads them any more.
Signal(r, s) ==
  /\ pc[r] \in {"sent", "admitted", "queued", "entered", "checked", "running"}
  /\ signals' = [signals EXCEPT ![r] = @ \cup {s}]
  /\ UNCHANGED <<pc, envelope, outcome, free, pending, documents, cancelled, records, runs>>

\* The deadline passes; where a source is linked its CancelAfter fires with it.
Expire(r) == Signal(r, "deadline") /\ UNCHANGED picked

\* The client cancels the RPC itself.
CancelRpc(r) == Signal(r, "token") /\ UNCHANGED picked

Last(s, n) == IF Len(s) <= n THEN s ELSE SubSeq(s, Len(s) - n + 1, Len(s))

\* Cancel: inside the lock ...  A token names one request: once that is done it is only kept.
Cancel(r) ==
  /\ pc[r] # "done"
  /\ cancelled' = IF InCancelled(r) THEN cancelled ELSE Last(Append(cancelled, r), MaxCancelled)
  /\ picked' = IF Registered(r) THEN picked \cup {r} ELSE picked
  /\ UNCHANGED <<pc, envelope, signals, outcome, free, pending, documents, records, runs>>

\* ... and after it.  The source of a request that is done is disposed.
CancelSource(r) == r \in picked /\ picked' = picked \ {r} /\ Signal(r, "token")

------------------------------------------------------------------------------
(* ExecuteAsync. *)

\* Check: what stands against the request, given what its token says.
Check(r, isCancelled) ==
  LET current == documents[envelope[r].document] IN
    CASE "deadline" \in signals[r] -> "deadline"
      [] "deadline" \notin signals[r] /\ (isCancelled \/ InCancelled(r)) -> "cancelled"
      [] OTHER -> IF \/ envelope[r].generation < current.generation
                     \/ envelope[r].generation = current.generation /\ envelope[r].version # current.version
                  THEN "stale" ELSE "none"

Early(r) == Check(r, "token" \in signals[r])

Goto(r, place, answer) ==
  /\ pc' = [pc EXCEPT ![r] = place]
  /\ outcome' = [outcome EXCEPT ![r] = answer]
  /\ signals' = IF answer = "none" THEN signals ELSE [signals EXCEPT ![r] = {}]
  /\ UNCHANGED envelope

\* The reply is sent, and nothing of the request is left.
Replied(r) ==
  /\ pc' = [pc EXCEPT ![r] = "done"]
  /\ outcome' = [outcome EXCEPT ![r] = "none"]
  /\ signals' = [signals EXCEPT ![r] = {}]
  /\ envelope' = [envelope EXCEPT ![r] = Unknown]

Full(r) ==
  \/ pending >= MaxPending
  \/ ~Known(envelope[r].document) /\ Cardinality({d \in Documents : Known(d)}) >= MaxDocuments

\* An envelope may be invalid, of another version or build, without a method this engine has or without
\* the command id a mutation needs; then Check, then the limits.
Refuse(r) ==
  /\ pc[r] = "sent"
  /\ \E answer \in {"refused", Early(r)} \ {"none"} : Goto(r, "refused", answer)
  /\ UNCHANGED router
Reply(r) == pc[r] = "refused" /\ Replied(r) /\ UNCHANGED router

Newest(r) == [generation |-> envelope[r].generation, version |-> envelope[r].version]

Admit(r) ==
  /\ pc[r] = "sent"
  /\ Early(r) = "none" /\ ~Full(r)
  /\ documents' = [documents EXCEPT ![envelope[r].document] =
                     IF ~Known(envelope[r].document) \/ envelope[r].generation > @.generation
                     THEN Newest(r) ELSE @]
  /\ pending' = pending + 1
  /\ Goto(r, "admitted", "none")
  /\ UNCHANGED <<free, cancelled, picked, records, runs>>

\* The linked source is registered and its timer set; then the dispatch is awaited.
Register(r) ==
  /\ pc[r] = "admitted"
  /\ pc' = [pc EXCEPT ![r] = "queued"]
  /\ signals' = [signals EXCEPT ![r] = IF InCancelled(r) THEN @ \cup {"token"} ELSE @]
  /\ UNCHANGED <<envelope, outcome, router>>

\* SemaphoreSlim promises no order.  A grant and a cancellation may cross.
Enter(r) ==
  /\ pc[r] = "queued" /\ free
  /\ free' = FALSE
  /\ Goto(r, "entered", "none")
  /\ UNCHANGED <<pending, documents, cancelled, picked, records, runs>>

\* Mutant: CancelAfter is not set.
WithdrawUntimed(r) ==
  /\ pc[r] = "queued" /\ "token" \in signals[r]
  /\ Goto(r, "withdrawn", "cancelled")
  /\ UNCHANGED router

Withdraw(r) ==
  /\ pc[r] = "queued" /\ Signalled(r)
  /\ Goto(r, "withdrawn", IF "deadline" \in signals[r] THEN "deadline" ELSE "cancelled")
  /\ UNCHANGED router

\* Mutant: the wait answers for the freshness of what waited.
RecheckTrusting(r) ==
  /\ pc[r] = "entered"
  /\ Goto(r, "checked", "none")
  /\ UNCHANGED router

Recheck(r) ==
  /\ pc[r] = "entered"
  /\ Goto(r, IF Check(r, Signalled(r)) = "none" THEN "checked" ELSE "leaving", Check(r, Signalled(r)))
  /\ UNCHANGED router

\* Bind and CheckSource: the arguments do not fit, or the source is not the one of the fingerprint.
Reject(r) ==
  /\ pc[r] = "checked"
  /\ \E answer \in {"refused", "staleSource"} : Goto(r, "leaving", answer)
  /\ UNCHANGED router

Recorded(k) == \E i \in DOMAIN records : records[i].key = k

\* A mutation that ran before is answered from its record.
Replay(r) ==
  /\ pc[r] = "checked" /\ Mutation(r)
  /\ \E i \in DOMAIN records :
       /\ records[i].key = Key(r)
       /\ Goto(r, "leaving", IF records[i].payload # envelope[r].payload THEN "conflict"
                             ELSE IF records[i].version # envelope[r].version THEN "staleSource"
                             ELSE records[i].outcome)
  /\ UNCHANGED router

Invoke(r) ==
  /\ pc[r] = "checked" /\ (Mutation(r) => ~Recorded(Key(r)))
  /\ Goto(r, "running", "none")
  /\ runs' = IF Mutation(r) THEN [runs EXCEPT ![Key(r)] = @ + 1] ELSE runs
  /\ UNCHANGED <<free, pending, documents, cancelled, picked, records>>

\* The oldest go, one by one, until number and size fit; how many that is the sizes say.
Retain(all) ==
  \E n \in 0 .. Len(all) :
    /\ Len(all) - n <= MaxRecords
    /\ records' = SubSeq(all, n + 1, Len(all))
    /\ runs' = [k \in DOMAIN runs |-> IF \E i \in 1 .. n : all[i].key = k THEN 0 ELSE runs[k]]

RecordOf(r, answer) == [key |-> Key(r), payload |-> envelope[r].payload,
                        version |-> envelope[r].version, outcome |-> answer]

\* Mutant: only what succeeded is remembered.
RecordSuccess(r, answer) == Retain(IF answer = "ok" THEN Append(records, RecordOf(r, answer)) ELSE records)

Record(r, answer) == Retain(Append(records, RecordOf(r, answer)))

Answer(r, answer) ==
  /\ Goto(r, "leaving", answer)
  /\ IF Mutation(r) THEN Record(r, answer) ELSE UNCHANGED <<records, runs>>
  /\ UNCHANGED <<free, pending, documents, cancelled, picked>>

\* The method returns or throws; what it returned is answered if it still stands.
Return(r) ==
  /\ pc[r] = "running"
  /\ Answer(r, IF Check(r, Signalled(r)) = "none" THEN "ok" ELSE Check(r, Signalled(r)))
Throw(r) ==
  /\ pc[r] = "running"
  /\ \/ Answer(r, "fault")
     \/ Signalled(r) /\ Answer(r, "cancelled")

\* Mutant: a request that never entered the dispatch does not give its place back.
LeaveHoldsPlace(r) ==
  /\ pc[r] \in {"leaving", "withdrawn"}
  /\ Replied(r)
  /\ free' = (free \/ pc[r] = "leaving")
  /\ pending' = IF pc[r] = "leaving" THEN pending - 1 ELSE pending
  /\ picked' = picked \ {r}
  /\ UNCHANGED <<documents, cancelled, records, runs>>

\* finally, and the reply.
Leave(r) ==
  /\ pc[r] \in {"leaving", "withdrawn"}
  /\ Replied(r)
  /\ free' = (free \/ pc[r] = "leaving")
  /\ pending' = pending - 1
  /\ picked' = picked \ {r}
  /\ UNCHANGED <<documents, cancelled, records, runs>>

------------------------------------------------------------------------------
\* What the thread of a request does by itself; the method it runs may never return.
Step(r) ==
  \/ Refuse(r) \/ Reply(r) \/ Admit(r) \/ Register(r) \/ Enter(r) \/ Withdraw(r) \/ Recheck(r)
  \/ Reject(r) \/ Replay(r) \/ Invoke(r) \/ Leave(r)
Outside(r) == Expire(r) \/ CancelRpc(r) \/ Cancel(r) \/ CancelSource(r) \/ Return(r) \/ Throw(r)

Next == \E r \in Requests : Step(r) \/ Outside(r) \/ \E e \in Envelope : Send(r, e)
Spec == Init /\ [][Next]_vars

------------------------------------------------------------------------------
Places == {"new", "sent", "refused", "admitted", "queued", "withdrawn", "done"} \cup Holding
Outcomes == {"none", "ok", "refused", "stale", "staleSource", "conflict", "deadline", "cancelled", "fault"}
RecordType == [key : Documents \X Commands, payload : Payloads, version : Versions, outcome : Outcomes]

\* Types, and a request that is neither new nor done has an envelope.
TypeOK ==
  /\ pc \in [Requests -> Places]
  /\ envelope \in [Requests -> Envelope \cup {Unknown}]
  /\ \A r \in Requests : pc[r] \notin {"new", "done"} => envelope[r] \in Envelope
  /\ signals \in [Requests -> SUBSET {"deadline", "token"}]
  /\ outcome \in [Requests -> Outcomes]
  /\ free \in BOOLEAN
  /\ cancelled \in Seq(Requests) /\ picked \subseteq Requests
  /\ records \in Seq(RecordType)
  /\ runs \in [Documents \X Commands -> Nat]

\* The semaphore has room exactly while no request holds it, and never two do.
DispatchIsExclusive ==
  /\ \A r, q \in Requests : pc[r] \in Holding /\ pc[q] \in Holding => r = q
  /\ free <=> \A r \in Requests : pc[r] \notin Holding

\* _pending counts the requests in flight: the limit of 64 can neither be passed nor worn out by
\* requests that were cancelled while they waited.
InFlightCounted == IsFiniteSet(InFlight) /\ pending = Cardinality(InFlight) /\ pending <= MaxPending

\* A mutation does not run again while the engine keeps the record of its command, whatever
\* became of the first run: cancelled, overtaken, timed out or faulted.
AtMostOnce == \A k \in Documents \X Commands : runs[k] <= 1

\* What ran is on record or is running, and what is running is not on record.
RunsAreRecorded ==
  /\ \A k \in Documents \X Commands : runs[k] > 0 =>
       Recorded(k) \/ \E r \in Requests : pc[r] = "running" /\ Mutation(r) /\ Key(r) = k
  /\ \A r \in Requests : pc[r] = "running" /\ Mutation(r) => ~Recorded(Key(r))
  /\ \A i, j \in DOMAIN records : records[i].key = records[j].key => i = j

\* The inductive invariant of the router; it is what AtMostOnce and the limits rest on.
IInv == TypeOK /\ DispatchIsExclusive /\ InFlightCounted /\ AtMostOnce /\ RunsAreRecorded

\* A request whose deadline or cancellation came before it was checked in the dispatch never
\* runs its method, even if the dispatch was granted to it in the same moment.
CancelledNeverRuns ==
  [][\A r \in Requests : pc[r] \in {"admitted", "queued", "entered"} /\ Signalled(r)
       => pc'[r] \notin {"checked", "running"}]_vars
==============================================================================
