------------------------- MODULE EngineRequestsProofs -------------------------
(***************************************************************************)
(* What holds of the router for any number of requests from any client, and *)
(* of the requests the extension sends it.                                  *)
(***************************************************************************)
EXTENDS EngineRequests, FiniteSetTheorems, TLAPS

\* A new router satisfies the invariant.
LEMMA InitHolds == Init => IInv
<1> SUFFICES ASSUME Init PROVE IInv
  OBVIOUS
<1>1. TypeOK
  BY DEF Init, TypeOK, Places, Holding, Outcomes
<1>2. DispatchIsExclusive
  BY DEF Init, DispatchIsExclusive, Holding
<1>3. InFlightCounted
  <2>1. InFlight = {}
    BY DEF Init, InFlight, Registered, Holding
  <2> QED
    BY <2>1, FS_EmptySet, ProtocolAssumption DEF Init, InFlightCounted
<1>4. AtMostOnce /\ RunsAreRecorded
  BY DEF Init, AtMostOnce, RunsAreRecorded
<1> QED
  BY <1>1, <1>2, <1>3, <1>4 DEF IInv

(* Types *)

\* Check gives an outcome.
LEMMA CheckIsOutcome ==
  ASSUME NEW r \in Requests, NEW isCancelled \in BOOLEAN
  PROVE  Check(r, isCancelled) \in Outcomes
BY DEF Check, Outcomes

\* A queue that is cut to its newest elements is a queue of the same kind.
LEMMA CutSequence ==
  ASSUME NEW S, NEW s \in Seq(S), NEW n \in 0 .. Len(s)
  PROVE  /\ SubSeq(s, n + 1, Len(s)) \in Seq(S)
         /\ Len(SubSeq(s, n + 1, Len(s))) = Len(s) - n
         /\ \A i \in 1 .. Len(s) - n : SubSeq(s, n + 1, Len(s))[i] = s[i + n]
OBVIOUS

\* A command that ran is a command of a document.
LEMMA KeyIsCommand ==
  ASSUME TypeOK, NEW r \in Requests, pc[r] \notin {"new", "done"}, Mutation(r)
  PROVE  Key(r) \in Documents \X Commands
BY DEF TypeOK, Mutation, Key, Envelope

\* A request moves on or is answered.
LEMMA GotoTypes ==
  ASSUME TypeOK, NEW r \in Requests, pc[r] \notin {"new", "done"},
         NEW place \in Places \ {"new", "done"}, NEW answer \in Outcomes, Goto(r, place, answer)
  PROVE  /\ pc' \in [Requests -> Places]
         /\ envelope' \in [Requests -> Envelope \cup {Unknown}]
         /\ \A q \in Requests : pc'[q] \notin {"new", "done"} => envelope'[q] \in Envelope
         /\ signals' \in [Requests -> SUBSET {"deadline", "token"}]
         /\ outcome' \in [Requests -> Outcomes]
BY DEF TypeOK, Goto

\* The record of an answered mutation.
LEMMA RecordIsTyped ==
  ASSUME TypeOK, NEW r \in Requests, pc[r] \notin {"new", "done"}, Mutation(r), NEW answer \in Outcomes
  PROVE  /\ RecordOf(r, answer) \in RecordType
         /\ Append(records, RecordOf(r, answer)) \in Seq(RecordType)
<1>1. RecordOf(r, answer) \in RecordType
  BY KeyIsCommand DEF TypeOK, RecordOf, RecordType, Envelope
<1> QED
  BY <1>1 DEF TypeOK

\* Keeping the newest records of all.
LEMMA RetainTypes ==
  ASSUME NEW all \in Seq(RecordType), runs \in [Documents \X Commands -> Nat], Retain(all)
  PROVE  records' \in Seq(RecordType) /\ runs' \in [Documents \X Commands -> Nat]
<1>1. PICK n \in 0 .. Len(all) :
        /\ records' = SubSeq(all, n + 1, Len(all))
        /\ runs' = [k \in DOMAIN runs |-> IF \E i \in 1 .. n : all[i].key = k THEN 0 ELSE runs[k]]
  BY DEF Retain
<1> QED
  BY <1>1, CutSequence

\* An answer, recorded or not.
LEMMA AnswerTypes ==
  ASSUME TypeOK, NEW r \in Requests, pc[r] = "running", NEW answer \in Outcomes, Answer(r, answer)
  PROVE  TypeOK'
<1>1. records' \in Seq(RecordType) /\ runs' \in [Documents \X Commands -> Nat]
  <2>1. CASE Mutation(r)
    BY <2>1, RecordIsTyped, RetainTypes DEF Answer, Record, TypeOK
  <2>2. CASE ~Mutation(r)
    BY <2>2 DEF Answer, TypeOK
  <2> QED
    BY <2>1, <2>2
<1>2. Goto(r, "leaving", answer) /\ "leaving" \in Places \ {"new", "done"}
  BY DEF Answer, Places, Holding
<1> QED
  BY <1>1, <1>2, GotoTypes DEF TypeOK, Answer

\* Every step keeps the types.
LEMMA TypeStep == TypeOK /\ Next => TypeOK'
<1> SUFFICES ASSUME TypeOK, NEW r \in Requests,
                    Step(r) \/ Outside(r) \/ \E e \in Envelope : Send(r, e)
             PROVE TypeOK'
  BY DEF Next
<1> USE DEF Holding
<1>a. \A x \in {"refused", "admitted", "queued", "entered", "withdrawn", "checked", "running", "leaving"} :
        x \in Places \ {"new", "done"}
  BY DEF Places
<1>b. {"none", "refused", "staleSource", "conflict", "deadline", "cancelled", "ok", "fault"} \subseteq Outcomes
  BY DEF Outcomes
<1>1. ASSUME NEW e \in Envelope, Send(r, e) PROVE TypeOK'
  BY <1>1 DEF Send, TypeOK, Places, router
<1>2. CASE Refuse(r)
  <2>1. Early(r) \in Outcomes
    BY CheckIsOutcome, ("token" \in signals[r]) \in BOOLEAN DEF Early
  <2> QED
    BY <1>2, <1>a, <1>b, <2>1, GotoTypes DEF Refuse, TypeOK, router
<1>3. CASE Reply(r)
  BY <1>3 DEF Reply, Replied, TypeOK, router, Places, Outcomes
<1>4. CASE Admit(r)
  BY <1>4, <1>a, <1>b, GotoTypes DEF Admit, TypeOK
<1>5. CASE Register(r)
  BY <1>5, <1>a DEF Register, TypeOK, router
<1>6. CASE Enter(r)
  BY <1>6, <1>a, <1>b, GotoTypes DEF Enter, TypeOK
<1>7. CASE Withdraw(r)
  BY <1>7, <1>a, <1>b, GotoTypes DEF Withdraw, TypeOK, router
<1>8. CASE Recheck(r)
  <2>1. Check(r, Signalled(r)) \in Outcomes
    BY CheckIsOutcome, Signalled(r) \in BOOLEAN DEF Signalled
  <2> QED
    BY <1>8, <1>a, <1>b, <2>1, GotoTypes DEF Recheck, TypeOK, router
<1>9. CASE Reject(r)
  BY <1>9, <1>a, <1>b, GotoTypes DEF Reject, TypeOK, router
<1>10. CASE Replay(r)
  <2>1. PICK i \in DOMAIN records :
          Goto(r, "leaving", IF records[i].payload # envelope[r].payload THEN "conflict"
                             ELSE IF records[i].version # envelope[r].version THEN "staleSource"
                             ELSE records[i].outcome)
    BY <1>10 DEF Replay
  <2>2. records[i] \in RecordType
    BY DEF TypeOK
  <2>3. records[i].outcome \in Outcomes
    BY <2>2 DEF RecordType
  <2> QED
    BY <1>10, <1>a, <1>b, <2>1, <2>3, GotoTypes DEF Replay, TypeOK, router
<1>11. CASE Invoke(r)
  <2>1. runs' \in [Documents \X Commands -> Nat]
    BY <1>11, KeyIsCommand DEF Invoke, TypeOK
  <2> QED
    BY <1>11, <1>a, <1>b, <2>1, GotoTypes DEF Invoke, TypeOK
<1>12. CASE Leave(r)
  BY <1>12 DEF Leave, Replied, TypeOK, Places, Outcomes
<1>13. CASE Expire(r) \/ CancelRpc(r) \/ CancelSource(r)
  BY <1>13 DEF Expire, CancelRpc, CancelSource, Signal, TypeOK
<1>14. CASE Cancel(r)
  <2>1. cancelled' \in Seq(Requests)
    <3>1. Append(cancelled, r) \in Seq(Requests)
      BY DEF TypeOK
    <3> DEFINE s == Append(cancelled, r)
    <3>2. Last(s, MaxCancelled) \in Seq(Requests)
      <4>1. CASE Len(s) <= MaxCancelled
        BY <3>1, <4>1 DEF Last
      <4>2. CASE ~(Len(s) <= MaxCancelled)
        <5>1. Len(s) - MaxCancelled \in 0 .. Len(s)
          BY <3>1, <4>2, ProtocolAssumption
        <5> HIDE DEF s
        <5> QED
          BY <3>1, <4>2, <5>1, CutSequence DEF Last, s
      <4> QED
        BY <4>1, <4>2
    <3> QED
      BY <1>14, <3>2 DEF Cancel, TypeOK
  <2> QED
    BY <1>14, <2>1 DEF Cancel, TypeOK
<1>15. CASE Return(r)
  <2>1. Check(r, Signalled(r)) \in Outcomes
    BY CheckIsOutcome, Signalled(r) \in BOOLEAN DEF Signalled
  <2> QED
    BY <1>15, <1>b, <2>1, AnswerTypes DEF Return
<1>16. CASE Throw(r)
  BY <1>16, <1>b, AnswerTypes DEF Throw
<1> QED
  BY <1>1, <1>2, <1>3, <1>4, <1>5, <1>6, <1>7, <1>8, <1>9, <1>10, <1>11, <1>12, <1>13, <1>14, <1>15, <1>16
     DEF Step, Outside

(* The dispatch and the requests in flight *)

\* Every step moves one thread, or none.
LEMMA OneThreadMoves ==
  ASSUME TypeOK, NEW r \in Requests, Step(r) \/ Outside(r) \/ \E e \in Envelope : Send(r, e)
  PROVE  \A q \in Requests \ {r} : pc'[q] = pc[q] /\ envelope'[q] = envelope[q] /\ outcome'[q] = outcome[q]
BY DEF TypeOK, Step, Outside, Send, Refuse, Reply, Admit, Register, Enter, Withdraw, Recheck, Reject, Replay, Invoke,
       Leave, Expire, CancelRpc, Cancel, CancelSource, Return, Throw, Answer, Goto, Replied, Signal

\* Where the thread of a step goes; the dispatch and the count go with it.
LEMMA ThreadMoves ==
  ASSUME TypeOK, pending \in Nat, NEW r \in Requests, Step(r) \/ Outside(r) \/ \E e \in Envelope : Send(r, e)
  PROVE  \/ /\ pc[r] = "sent" /\ pc'[r] = "admitted" /\ pending < MaxPending
            /\ free' = free /\ pending' = pending + 1
         \/ /\ pc[r] = "queued" /\ pc'[r] = "entered" /\ free
            /\ ~free' /\ pending' = pending
         \/ /\ pc[r] = "leaving" /\ pc'[r] = "done"
            /\ free' /\ pending' = pending - 1
         \/ /\ pc[r] = "withdrawn" /\ pc'[r] = "done"
            /\ free' = free /\ pending' = pending - 1
         \/ /\ pc[r] \in Holding <=> pc'[r] \in Holding
            /\ r \in InFlight <=> pc'[r] \in Holding \cup {"queued", "withdrawn", "admitted"}
            /\ free' = free /\ pending' = pending
<1> USE DEF Holding, InFlight, Registered
<1>1. CASE Admit(r)
  BY <1>1, ProtocolAssumption DEF Admit, Goto, Full, TypeOK
<1>2. CASE Enter(r)
  BY <1>2 DEF Enter, Goto, TypeOK
<1>3. CASE Leave(r)
  BY <1>3 DEF Leave, Replied, TypeOK
<1>4. CASE Refuse(r) \/ Reply(r) \/ Register(r) \/ Withdraw(r) \/ \E e \in Envelope : Send(r, e)
  BY <1>4 DEF Refuse, Reply, Replied, Register, Withdraw, Send, Goto, TypeOK, router
<1>5. CASE Recheck(r) \/ Reject(r) \/ Replay(r) \/ Invoke(r) \/ Return(r) \/ Throw(r)
  BY <1>5 DEF Recheck, Reject, Replay, Invoke, Return, Throw, Answer, Goto, TypeOK, router
<1>6. CASE Expire(r) \/ CancelRpc(r) \/ CancelSource(r) \/ Cancel(r)
  BY <1>6 DEF Expire, CancelRpc, CancelSource, Cancel, Signal, TypeOK
<1> QED
  BY <1>1, <1>2, <1>3, <1>4, <1>5, <1>6 DEF Step, Outside

\* One request is in the dispatch at most.
LEMMA DispatchStep == IInv /\ Next => DispatchIsExclusive'
<1> SUFFICES ASSUME IInv, NEW r \in Requests, Step(r) \/ Outside(r) \/ \E e \in Envelope : Send(r, e)
             PROVE DispatchIsExclusive'
  BY DEF Next
<1>1. \A q \in Requests \ {r} : pc'[q] = pc[q]
  BY OneThreadMoves DEF IInv
<1>2. free' \in BOOLEAN
  BY TypeStep DEF IInv, Next, TypeOK
<1>3. pending \in Nat
  BY FS_CardinalityType DEF IInv, InFlightCounted
<1> QED
  BY <1>1, <1>2, <1>3, ThreadMoves DEF IInv, DispatchIsExclusive, Holding, TypeOK

\* The pending count is the number of requests in flight.
LEMMA CountStep == IInv /\ Next => InFlightCounted'
<1> SUFFICES ASSUME IInv, NEW r \in Requests, Step(r) \/ Outside(r) \/ \E e \in Envelope : Send(r, e)
             PROVE InFlightCounted'
  BY DEF Next
<1>1. \A q \in Requests \ {r} : pc'[q] = pc[q]
  BY OneThreadMoves DEF IInv
<1>2. IsFiniteSet(InFlight) /\ pending = Cardinality(InFlight) /\ pending <= MaxPending /\ pending \in Nat
  BY FS_CardinalityType DEF IInv, InFlightCounted
<1>3. CASE r \notin InFlight /\ pc'[r] = "admitted" /\ pending < MaxPending /\ pending' = pending + 1
  <2>1. InFlight' = InFlight \cup {r}
    BY <1>1, <1>3 DEF InFlight, Registered, Holding
  <2> QED
    BY <1>2, <1>3, <2>1, FS_AddElement, ProtocolAssumption DEF InFlightCounted
<1>4. CASE r \in InFlight /\ pc'[r] = "done" /\ pending' = pending - 1
  <2>1. InFlight' = InFlight \ {r}
    BY <1>1, <1>4 DEF InFlight, Registered, Holding
  <2> QED
    BY <1>2, <1>4, <2>1, FS_RemoveElement, ProtocolAssumption DEF InFlightCounted
<1>5. CASE /\ r \in InFlight <=> pc'[r] \in Holding \cup {"queued", "withdrawn", "admitted"}
           /\ pending' = pending
  <2>1. InFlight' = InFlight
    BY <1>1, <1>5 DEF InFlight, Registered
  <2> QED
    BY <1>2, <1>5, <2>1 DEF InFlightCounted
<1> QED
  BY <1>2, <1>3, <1>4, <1>5, ThreadMoves DEF IInv, InFlight, Registered, Holding

(* The records *)

\* Dropping the oldest records keeps what the others say of the commands that ran.
LEMMA RetainKeeps ==
  ASSUME NEW all \in Seq(RecordType), runs \in [Documents \X Commands -> Nat], Retain(all), AtMostOnce,
         \A i, j \in DOMAIN all : all[i].key = all[j].key => i = j,
         \A k \in Documents \X Commands : runs[k] > 0 => \E i \in DOMAIN all : all[i].key = k
  PROVE  /\ AtMostOnce'
         /\ \A k \in Documents \X Commands : runs'[k] > 0 => Recorded(k)'
         /\ \A i, j \in DOMAIN records' : records'[i].key = records'[j].key => i = j
<1>1. PICK n \in 0 .. Len(all) :
        /\ records' = SubSeq(all, n + 1, Len(all))
        /\ runs' = [k \in DOMAIN runs |-> IF \E i \in 1 .. n : all[i].key = k THEN 0 ELSE runs[k]]
  BY DEF Retain
<1>2. /\ records' \in Seq(RecordType) /\ Len(records') = Len(all) - n
      /\ \A i \in 1 .. Len(all) - n : records'[i] = all[i + n]
  BY <1>1, CutSequence
<1>3. DOMAIN records' = 1 .. Len(all) - n /\ DOMAIN all = 1 .. Len(all) /\ Len(all) \in Nat
  BY <1>2
<1>4. AtMostOnce'
  BY <1>1 DEF AtMostOnce
<1>5. ASSUME NEW k \in Documents \X Commands, runs'[k] > 0 PROVE \E i \in DOMAIN records' : records'[i].key = k
  <2>1. runs[k] > 0 /\ ~\E i \in 1 .. n : all[i].key = k
    BY <1>1, <1>5
  <2>2. PICK i \in DOMAIN all : all[i].key = k
    BY <2>1
  <2>3. i \in 1 .. Len(all) /\ i \notin 1 .. n
    BY <1>3, <2>1, <2>2
  <2>4. i - n \in 1 .. Len(all) - n /\ (i - n) + n = i
    BY <1>3, <2>3
  <2> QED
    BY <1>2, <1>3, <2>2, <2>4
<1>6. ASSUME NEW i \in DOMAIN records', NEW j \in DOMAIN records', records'[i].key = records'[j].key PROVE i = j
  <2>1. i + n \in DOMAIN all /\ j + n \in DOMAIN all /\ records'[i] = all[i + n] /\ records'[j] = all[j + n]
    BY <1>2, <1>3
  <2>2. i + n = j + n
    BY <1>6, <2>1
  <2> QED
    BY <1>3, <2>2
<1> QED
  BY <1>4, <1>5, <1>6 DEF Recorded

\* A run that ends leaves its command on record.
LEMMA AnswerKeepsRuns ==
  ASSUME IInv, NEW r \in Requests, pc[r] = "running", NEW answer \in Outcomes, Answer(r, answer)
  PROVE  AtMostOnce' /\ RunsAreRecorded'
<1>1. \A q \in Requests : pc'[q] # "running"
  <2>1. \A q \in Requests \ {r} : pc[q] # "running" /\ pc'[q] = pc[q]
    BY DEF IInv, DispatchIsExclusive, Holding, Answer, Goto, TypeOK
  <2>2. pc'[r] = "leaving"
    BY DEF IInv, Answer, Goto, TypeOK
  <2> QED
    BY <2>1, <2>2
<1>2. \A k \in Documents \X Commands : runs[k] > 0 => Recorded(k) \/ (Mutation(r) /\ Key(r) = k)
  <2>1. \A q \in Requests : pc[q] = "running" => q = r
    BY DEF IInv, DispatchIsExclusive, Holding
  <2> SUFFICES ASSUME NEW k \in Documents \X Commands, runs[k] > 0, ~Recorded(k) PROVE Mutation(r) /\ Key(r) = k
    OBVIOUS
  <2>2. PICK q \in Requests : pc[q] = "running" /\ Mutation(q) /\ Key(q) = k
    BY DEF IInv, RunsAreRecorded
  <2> QED
    BY <2>1, <2>2
<1>3. CASE Mutation(r)
  <2> DEFINE all == Append(records, RecordOf(r, answer))
  <2>1. all \in Seq(RecordType) /\ records \in Seq(RecordType) /\ Retain(all)
    BY <1>3, RecordIsTyped DEF IInv, TypeOK, Answer, Record
  <2>2. /\ DOMAIN all = 1 .. Len(records) + 1 /\ Len(records) \in Nat /\ DOMAIN records = 1 .. Len(records)
        /\ \A i \in 1 .. Len(records) : all[i] = records[i]
        /\ all[Len(records) + 1].key = Key(r)
    BY <2>1, RecordIsTyped DEF RecordOf
  <2>3. ~Recorded(Key(r))
    BY <1>3 DEF IInv, RunsAreRecorded
  <2>4. \A i, j \in DOMAIN all : all[i].key = all[j].key => i = j
    <3>1. \A i, j \in 1 .. Len(records) : all[i].key = all[j].key => i = j
      BY <2>2 DEF IInv, RunsAreRecorded
    <3>2. \A i \in 1 .. Len(records) : all[i].key # all[Len(records) + 1].key
      BY <2>2, <2>3 DEF Recorded
    <3> HIDE DEF all
    <3> QED
      BY <2>2, <3>1, <3>2
  <2>5. \A k \in Documents \X Commands : runs[k] > 0 => \E i \in DOMAIN all : all[i].key = k
    <3> SUFFICES ASSUME NEW k \in Documents \X Commands, runs[k] > 0 PROVE \E i \in DOMAIN all : all[i].key = k
      OBVIOUS
    <3>1. CASE Recorded(k)
      <4>1. PICK i \in DOMAIN records : records[i].key = k
        BY <3>1 DEF Recorded
      <4> HIDE DEF all
      <4> QED
        BY <2>2, <4>1
    <3>2. CASE Key(r) = k
      <4> HIDE DEF all
      <4> QED
        BY <2>2, <3>2
    <3> QED
      BY <1>2, <3>1, <3>2
  <2> HIDE DEF all
  <2> QED
    BY <1>1, <2>1, <2>4, <2>5, RetainKeeps DEF IInv, TypeOK, RunsAreRecorded, AtMostOnce, Recorded
<1>4. CASE ~Mutation(r)
  BY <1>1, <1>2, <1>4 DEF IInv, Answer, RunsAreRecorded, AtMostOnce, Recorded
<1> QED
  BY <1>3, <1>4

\* What has run is on record or running, and what runs is not on record.
LEMMA RunsStep == IInv /\ Next => AtMostOnce' /\ RunsAreRecorded'
<1> SUFFICES ASSUME IInv, NEW r \in Requests, Step(r) \/ Outside(r) \/ \E e \in Envelope : Send(r, e)
             PROVE AtMostOnce' /\ RunsAreRecorded'
  BY DEF Next
<1>1. CASE Invoke(r)
  <2>1. /\ pc[r] = "checked" /\ pc'[r] = "running" /\ envelope' = envelope /\ records' = records
        /\ \A q \in Requests \ {r} : pc'[q] = pc[q] /\ pc[q] # "running"
    BY <1>1 DEF Invoke, Goto, IInv, TypeOK, DispatchIsExclusive, Holding
  <2>2. CASE Mutation(r)
    <3>1. Key(r) \in Documents \X Commands /\ ~Recorded(Key(r)) /\ runs' = [runs EXCEPT ![Key(r)] = @ + 1]
      BY <1>1, <2>1, <2>2, KeyIsCommand DEF Invoke, IInv
    <3>2. \A k \in Documents \X Commands : runs[k] > 0 => Recorded(k)
      BY <2>1 DEF IInv, RunsAreRecorded
    <3>3. runs[Key(r)] = 0
      BY <3>1, <3>2 DEF IInv, TypeOK
    <3>4. runs'[Key(r)] = 1 /\ \A k \in (Documents \X Commands) \ {Key(r)} : runs'[k] = runs[k]
      BY <3>1, <3>3 DEF IInv, TypeOK
    <3>5. AtMostOnce'
      BY <3>4 DEF AtMostOnce, IInv
    <3>6. Key(r)' = Key(r) /\ Mutation(r)'
      BY <2>1, <2>2 DEF Key, Mutation
    <3> QED
      BY <2>1, <3>1, <3>2, <3>4, <3>5, <3>6 DEF RunsAreRecorded, Recorded, IInv
  <2>3. CASE ~Mutation(r)
    <3>1. runs' = runs /\ ~Mutation(r)'
      BY <1>1, <2>1, <2>3 DEF Invoke, Mutation
    <3> QED
      BY <2>1, <3>1 DEF RunsAreRecorded, Recorded, AtMostOnce, IInv
  <2> QED
    BY <2>2, <2>3
<1>2. CASE Return(r)
  <2>1. Check(r, Signalled(r)) \in Outcomes /\ "ok" \in Outcomes
    BY CheckIsOutcome, Signalled(r) \in BOOLEAN DEF Signalled, Outcomes
  <2> QED
    BY <1>2, <2>1, AnswerKeepsRuns DEF Return
<1>3. CASE Throw(r)
  BY <1>3, AnswerKeepsRuns, {"fault", "cancelled"} \subseteq Outcomes DEF Throw, Outcomes
<1>4. CASE ~Invoke(r) /\ ~Return(r) /\ ~Throw(r)
  <2>1. records' = records /\ runs' = runs
    BY <1>4 DEF Step, Outside, Send, Refuse, Reply, Admit, Register, Enter, Withdraw, Recheck, Reject, Replay,
       Leave, Expire, CancelRpc, Cancel, CancelSource, Signal, router
  <2>2. \A q \in Requests : (pc[q] = "running" <=> pc'[q] = "running")
                            /\ (pc[q] = "running" => envelope'[q] = envelope[q])
    <3>1. \A q \in Requests \ {r} : pc'[q] = pc[q] /\ envelope'[q] = envelope[q]
      BY OneThreadMoves DEF IInv
    <3>2. (pc[r] = "running" <=> pc'[r] = "running") /\ (pc[r] = "running" => envelope'[r] = envelope[r])
      BY <1>4 DEF Step, Outside, Send, Refuse, Reply, Admit, Register, Enter, Withdraw, Recheck, Reject, Replay,
         Leave, Expire, CancelRpc, Cancel, CancelSource, Signal, Goto, Replied, IInv, TypeOK
    <3> QED
      BY <3>1, <3>2
  <2>3. \A q \in Requests : pc[q] = "running" => Key(q)' = Key(q) /\ (Mutation(q)' <=> Mutation(q))
    BY <2>2 DEF Key, Mutation
  <2> QED
    BY <2>1, <2>2, <2>3 DEF IInv, AtMostOnce, RunsAreRecorded, Recorded
<1> QED
  BY <1>1, <1>2, <1>3, <1>4

\* The router keeps its dispatch, its count and its records right, whatever its clients send and cancel.
THEOREM RouterInvariant == Spec => []IInv
<1>1. IInv /\ [Next]_vars => IInv'
  <2>1. IInv /\ Next => IInv'
    BY TypeStep, DispatchStep, CountStep, RunsStep DEF IInv
  <2>2. IInv /\ UNCHANGED vars => IInv'
    BY DEF IInv, vars, router, TypeOK, DispatchIsExclusive, InFlightCounted, InFlight, Registered, AtMostOnce,
       RunsAreRecorded, Recorded, Mutation, Key
  <2> QED
    BY <2>1, <2>2
<1> QED
  BY InitHolds, <1>1, PTL DEF Spec

\* A mutation never runs twice while its record is kept (Record and the lookup before method.Invoke).
THEOREM MutationsRunOnce == Spec => []AtMostOnce
<1>1. IInv => AtMostOnce
  BY DEF IInv
<1> QED
  BY RouterInvariant, <1>1, PTL

\* A request cancelled before it was checked in the dispatch never reaches its method.
THEOREM CancelledStaysOut == Spec => CancelledNeverRuns
<1>1. TypeOK /\ [Next]_vars =>
        [\A r \in Requests : pc[r] \in {"admitted", "queued", "entered"} /\ Signalled(r)
           => pc'[r] \notin {"checked", "running"}]_vars
  <2> SUFFICES ASSUME TypeOK, NEW q \in Requests, Step(q) \/ Outside(q) \/ \E e \in Envelope : Send(q, e),
                      NEW r \in Requests, pc[r] \in {"admitted", "queued", "entered"}, Signalled(r)
               PROVE pc'[r] \notin {"checked", "running"}
    BY DEF Next
  <2>1. CASE r # q
    BY <2>1, OneThreadMoves
  <2>2. CASE r = q /\ Recheck(r)
    <3>1. Check(r, Signalled(r)) # "none"
      <4>1. "deadline" \in signals[r] \/ "deadline" \notin signals[r]
        OBVIOUS
      <4> QED
        BY <4>1 DEF Check
    <3> QED
      BY <2>2, <3>1 DEF Recheck, Goto, TypeOK
  <2>3. CASE r = q /\ ~Recheck(r)
    BY <2>3 DEF Step, Outside, Send, Refuse, Reply, Admit, Register, Enter, Withdraw, Reject, Replay, Invoke,
       Leave, Expire, CancelRpc, Cancel, CancelSource, Return, Throw, Answer, Signal, Goto, Replied, TypeOK
  <2> QED
    BY <2>1, <2>2, <2>3
<1>2. IInv => TypeOK
  BY DEF IInv
<1> QED
  BY RouterInvariant, <1>1, <1>2, PTL DEF Spec, CancelledNeverRuns


(* The requests of the extension *)

Mark == [generation : Nat, version : Versions \cup {"none"}]
MarksTyped == revisionByDocument \in [Documents -> Mark]

\* The generation of a request is at least the one of the document's last request, and equal only for its version.
LEMMA GenerationAdvances ==
  ASSUME NEW prior \in Mark, NEW v \in Versions, NEW own \in Nat
  PROVE  /\ NextGeneration(prior, v, own) \in Nat
         /\ NextGeneration(prior, v, own) >= prior.generation
         /\ NextGeneration(prior, v, own) = prior.generation => v = prior.version
BY DEF Mark, NextGeneration, Max2

\* What SendRequest sends, in terms of the document's mark.
LEMMA SendRequestSends ==
  ASSUME MarksTyped, NEW r \in Requests, SendRequest(r)
  PROVE  \E e \in Envelope :
           /\ Send(r, e)
           /\ revisionByDocument' = [revisionByDocument EXCEPT ![e.document] =
                                       [generation |-> e.generation, version |-> e.version]]
           /\ e.generation >= revisionByDocument[e.document].generation
           /\ e.generation = revisionByDocument[e.document].generation
                => e.version = revisionByDocument[e.document].version
<1>1. PICK d \in Documents, v \in Versions, p \in Payloads, own \in 0 .. MaxGeneration, op \in Operations,
           mutation \in BOOLEAN :
        LET g == NextGeneration(revisionByDocument[d], v, own) IN
          /\ g <= MaxGeneration
          /\ revisionByDocument' = [revisionByDocument EXCEPT ![d] = [generation |-> g, version |-> v]]
          /\ Send(r, [document |-> d, generation |-> g, version |-> v, payload |-> p,
                      command |-> IF mutation THEN CommandId(r, op, p, v) ELSE NoCommand])
  BY DEF SendRequest
<1> DEFINE g == NextGeneration(revisionByDocument[d], v, own)
           e == [document |-> d, generation |-> g, version |-> v, payload |-> p,
                 command |-> IF mutation THEN CommandId(r, op, p, v) ELSE NoCommand]
<1>2. CommandId(r, op, p, v) \in Commands
  BY HostAssumption
<1>3. revisionByDocument[d] \in Mark /\ own \in Nat
  BY HostAssumption DEF MarksTyped
<1>4. /\ g \in Nat /\ g >= revisionByDocument[d].generation
      /\ g = revisionByDocument[d].generation => v = revisionByDocument[d].version
  BY <1>3, GenerationAdvances
<1>5. Send(r, e) /\ revisionByDocument' = [revisionByDocument EXCEPT ![d] = [generation |-> g, version |-> v]]
  BY <1>1
<1> HIDE DEF g
<1>6. e \in Envelope
  BY <1>2, <1>4 DEF Envelope
<1> QED
  BY <1>4, <1>5, <1>6

\* The host keeps a generation and a version for each document.
LEMMA MarksStep == MarksTyped /\ [HostNext]_hostVars => MarksTyped'
<1> SUFFICES ASSUME MarksTyped, [HostNext]_hostVars PROVE MarksTyped'
  OBVIOUS
<1>1. ASSUME NEW r \in Requests, SendRequest(r) PROVE MarksTyped'
  <2>1. PICK e \in Envelope : revisionByDocument' = [revisionByDocument EXCEPT ![e.document] =
                                [generation |-> e.generation, version |-> e.version]]
    BY <1>1, SendRequestSends
  <2>2. [generation |-> e.generation, version |-> e.version] \in Mark
    BY DEF Envelope, Mark
  <2> QED
    BY <2>1, <2>2 DEF MarksTyped
<1>2. CASE UNCHANGED revisionByDocument
  BY <1>2 DEF MarksTyped
<1> QED
  BY <1>1, <1>2 DEF HostNext, hostVars

\* A step of the composition is a step of the router with some client.
LEMMA HostStepIsStep == MarksTyped /\ [HostNext]_hostVars => [Next]_vars
<1> SUFFICES ASSUME MarksTyped, HostNext PROVE Next
  BY DEF hostVars
<1>1. ASSUME NEW r \in Requests, SendRequest(r) PROVE Next
  BY <1>1, SendRequestSends DEF Next
<1>2. ASSUME NEW r \in Requests, Step(r) \/ Outside(r) PROVE Next
  BY <1>2 DEF Next
<1> QED
  BY <1>1, <1>2 DEF HostNext

\* The composition starts as the router does.
LEMMA HostInitTypes == HostInit => Init /\ MarksTyped
BY DEF HostInit, MarksTyped, Mark, Unknown

\* The extension is one of the router's clients: what holds for every client holds for it.
THEOREM HostIsAClient == HostSpec => Spec
<1> QED
  BY HostInitTypes, MarksStep, HostStepIsStep, PTL DEF HostSpec, Spec

\* What the engine knows of a document, and what is on its way, is never ahead of what was sent last; and of the
\* generation that was sent last there is one version.
Behind(mark, last) == mark.generation <= last.generation
                      /\ (mark.generation = last.generation => mark.version = last.version)
NumberingHolds ==
  /\ MarksTyped /\ TypeOK
  /\ documents \in [Documents -> Mark]
  /\ \A d \in Documents : Behind(documents[d], revisionByDocument[d])
  /\ \A r \in Requests : pc[r] \notin {"new", "done"} => Behind(envelope[r], revisionByDocument[envelope[r].document])

\* sendRequest numbers what it sends from the newest generation of the document.
LEMMA SendKeepsNumbering ==
  ASSUME NumberingHolds, NEW r \in Requests, SendRequest(r), TypeOK', MarksTyped'
  PROVE  NumberingHolds'
<1>1. PICK e \in Envelope :
        /\ Send(r, e)
        /\ revisionByDocument' = [revisionByDocument EXCEPT ![e.document] =
                                    [generation |-> e.generation, version |-> e.version]]
        /\ e.generation >= revisionByDocument[e.document].generation
        /\ e.generation = revisionByDocument[e.document].generation
             => e.version = revisionByDocument[e.document].version
  BY SendRequestSends DEF NumberingHolds
<1>2. /\ e.document \in Documents /\ e.generation \in Nat /\ e.version \in Versions
      /\ revisionByDocument \in [Documents -> Mark] /\ revisionByDocument' \in [Documents -> Mark]
  BY DEF Envelope, NumberingHolds, MarksTyped
<1>3. \A d \in Documents :
        /\ revisionByDocument'[d].generation >= revisionByDocument[d].generation
        /\ revisionByDocument'[d].generation = revisionByDocument[d].generation
             => revisionByDocument'[d].version = revisionByDocument[d].version
  BY <1>1, <1>2 DEF Mark
<1>4. documents' = documents /\ documents \in [Documents -> Mark]
  BY <1>1 DEF Send, router, NumberingHolds
<1>5. \A d \in Documents : Behind(documents[d], revisionByDocument'[d])
  <2> SUFFICES ASSUME NEW d \in Documents PROVE Behind(documents[d], revisionByDocument'[d])
    OBVIOUS
  <2>1. documents[d].generation \in Nat /\ revisionByDocument[d].generation \in Nat
        /\ revisionByDocument'[d].generation \in Nat
    BY <1>2, <1>4 DEF Mark
  <2>2. Behind(documents[d], revisionByDocument[d])
    BY DEF NumberingHolds
  <2> QED
    BY <1>3, <2>1, <2>2 DEF Behind
<1>6. ASSUME NEW q \in Requests, pc'[q] \notin {"new", "done"}
      PROVE  Behind(envelope'[q], revisionByDocument'[envelope'[q].document])
  <2>1. CASE q = r
    <3>1. envelope'[q] = e
      BY <1>1, <2>1 DEF Send, NumberingHolds, TypeOK
    <3>2. revisionByDocument'[e.document] = [generation |-> e.generation, version |-> e.version]
      BY <1>1, <1>2
    <3> QED
      BY <1>2, <3>1, <3>2 DEF Behind
  <2>2. CASE q # r
    <3>1. envelope'[q] = envelope[q] /\ pc'[q] = pc[q]
      BY <1>1, <2>2 DEF Send, NumberingHolds, TypeOK
    <3>2. envelope[q] \in Envelope
      BY <1>6, <3>1 DEF NumberingHolds, TypeOK
    <3>3. envelope[q].document \in Documents /\ envelope[q].generation \in Nat
      BY <3>2 DEF Envelope
    <3>4. Behind(envelope[q], revisionByDocument[envelope[q].document])
      BY <1>6, <3>1 DEF NumberingHolds
    <3> DEFINE d == envelope[q].document
    <3>5. revisionByDocument[d].generation \in Nat /\ revisionByDocument'[d].generation \in Nat
      BY <1>2, <3>3 DEF Mark
    <3>6. Behind(envelope[q], revisionByDocument'[d])
      BY <1>3, <3>3, <3>4, <3>5 DEF Behind
    <3> QED
      BY <3>1, <3>6
  <2> QED
    BY <2>1, <2>2
<1> QED
  BY <1>4, <1>5, <1>6 DEF NumberingHolds

\* The router learns no generation the host has not given.
LEMMA StepKeepsNumbering ==
  ASSUME NumberingHolds, NEW r \in Requests, Step(r) \/ Outside(r), UNCHANGED revisionByDocument, TypeOK', MarksTyped'
  PROVE  NumberingHolds'
<1>1. \A q \in Requests : pc'[q] \notin {"new", "done"} => pc[q] \notin {"new", "done"} /\ envelope'[q] = envelope[q]
  BY DEF NumberingHolds, TypeOK, Step, Outside, Refuse, Reply, Admit, Register, Enter, Withdraw, Recheck, Reject,
         Replay, Invoke, Leave, Expire, CancelRpc, Cancel, CancelSource, Return, Throw, Answer, Goto, Replied, Signal
<1>2. CASE Admit(r)
  <2> DEFINE d == envelope[r].document
  <2>1. envelope[r] \in Envelope /\ pc[r] = "sent"
    BY <1>2 DEF Admit, NumberingHolds, TypeOK
  <2>2. d \in Documents /\ Newest(r) \in Mark /\ Behind(Newest(r), revisionByDocument[d])
    BY <2>1 DEF Envelope, Newest, Mark, Behind, NumberingHolds
  <2>3. documents' = [documents EXCEPT ![d] = IF ~Known(d) \/ envelope[r].generation > @.generation
                                              THEN Newest(r) ELSE @]
    BY <1>2 DEF Admit
  <2>4. documents' \in [Documents -> Mark]
        /\ \A c \in Documents : documents'[c] = documents[c] \/ (c = d /\ documents'[c] = Newest(r))
    BY <2>2, <2>3 DEF NumberingHolds
  <2> QED
    BY <1>1, <2>2, <2>4 DEF NumberingHolds
<1>3. CASE ~Admit(r)
  <2>1. documents' = documents
    BY <1>3 DEF Step, Outside, Refuse, Reply, Register, Enter, Withdraw, Recheck, Reject, Replay, Invoke, Leave,
       Expire, CancelRpc, Cancel, CancelSource, Return, Throw, Answer, Signal, router
  <2> QED
    BY <1>1, <2>1 DEF NumberingHolds
<1> QED
  BY <1>2, <1>3

\* The numbering in every reachable state.
LEMMA NumberingInvariant == HostSpec => []NumberingHolds
<1>1. HostInit => NumberingHolds
  <2> SUFFICES ASSUME HostInit PROVE NumberingHolds
    OBVIOUS
  <2>1. TypeOK /\ MarksTyped
    BY InitHolds, HostInitTypes DEF IInv
  <2>2. documents = revisionByDocument /\ \A r \in Requests : pc[r] = "new"
    BY DEF HostInit, Init
  <2> QED
    BY <2>1, <2>2 DEF NumberingHolds, MarksTyped, Behind, Mark
<1>2. NumberingHolds /\ [HostNext]_hostVars => NumberingHolds'
  <2> SUFFICES ASSUME NumberingHolds, [HostNext]_hostVars PROVE NumberingHolds'
    OBVIOUS
  <2>1. MarksTyped' /\ [Next]_vars
    BY MarksStep, HostStepIsStep DEF NumberingHolds
  <2>2. TypeOK'
    <3>1. CASE UNCHANGED vars
      BY <3>1 DEF NumberingHolds, TypeOK, vars, router
    <3> QED
      BY <2>1, <3>1, TypeStep DEF NumberingHolds
  <2>3. CASE HostNext
    BY <2>1, <2>2, <2>3, SendKeepsNumbering, StepKeepsNumbering DEF HostNext
  <2>4. CASE UNCHANGED hostVars
    BY <2>1, <2>2, <2>4 DEF NumberingHolds, hostVars, vars, router
  <2> QED
    BY <2>3, <2>4
<1> QED
  BY <1>1, <1>2, PTL DEF HostSpec

\* The engine finds a request stale only if the extension sent a newer one of the document before.
THEOREM NothingIsStaleBeforeItsTime == HostSpec => StaleWasOvertaken
<1>1. NumberingHolds /\ [HostNext]_hostVars =>
        [\A r \in Requests : pc[r] # "checked" /\ outcome[r] = "none" /\ outcome'[r] = "stale" =>
           revisionByDocument[envelope[r].document].generation > envelope[r].generation]_hostVars
  <2> SUFFICES ASSUME NumberingHolds, HostNext, NEW r \in Requests,
                      pc[r] # "checked", outcome[r] = "none", outcome'[r] = "stale"
               PROVE revisionByDocument[envelope[r].document].generation > envelope[r].generation
    OBVIOUS
  <2>1. Refuse(r) \/ Recheck(r) \/ Return(r)
    <3>1. PICK q \in Requests : SendRequest(q) \/ Step(q) \/ Outside(q)
      BY DEF HostNext
    <3>2. outcome \in [Requests -> Outcomes]
      BY DEF NumberingHolds, TypeOK
    <3>3. ~SendRequest(q)
      BY DEF SendRequest, Send
    <3>4. q = r
      <4>1. TypeOK /\ (Step(q) \/ Outside(q) \/ \E e \in Envelope : Send(q, e))
        BY <3>1, <3>3 DEF NumberingHolds
      <4>2. \A p \in Requests \ {q} : outcome'[p] = outcome[p]
        BY <4>1, OneThreadMoves
      <4> QED
        BY <4>2
    <3>5. ~Reply(r) /\ ~Admit(r) /\ ~Register(r) /\ ~Enter(r) /\ ~Withdraw(r) /\ ~Leave(r)
      BY <3>2 DEF Reply, Replied, Admit, Register, Enter, Withdraw, Leave, Goto
    <3>6. ~Reject(r) /\ ~Replay(r) /\ ~Invoke(r) /\ ~Throw(r)
      BY <3>2 DEF Reject, Replay, Invoke, Throw, Answer, Goto
    <3>7. ~Expire(r) /\ ~CancelRpc(r) /\ ~Cancel(r) /\ ~CancelSource(r)
      BY <3>2 DEF Expire, CancelRpc, Cancel, CancelSource, Signal
    <3> QED
      BY <3>1, <3>3, <3>4, <3>5, <3>6, <3>7 DEF Step, Outside
  <2>2. \E isCancelled \in BOOLEAN : Check(r, isCancelled) = "stale"
    <3>1. CASE Refuse(r)
      BY <3>1, ("token" \in signals[r]) \in BOOLEAN DEF Refuse, Goto, Early, NumberingHolds, TypeOK
    <3>2. CASE Recheck(r) \/ Return(r)
      BY <3>2, Signalled(r) \in BOOLEAN DEF Recheck, Return, Answer, Goto, Signalled, NumberingHolds, TypeOK
    <3> QED
      BY <2>1, <3>1, <3>2
  <2>3. pc[r] \notin {"new", "done"}
    BY <2>1 DEF Refuse, Recheck, Return
  <2>4. envelope[r] \in Envelope
    BY <2>3 DEF NumberingHolds, TypeOK
  <2> DEFINE d == envelope[r].document
  <2>5. /\ d \in Documents /\ envelope[r].generation \in Nat
        /\ documents[d] \in Mark /\ revisionByDocument[d] \in Mark
    BY <2>4 DEF Envelope, NumberingHolds, MarksTyped
  <2>6. \/ envelope[r].generation < documents[d].generation
        \/ envelope[r].generation = documents[d].generation /\ envelope[r].version # documents[d].version
    BY <2>2 DEF Check
  <2>7. Behind(documents[d], revisionByDocument[d]) /\ Behind(envelope[r], revisionByDocument[d])
    BY <2>3, <2>5 DEF NumberingHolds
  <2> HIDE DEF d
  <2>8. revisionByDocument[d].generation > envelope[r].generation
    BY <2>5, <2>6, <2>7 DEF Behind, Mark
  <2> QED
    BY <2>8 DEF d
<1> QED
  BY NumberingInvariant, <1>1, PTL DEF HostSpec, StaleWasOvertaken
(* The names of the commands *)

\* A command on its way is named for what it carries; a command on record is named for what it carried, and one named
\* for its request alone was that request's, which has nothing else on its way.
NamingHolds ==
  /\ \A r \in Requests : pc[r] \notin {"new", "done"} /\ Mutation(r) =>
       \E op \in Operations : envelope[r].command = CommandId(r, op, envelope[r].payload, envelope[r].version)
  /\ \A i \in DOMAIN records : \E r \in Requests, op \in Operations :
       /\ records[i].key[2] = CommandId(r, op, records[i].payload, records[i].version)
       /\ op = NoOperation =>
            /\ pc[r] \in {"leaving", "done"}
            /\ pc[r] = "leaving" => /\ envelope[r].payload = records[i].payload
                                    /\ envelope[r].version = records[i].version

\* Two command ids are the same only for the same request outside a host operation, or for the same content.
LEMMA CommandIdTells ==
  ASSUME NEW r, NEW q, NEW op, NEW other, NEW p, NEW payload, NEW v, NEW version,
         CommandId(r, op, p, v) = CommandId(q, other, payload, version)
  PROVE  \/ op = NoOperation /\ other = NoOperation /\ r = q
         \/ p = payload /\ v = version
<1>1. DOMAIN [by |-> r] = {"by"} /\ DOMAIN [by |-> q] = {"by"}
  OBVIOUS
<1>2. "version" \in DOMAIN [by |-> op, payload |-> p, version |-> v]
      /\ "version" \in DOMAIN [by |-> other, payload |-> payload, version |-> version]
  OBVIOUS
<1>3. CASE op = NoOperation /\ other = NoOperation
  BY <1>3 DEF CommandId
<1>4. CASE op # NoOperation /\ other # NoOperation
  BY <1>4 DEF CommandId
<1>5. CASE op = NoOperation /\ other # NoOperation
  BY <1>1, <1>2, <1>5 DEF CommandId
<1>6. CASE op # NoOperation /\ other = NoOperation
  BY <1>1, <1>2, <1>6 DEF CommandId
<1> QED
  BY <1>3, <1>4, <1>5, <1>6

\* What is on record after an answer was on record before, or is the answer's.
LEMMA RecordsGrowByOne ==
  ASSUME TypeOK, NEW r \in Requests, pc[r] = "running", NEW answer \in Outcomes, Answer(r, answer)
  PROVE  \A i \in DOMAIN records' :
           \/ \E j \in DOMAIN records : records'[i] = records[j]
           \/ Mutation(r) /\ records'[i] = RecordOf(r, answer)
<1>1. CASE ~Mutation(r)
  BY <1>1 DEF Answer
<1>2. CASE Mutation(r)
  <2> DEFINE all == Append(records, RecordOf(r, answer))
  <2>1. all \in Seq(RecordType) /\ records \in Seq(RecordType) /\ Retain(all)
    BY <1>2, RecordIsTyped DEF TypeOK, Answer, Record
  <2>2. /\ DOMAIN all = 1 .. Len(records) + 1 /\ Len(records) \in Nat /\ DOMAIN records = 1 .. Len(records)
        /\ Len(all) = Len(records) + 1
        /\ \A i \in 1 .. Len(records) : all[i] = records[i]
        /\ all[Len(records) + 1] = RecordOf(r, answer)
    BY <2>1, RecordIsTyped
  <2> HIDE DEF all
  <2>3. PICK n \in 0 .. Len(all) : records' = SubSeq(all, n + 1, Len(all))
    BY <2>1 DEF Retain
  <2>4. /\ records' \in Seq(RecordType) /\ Len(records') = Len(all) - n
        /\ \A i \in 1 .. Len(all) - n : records'[i] = all[i + n]
    BY <2>1, <2>3, CutSequence
  <2>5. ASSUME NEW i \in DOMAIN records' PROVE i + n \in DOMAIN all /\ records'[i] = all[i + n]
    BY <2>2, <2>4
  <2> QED
    BY <1>2, <2>2, <2>5
<1> QED
  BY <1>1, <1>2

\* sendRequest names a command by its content.
LEMMA SendKeepsNaming ==
  ASSUME TypeOK, NamingHolds, NEW r \in Requests, SendRequest(r)
  PROVE  NamingHolds'
<1>1. PICK d \in Documents, v \in Versions, p \in Payloads, own \in 0 .. MaxGeneration, op \in Operations,
           mutation \in BOOLEAN :
        Send(r, [document |-> d, generation |-> NextGeneration(revisionByDocument[d], v, own), version |-> v,
                 payload |-> p, command |-> IF mutation THEN CommandId(r, op, p, v) ELSE NoCommand])
  BY DEF SendRequest
<1>2. /\ pc[r] = "new" /\ records' = records /\ pc'[r] = "sent"
      /\ \A q \in Requests \ {r} : pc'[q] = pc[q] /\ envelope'[q] = envelope[q]
      /\ envelope'[r].payload = p /\ envelope'[r].version = v
      /\ envelope'[r].command = IF mutation THEN CommandId(r, op, p, v) ELSE NoCommand
  BY <1>1 DEF Send, TypeOK, router
<1>3. ASSUME NEW q \in Requests, pc'[q] \notin {"new", "done"}, Mutation(q)'
      PROVE  \E o \in Operations : envelope'[q].command = CommandId(q, o, envelope'[q].payload, envelope'[q].version)
  <2>1. CASE q = r
    BY <1>2, <1>3, <2>1 DEF Mutation
  <2>2. CASE q # r
    BY <1>2, <1>3, <2>2 DEF Mutation, NamingHolds
  <2> QED
    BY <2>1, <2>2
<1>4. ASSUME NEW i \in DOMAIN records
      PROVE  \E q \in Requests, o \in Operations :
               /\ records[i].key[2] = CommandId(q, o, records[i].payload, records[i].version)
               /\ o = NoOperation =>
                    /\ pc'[q] \in {"leaving", "done"}
                    /\ pc'[q] = "leaving" => /\ envelope'[q].payload = records[i].payload
                                             /\ envelope'[q].version = records[i].version
  <2>1. PICK q \in Requests, o \in Operations :
               /\ records[i].key[2] = CommandId(q, o, records[i].payload, records[i].version)
               /\ o = NoOperation =>
                    /\ pc[q] \in {"leaving", "done"}
                    /\ pc[q] = "leaving" => /\ envelope[q].payload = records[i].payload
                                            /\ envelope[q].version = records[i].version
    BY DEF NamingHolds
  <2>2. o = NoOperation => pc'[q] = pc[q] /\ envelope'[q] = envelope[q]
    BY <1>2, <2>1
  <2> QED
    BY <2>1, <2>2
<1> QED
  BY <1>2, <1>3, <1>4 DEF NamingHolds

\* Where a request is after any other step, with what it carries: it keeps its envelope until it is done.
LEMMA EnvelopeStays ==
  ASSUME TypeOK, NEW r \in Requests, Step(r) \/ Outside(r)
  PROVE  /\ \A q \in Requests : pc'[q] \notin {"new", "done"} =>
                                  pc[q] \notin {"new", "done"} /\ envelope'[q] = envelope[q]
         /\ \A q \in Requests : pc[q] \in {"leaving", "done"} => pc'[q] \in {pc[q], "done"}
<1>1. ASSUME NEW q \in Requests, q # r PROVE pc'[q] = pc[q] /\ envelope'[q] = envelope[q]
  BY <1>1, OneThreadMoves
<1>2. pc'[r] \notin {"new", "done"} => pc[r] \notin {"new", "done"} /\ envelope'[r] = envelope[r]
  BY DEF TypeOK, Step, Outside, Refuse, Reply, Admit, Register, Enter, Withdraw, Recheck, Reject,
         Replay, Invoke, Leave, Expire, CancelRpc, Cancel, CancelSource, Return, Throw, Answer, Goto, Replied, Signal
<1>3. pc[r] \in {"leaving", "done"} => pc'[r] \in {pc[r], "done"}
  BY DEF TypeOK, Step, Outside, Refuse, Reply, Admit, Register, Enter, Withdraw, Recheck, Reject,
         Replay, Invoke, Leave, Expire, CancelRpc, Cancel, CancelSource, Return, Throw, Answer, Goto, Replied, Signal
<1> QED
  BY <1>1, <1>2, <1>3

\* The router records a command under the content it was sent with.
LEMMA StepKeepsNaming ==
  ASSUME TypeOK, NamingHolds, NEW r \in Requests, Step(r) \/ Outside(r)
  PROVE  NamingHolds'
<1>1. \A q \in Requests : pc'[q] \notin {"new", "done"} => pc[q] \notin {"new", "done"} /\ envelope'[q] = envelope[q]
  BY EnvelopeStays
<1>2. ASSUME NEW q \in Requests, pc'[q] \notin {"new", "done"}, Mutation(q)'
      PROVE  \E o \in Operations : envelope'[q].command = CommandId(q, o, envelope'[q].payload, envelope'[q].version)
  BY <1>1, <1>2 DEF Mutation, NamingHolds
<1> DEFINE Named(record) ==
             \E q \in Requests, o \in Operations :
               /\ record.key[2] = CommandId(q, o, record.payload, record.version)
               /\ o = NoOperation =>
                    /\ pc'[q] \in {"leaving", "done"}
                    /\ pc'[q] = "leaving" => /\ envelope'[q].payload = record.payload
                                             /\ envelope'[q].version = record.version
<1>3. ASSUME NEW i \in DOMAIN records PROVE Named(records[i])
  <2>1. PICK q \in Requests, o \in Operations :
               /\ records[i].key[2] = CommandId(q, o, records[i].payload, records[i].version)
               /\ o = NoOperation =>
                    /\ pc[q] \in {"leaving", "done"}
                    /\ pc[q] = "leaving" => /\ envelope[q].payload = records[i].payload
                                            /\ envelope[q].version = records[i].version
    BY DEF NamingHolds
  <2>2. o = NoOperation => /\ pc'[q] \in {"leaving", "done"}
                           /\ pc'[q] = "leaving" => pc[q] = "leaving" /\ envelope'[q] = envelope[q]
    BY <1>1, <2>1, EnvelopeStays
  <2> QED
    BY <2>1, <2>2
<1>4. ASSUME NEW answer \in Outcomes, pc[r] = "running", Answer(r, answer), Mutation(r)
      PROVE  Named(RecordOf(r, answer))
  <2>1. PICK o \in Operations : envelope[r].command = CommandId(r, o, envelope[r].payload, envelope[r].version)
    BY <1>4 DEF NamingHolds
  <2>2. pc'[r] = "leaving" /\ envelope'[r] = envelope[r]
    BY <1>4 DEF Answer, Goto, TypeOK
  <2>3. /\ RecordOf(r, answer).key[2] = envelope[r].command
        /\ RecordOf(r, answer).payload = envelope[r].payload /\ RecordOf(r, answer).version = envelope[r].version
    BY DEF RecordOf, Key
  <2> QED
    BY <2>1, <2>2, <2>3
<1>5. \A i \in DOMAIN records' : Named(records'[i])
  <2>1. CASE Return(r) \/ Throw(r)
    <3>1. PICK answer \in Outcomes : pc[r] = "running" /\ Answer(r, answer)
      <4>1. Check(r, Signalled(r)) \in Outcomes /\ {"ok", "fault", "cancelled"} \subseteq Outcomes
        BY CheckIsOutcome, Signalled(r) \in BOOLEAN DEF Signalled, Outcomes
      <4> QED
        BY <2>1, <4>1 DEF Return, Throw
    <3> HIDE DEF Named
    <3> QED
      BY <1>3, <1>4, <3>1, RecordsGrowByOne
  <2>2. CASE ~Return(r) /\ ~Throw(r)
    <3>1. records' = records
      BY <2>2 DEF Step, Outside, Refuse, Reply, Admit, Register, Enter, Withdraw, Recheck, Reject, Replay,
         Invoke, Leave, Expire, CancelRpc, Cancel, CancelSource, Signal, router
    <3> HIDE DEF Named
    <3> QED
      BY <1>3, <3>1
  <2> QED
    BY <2>1, <2>2
<1> QED
  BY <1>2, <1>5 DEF NamingHolds

\* The naming in every reachable state.
LEMMA NamingInvariant == HostSpec => []NamingHolds
<1>1. HostInit => NamingHolds
  BY DEF HostInit, Init, NamingHolds
<1>2. TypeOK /\ NamingHolds /\ [HostNext]_hostVars => NamingHolds'
  <2> SUFFICES ASSUME TypeOK, NamingHolds, [HostNext]_hostVars PROVE NamingHolds'
    OBVIOUS
  <2>1. CASE HostNext
    BY <2>1, SendKeepsNaming, StepKeepsNaming DEF HostNext
  <2>2. CASE UNCHANGED hostVars
    BY <2>2 DEF hostVars, vars, router, NamingHolds, Mutation
  <2> QED
    BY <2>1, <2>2
<1>3. NumberingHolds => TypeOK
  BY DEF NumberingHolds
<1> QED
  BY <1>1, <1>2, <1>3, NumberingInvariant, PTL DEF HostSpec

\* One command id never stands for two contents: a repeated mutation is answered with its own record, and no operation
\* with another's (engineIdentityId of sendRequest against the lookup in _operations).
THEOREM CommandsNameTheirContent == HostSpec => []CommandNamesContent
<1>1. TypeOK /\ NamingHolds => CommandNamesContent
  <2> SUFFICES ASSUME TypeOK, NamingHolds, NEW r \in InFlight, NEW i \in DOMAIN records,
                      Mutation(r), records[i].key = Key(r)
               PROVE  records[i].payload = envelope[r].payload /\ records[i].version = envelope[r].version
    BY DEF CommandNamesContent
  <2>1. r \in Requests /\ pc[r] \notin {"new", "done"}
    BY DEF InFlight, Registered, Holding
  <2>2. PICK op \in Operations : envelope[r].command = CommandId(r, op, envelope[r].payload, envelope[r].version)
    BY <2>1 DEF NamingHolds
  <2>3. PICK q \in Requests, o \in Operations :
               /\ records[i].key[2] = CommandId(q, o, records[i].payload, records[i].version)
               /\ o = NoOperation =>
                    /\ pc[q] \in {"leaving", "done"}
                    /\ pc[q] = "leaving" => /\ envelope[q].payload = records[i].payload
                                            /\ envelope[q].version = records[i].version
    BY DEF NamingHolds
  <2>4. records[i].key[2] = envelope[r].command
    BY DEF Key
  <2>5. \/ op = NoOperation /\ o = NoOperation /\ r = q
        \/ envelope[r].payload = records[i].payload /\ envelope[r].version = records[i].version
    <3>1. CommandId(r, op, envelope[r].payload, envelope[r].version)
            = CommandId(q, o, records[i].payload, records[i].version)
      BY <2>2, <2>3, <2>4
    <3>2. ASSUME NEW p, NEW payload, NEW v, NEW version, CommandId(r, op, p, v) = CommandId(q, o, payload, version)
          PROVE  \/ op = NoOperation /\ o = NoOperation /\ r = q
                 \/ p = payload /\ v = version
      BY <3>2, CommandIdTells
    <3> QED
      BY <3>1, <3>2
  <2> QED
    BY <2>1, <2>3, <2>5
<1>2. NumberingHolds => TypeOK
  BY DEF NumberingHolds
<1> QED
  BY <1>1, <1>2, NumberingInvariant, NamingInvariant, PTL
==============================================================================
