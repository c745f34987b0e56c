-------------------------- MODULE DesignDocumentProofs --------------------------
(***************************************************************************)
(* Proofs about DesignDocument, for every number of edits, texts and       *)
(* retained units: the history's cursor stays at the source, its           *)
(* checkpoint at a saved one, and no change of the file is forgotten.      *)
(***************************************************************************)
EXTENDS DesignDocument, TLAPS, SequenceTheorems

Fits(h) == h \in History /\ h.active <= Len(h.units)

\* What a well-formed history gives to arithmetic.
LEMMA FitsFacts ==
  ASSUME NEW h, Fits(h)
  PROVE  /\ h.base \in Text /\ h.units \in Seq(Unit) /\ DOMAIN h.units = 1 .. Len(h.units)
         /\ h.active \in Nat /\ Len(h.units) \in Nat /\ h.active <= Len(h.units)
BY DEF Fits, History

\* The sources of a history are sources.
LEMMA SourceType ==
  ASSUME NEW h, Fits(h), NEW i \in 0 .. Len(h.units)
  PROVE  Source(h, i) \in Text
<1>1. h.base \in Text /\ h.units \in Seq(Unit)
  BY DEF Fits, History
<1>2. CASE i = 0
  BY <1>1, <1>2 DEF Source
<1>3. CASE i # 0
  <2>1. h.units[i] \in Unit
    BY <1>1, <1>3
  <2> QED
    BY <1>3, <2>1 DEF Source, Unit
<1> QED
  BY <1>2, <1>3

\* A reset history has the given source and no units.
LEMMA ResetFits ==
  ASSUME NEW source \in Text, NEW clean \in BOOLEAN
  PROVE  LET r == Reset(source, clean) IN
         /\ Fits(r) /\ CurrentSource(r) = source /\ Chained(r)
         /\ r.units = << >> /\ r.active = 0
<1>1. << >> \in Seq(Unit) /\ Len(<< >>) = 0 /\ DOMAIN << >> = {}
  OBVIOUS
<1> QED
  BY <1>1 DEF Reset, Fits, History, NoCheckpoint, CurrentSource, Source, Chained

\* record(): the redo branch is cut, the unit is the last one and the cursor behind it.
LEMMA RecordFits ==
  ASSUME NEW h, Fits(h), NEW unit \in Unit
  PROVE  LET r == Record(h, unit) IN
         /\ Fits(r) /\ r.base = h.base
         /\ r.active = h.active + 1 /\ Len(r.units) = r.active
         /\ \A i \in 1 .. h.active : r.units[i] = h.units[i]
         /\ r.units[r.active] = unit
<1> DEFINE cut == SubSeq(h.units, 1, h.active)
           r == Record(h, unit)
<1>1. h.units \in Seq(Unit) /\ h.active \in Nat /\ h.active <= Len(h.units)
  BY DEF Fits, History
<1>2. cut \in Seq(Unit) /\ Len(cut) = h.active /\ \A i \in 1 .. h.active : cut[i] = h.units[i]
  BY <1>1, SubSeqProperties
<1>3. /\ Append(cut, unit) \in Seq(Unit) /\ Len(Append(cut, unit)) = h.active + 1
      /\ \A i \in 1 .. h.active : Append(cut, unit)[i] = cut[i]
      /\ Append(cut, unit)[h.active + 1] = unit
  BY <1>2, AppendProperties
<1>4. r.units = Append(cut, unit) /\ r.active = h.active + 1 /\ r.base = h.base
  BY DEF Record
<1>5. r \in History
  BY <1>1, <1>3 DEF Record, Fits, History, NoCheckpoint
<1> QED
  BY <1>1, <1>2, <1>3, <1>4, <1>5 DEF Fits

\* trim(): positions shift, sources stay.
LEMMA ShedFits ==
  ASSUME NEW h, Fits(h), NEW k \in 0 .. h.active
  PROVE  LET s == Shed(h, k) IN
         /\ Fits(s) /\ s.active = h.active - k /\ Len(s.units) = Len(h.units) - k
         /\ s.base = Source(h, k)
         /\ \A i \in 1 .. Len(s.units) : s.units[i] = h.units[i + k]
<1> DEFINE s == Shed(h, k)
           rest == SubSeq(h.units, k + 1, Len(h.units))
<1>1. h.units \in Seq(Unit) /\ h.active \in Nat /\ h.active <= Len(h.units) /\ Len(h.units) \in Nat
  BY DEF Fits, History
<1>2. /\ rest \in Seq(Unit) /\ Len(rest) = Len(h.units) - k
      /\ \A i \in 1 .. Len(h.units) - k : rest[i] = h.units[i + k]
  <2>1. CASE k < Len(h.units)
    BY <1>1, <2>1, SubSeqProperties
  <2>2. CASE k = Len(h.units)
    BY <1>1, <2>2, SubSeqProperties
  <2> QED
    BY <1>1, <2>1, <2>2
<1>3. Source(h, k) \in Text
  BY <1>1, SourceType
<1>4. s.units = rest /\ s.active = h.active - k /\ s.base = Source(h, k)
  BY DEF Shed
<1>5. (IF h.checkpoint < k THEN NoCheckpoint ELSE h.checkpoint - k) \in Nat \cup {NoCheckpoint}
  BY <1>1 DEF Fits, History, NoCheckpoint
<1>6. s \in History
  BY <1>1, <1>2, <1>3, <1>5 DEF Shed, History
<1> QED
  BY <1>1, <1>2, <1>4, <1>6 DEF Fits

\* A trim leaves the source at every retained position.
LEMMA ShedSources ==
  ASSUME NEW h, Fits(h), NEW k \in 0 .. h.active, NEW i \in 0 .. Len(h.units) - k
  PROVE  Source(Shed(h, k), i) = Source(h, i + k)
<1>1. h.active \in Nat /\ h.active <= Len(h.units) /\ Len(h.units) \in Nat
  BY DEF Fits, History
<1>2. CASE i = 0
  BY <1>1, <1>2, ShedFits DEF Source
<1>3. CASE i # 0
  <2>1. i \in 1 .. Len(Shed(h, k).units)
    BY <1>1, <1>3, ShedFits
  <2>2. i + k # 0
    BY <1>1, <1>3
  <2>3. Shed(h, k).units[i] = h.units[i + k]
    BY <2>1, ShedFits
  <2> QED
    BY <1>3, <2>2, <2>3 DEF Source
<1> QED
  BY <1>2, <1>3

\* A trim and a step keep the units a chain of distinct edits.
LEMMA ShedChained ==
  ASSUME NEW h, Fits(h), NEW k \in 0 .. h.active, Chained(h)
  PROVE  Chained(Shed(h, k)) /\ CurrentSource(Shed(h, k)) = CurrentSource(h)
<1> DEFINE s == Shed(h, k)
<1>1. /\ h.active \in Nat /\ h.active <= Len(h.units) /\ Len(h.units) \in Nat
      /\ DOMAIN h.units = 1 .. Len(h.units)
  BY FitsFacts
<1>2. /\ s.active = h.active - k /\ DOMAIN s.units = 1 .. (Len(h.units) - k)
      /\ \A i \in DOMAIN s.units : s.units[i] = h.units[i + k]
  <2>1. Fits(s)
    BY ShedFits
  <2>2. DOMAIN s.units = 1 .. Len(s.units)
    BY <2>1, FitsFacts
  <2> QED
    BY <2>2, ShedFits
<1>3. ASSUME NEW i \in DOMAIN s.units
      PROVE  s.units[i].before = Source(s, i - 1)
  <2>1. i + k \in DOMAIN h.units /\ i - 1 \in 0 .. Len(h.units) - k
    BY <1>1, <1>2
  <2>2. h.units[i + k].before = Source(h, (i + k) - 1)
    <3> DEFINE j == i + k
    <3>1. j \in DOMAIN h.units
      BY <2>1
    <3> HIDE DEF j
    <3>2. h.units[j].before = Source(h, j - 1)
      BY <3>1 DEF Chained
    <3> QED
      BY <3>2 DEF j
  <2>3. Source(s, i - 1) = Source(h, (i - 1) + k)
    BY <2>1, ShedSources
  <2>4. (i - 1) + k = (i + k) - 1
    BY <1>1, <1>2
  <2> QED
    BY <1>2, <2>2, <2>3, <2>4
<1>4. ASSUME NEW i \in DOMAIN s.units, NEW j \in DOMAIN s.units, s.units[i].id = s.units[j].id
      PROVE  i = j
  <2>1. i + k \in DOMAIN h.units /\ j + k \in DOMAIN h.units
    BY <1>1, <1>2
  <2>2. i + k = j + k
    BY <1>2, <1>4, <2>1 DEF Chained
  <2> QED
    BY <1>1, <1>2, <2>2
<1>5. Source(s, h.active - k) = Source(h, (h.active - k) + k)
  BY <1>1, ShedSources
<1>6. CurrentSource(s) = CurrentSource(h)
  <2>1. (h.active - k) + k = h.active
    BY <1>1
  <2> QED
    BY <1>2, <1>5, <2>1 DEF CurrentSource
<1> QED
  BY <1>3, <1>4, <1>6 DEF Chained

\* A new edit that begins at the cursor prolongs the chain.
LEMMA RecordChained ==
  ASSUME NEW h, Fits(h), Chained(h), NEW unit \in Unit, unit.before = CurrentSource(h),
         \A i \in DOMAIN h.units : h.units[i].id # unit.id
  PROVE  Chained(Record(h, unit)) /\ CurrentSource(Record(h, unit)) = unit.after
<1> DEFINE r == Record(h, unit)
<1>1. /\ h.active \in Nat /\ h.active <= Len(h.units) /\ Len(h.units) \in Nat
      /\ DOMAIN h.units = 1 .. Len(h.units)
  BY FitsFacts
<1>2. /\ r.base = h.base /\ r.active = h.active + 1 /\ DOMAIN r.units = 1 .. (h.active + 1)
      /\ \A i \in 1 .. h.active : r.units[i] = h.units[i]
      /\ r.units[h.active + 1] = unit
  <2>1. Fits(r)
    BY RecordFits
  <2>2. DOMAIN r.units = 1 .. Len(r.units)
    BY <2>1, FitsFacts
  <2>3. Len(r.units) = h.active + 1 /\ r.active = h.active + 1 /\ r.base = h.base
    BY RecordFits
  <2>4. /\ \A i \in 1 .. h.active : r.units[i] = h.units[i]
        /\ r.units[h.active + 1] = unit
    BY RecordFits, <2>3
  <2> QED
    BY <2>2, <2>3, <2>4
<1>3. ASSUME NEW i \in 0 .. h.active
      PROVE  Source(r, i) = Source(h, i)
  BY <1>1, <1>2 DEF Source
<1>4. ASSUME NEW i \in DOMAIN r.units
      PROVE  r.units[i].before = Source(r, i - 1)
  <2>1. i - 1 \in 0 .. h.active
    BY <1>1, <1>2
  <2>2. CASE i \in 1 .. h.active
    <3>1. h.units[i].before = Source(h, i - 1)
      BY <1>1, <2>2 DEF Chained
    <3> QED
      BY <1>2, <1>3, <2>1, <2>2, <3>1
  <2>3. CASE i = h.active + 1
    <3>1. i - 1 = h.active
      BY <1>1, <2>3
    <3> QED
      BY <1>2, <1>3, <2>1, <2>3, <3>1 DEF CurrentSource
  <2> QED
    BY <1>1, <1>2, <2>2, <2>3
<1>5. ASSUME NEW i \in DOMAIN r.units, NEW j \in DOMAIN r.units, r.units[i].id = r.units[j].id
      PROVE  i = j
  <2>1. CASE i \in 1 .. h.active /\ j \in 1 .. h.active
    <3>1. i \in DOMAIN h.units /\ j \in DOMAIN h.units
      BY <1>1, <2>1
    <3>2. h.units[i].id = h.units[j].id
      BY <1>2, <1>5, <2>1
    <3> QED
      BY <3>1, <3>2 DEF Chained
  <2>2. CASE i = h.active + 1 \/ j = h.active + 1
    <3>1. ASSUME NEW m \in 1 .. h.active
          PROVE  r.units[m].id # unit.id
      <4>1. m \in DOMAIN h.units /\ r.units[m] = h.units[m]
        BY <1>1, <1>2
      <4> QED
        BY <4>1
    <3>2. CASE i = h.active + 1
      <4>1. j \notin 1 .. h.active
        BY <1>2, <1>5, <3>1, <3>2
      <4> QED
        BY <1>1, <1>2, <3>2, <4>1
    <3>3. CASE j = h.active + 1
      <4>1. i \notin 1 .. h.active
        BY <1>2, <1>5, <3>1, <3>3
      <4> QED
        BY <1>1, <1>2, <3>3, <4>1
    <3> QED
      BY <2>2, <3>2, <3>3
  <2> QED
    BY <1>1, <1>2, <2>1, <2>2
<1>6. CurrentSource(r) = unit.after
  BY <1>1, <1>2 DEF CurrentSource, Source
<1> QED
  BY <1>4, <1>5, <1>6 DEF Chained

\* moved() leaves the units alone.
LEMMA MovedFits ==
  ASSUME NEW h, Fits(h), NEW dir \in {"undo", "redo"}, NEW id, CanMove(h, id, dir)
  PROVE  LET m == Moved(h, dir) IN
         /\ Fits(m) /\ m.units = h.units /\ m.base = h.base
         /\ m.active = IF dir = "undo" THEN h.active - 1 ELSE h.active + 1
         /\ Chained(h) => Chained(m)
<1> DEFINE m == Moved(h, dir)
<1>1. m.units = h.units /\ m.base = h.base /\ m.checkpoint = h.checkpoint
      /\ m.active = IF dir = "undo" THEN h.active - 1 ELSE h.active + 1
  BY DEF Moved, Fits, History
<1>2. m \in History /\ m.active <= Len(m.units)
  BY DEF Moved, CanMove, Fits, History
<1>3. \A i : Source(m, i) = Source(h, i)
  BY <1>1 DEF Source
<1>4. Chained(h) => Chained(m)
  BY <1>1, <1>3 DEF Chained
<1> QED
  BY <1>1, <1>2, <1>4 DEF Fits

------------------------------------------------------------------------------
(* Types *)

\* As long as names are left, the next edit gets a new one.
LEMMA NewIdIsNew ==
  ASSUME Id \ Used # {}
  PROVE  NewId \in Id /\ NewId \notin Used
BY DEF NewId

\* An edit keeps the types of what it changes.
LEMMA AppliedType ==
  ASSUME TypeOK, NEW after \in Text, NEW image \in Text \cup {NoImage}, Applied(after, image)
  PROVE  text' \in Text /\ Fits(history') /\ past' \in Seq(Unit) /\ future' \in Seq(Unit)
<1> DEFINE unit == [id |-> NewId, before |-> text, after |-> after, disk |-> image]
<1>1. text' \in Text
  BY DEF Applied
<1>2. Fits(history) /\ past \in Seq(Unit) /\ future \in Seq(Unit) /\ text \in Text
  BY DEF TypeOK, Fits
<1>3. CASE Id \ Used # {} /\ past' = Append(past, unit) /\ future' = << >>
             /\ \E k \in Excess(Record(history, unit)) : history' = Shed(Record(history, unit), k)
  <2>1. Id \ Used # {} /\ past' = Append(past, unit) /\ future' = << >>
    BY <1>3
  <2>2. unit \in Unit
    BY <1>2, <2>1, NewIdIsNew DEF Unit
  <2>3. PICK k \in Excess(Record(history, unit)) : history' = Shed(Record(history, unit), k)
    BY <1>3
  <2>4. Fits(Record(history, unit)) /\ Len(Record(history, unit).units) = Record(history, unit).active
    BY <1>2, <2>2, RecordFits
  <2>5. k \in 0 .. Record(history, unit).active
    BY <2>3, <2>4 DEF Excess
  <2>6. Fits(history')
    BY <2>3, <2>4, <2>5, ShedFits
  <2>7. past' \in Seq(Unit) /\ future' \in Seq(Unit)
    BY <1>2, <2>1, <2>2, AppendProperties
  <2> QED
    BY <1>1, <2>6, <2>7
<1>4. CASE UNCHANGED <<history, past, future>>
  BY <1>1, <1>2, <1>4
<1> QED
  BY <1>3, <1>4 DEF Applied, stack

\* alignAfterNativeMove() keeps the cursor inside the history.
LEMMA AlignFits ==
  ASSUME NEW h, Fits(h), NEW dir \in {"undo", "redo"}, NEW id, NEW source \in Text,
         CanAlign(h, id, dir)
  PROVE  Fits(Align(h, id, dir, source))
<1>1. CASE ~Contains(h, id)
  BY <1>1, ResetFits DEF Align
<1>2. CASE Contains(h, id) /\ InPlace(h, id, dir)
  BY <1>2 DEF Align
<1>3. CASE Contains(h, id) /\ ~InPlace(h, id, dir)
  <2>1. CanMove(h, id, dir)
    BY <1>3 DEF CanAlign
  <2> QED
    BY <1>3, <2>1, MovedFits DEF Align
<1> QED
  BY <1>1, <1>2, <1>3

\* A save marks a position of the history it finds, and nothing else of it.
LEMMA CheckpointFits ==
  ASSUME NEW h, Fits(h), NEW source, NEW id, NEW same
  PROVE  LET c == Checkpoint(h, source, id, same) IN
         Fits(c) /\ c.base = h.base /\ c.units = h.units /\ c.active = h.active
<1> DEFINE places == Places(h, id, same)
           hits   == {i \in places : Source(h, i) = source}
           mark   == IF hits = {} THEN NoCheckpoint ELSE CHOOSE i \in hits : TRUE
<1>1. places \subseteq Nat
  BY FitsFacts DEF Places, Position
<1>2. mark \in Nat \cup {NoCheckpoint}
  BY <1>1
<1>3. Checkpoint(h, source, id, same) = [h EXCEPT !.checkpoint = mark]
  BY DEF Checkpoint
<1> QED
  BY <1>2, <1>3 DEF Fits, History

\* Stated once for the stacks that are dropped.
LEMMA EmptyIsSeq == << >> \in Seq(Unit)
OBVIOUS

\* The document opens well-typed.
LEMMA InitType == Init => TypeOK
<1> SUFFICES ASSUME Init PROVE TypeOK
  OBVIOUS
<1>1. Fits(history)
  BY ResetFits DEF Init
<1> QED
  BY <1>1, EmptyIsSeq DEF Init, TypeOK, Idle, Fits

\* Every step keeps the types.
LEMMA TypePreserved == TypeOK /\ [Next]_vars => TypeOK'
<1> SUFFICES ASSUME TypeOK, [Next]_vars PROVE TypeOK'
  OBVIOUS
<1> USE DEF TypeOK, file, baseline, stack, ops, ghosts
<1>f. Fits(history)
  BY DEF Fits
<1>1. CASE ForeignWrite
  BY <1>1 DEF ForeignWrite, SetDisk
<1>2. CASE Edit
  <2>1. PICK after \in Text : Applied(after, NoImage)
    BY <1>2 DEF Edit
  <2>2. text' \in Text /\ Fits(history') /\ past' \in Seq(Unit) /\ future' \in Seq(Unit)
    BY <2>1, AppliedType
  <2> QED
    BY <1>2, <2>2 DEF Edit, Fits
<1>3. CASE Undo
  <2>1. past # << >> /\ past[Len(past)] \in Unit /\ SubSeq(past, 1, Len(past) - 1) \in Seq(Unit)
    BY <1>3, SubSeqProperties DEF Undo
  <2>2. << past[Len(past)] >> \o future \in Seq(Unit)
    BY <2>1
  <2> QED
    <3>1. CASE Rejected
      BY <1>3, <3>1, EmptyIsSeq DEF Undo, BeginStep, Rejected
    <3>2. CASE ~Rejected
      <4>1. past' \in Seq(Unit) /\ future' \in Seq(Unit)
        BY <1>3, <2>1, <2>2, <3>2 DEF Undo, BeginStep
      <4>2. step' \in [stage : {"away", "landed", "redraw"}, dir : {"undo", "redo"}, unit : Unit]
        BY <1>3, <2>1, <3>2 DEF Undo, BeginStep
      <4>3. read' = read \/ read' = Idle
        BY <1>3, <3>2 DEF Undo, BeginStep
      <4> QED
        BY <1>3, <4>1, <4>2, <4>3 DEF Undo
    <3> QED
      BY <3>1, <3>2
<1>4. CASE Redo
  <2>1. future # << >> /\ future[1] \in Unit /\ Tail(future) \in Seq(Unit)
    BY <1>4, HeadTailProperties DEF Redo
  <2>2. Append(past, future[1]) \in Seq(Unit)
    BY <2>1
  <2> QED
    <3>1. CASE Rejected
      BY <1>4, <3>1, EmptyIsSeq DEF Redo, BeginStep, Rejected
    <3>2. CASE ~Rejected
      <4>1. past' \in Seq(Unit) /\ future' \in Seq(Unit)
        BY <1>4, <2>1, <2>2, <3>2 DEF Redo, BeginStep
      <4>2. step' \in [stage : {"away", "landed", "redraw"}, dir : {"undo", "redo"}, unit : Unit]
        BY <1>4, <2>1, <3>2 DEF Redo, BeginStep
      <4>3. read' = read \/ read' = Idle
        BY <1>4, <3>2 DEF Redo, BeginStep
      <4> QED
        BY <1>4, <4>1, <4>2, <4>3 DEF Redo
    <3> QED
      BY <3>1, <3>2
<1>5. CASE StepFile
  <2>1. step \in [stage : {"away", "landed", "redraw"}, dir : {"undo", "redo"}, unit : Unit]
    BY <1>5 DEF StepFile, Idle
  <2>2. Journaled(step.unit) => FileTo(step) \in Text
    BY <2>1 DEF FileTo, Journaled, Unit
  <2> QED
    <3>1. CASE Rejected /\ Released /\ disk' \in Text
      BY <1>5, <3>1, EmptyIsSeq DEF StepFile, Rejected, Released
    <3>2. CASE SetDisk(FileTo(step)) /\ step' = [step EXCEPT !.stage = "landed"] /\ UNCHANGED <<stack, read>>
      BY <1>5, <2>1, <2>2, <3>2 DEF StepFile, SetDisk
    <3> QED
      BY <1>5, <2>2, <3>1, <3>2 DEF StepFile
<1>6. CASE StepSource
  <2>1. step \in [stage : {"away", "landed", "redraw"}, dir : {"undo", "redo"}, unit : Unit]
    BY <1>6 DEF StepSource, SourceIsNext, Idle
  <2>2. To(step) \in Text /\ (Journaled(step.unit) => FileTo(step) \in Text)
    BY <2>1 DEF To, FileTo, Journaled, Unit
  <2>3. Fits(history')
    <3>1. CASE CanAlign(history, step.unit.id, step.dir)
      <4>1. history' = Align(history, step.unit.id, step.dir, To(step))
        BY <1>6, <3>1 DEF StepSource, Aligned
      <4> QED
        BY <1>f, <2>1, <2>2, <3>1, <4>1, AlignFits
    <3>2. CASE ~CanAlign(history, step.unit.id, step.dir)
      BY <1>6, <1>f, <3>2 DEF StepSource
    <3> QED
      BY <3>1, <3>2
  <2>4. text' \in Text /\ saved' \in Text /\ read' \in {Idle, [stage |-> "failed"]} \cup [stage : {"done"}, image : Text]
    BY <1>6, <2>2 DEF StepSource, Released
  <2>5. /\ step' \in {Idle} \cup [stage : {"away", "landed", "redraw"}, dir : {"undo", "redo"}, unit : Unit]
        /\ past' \in Seq(Unit) /\ future' \in Seq(Unit)
    BY <1>6, <2>1, EmptyIsSeq DEF StepSource, Rejected
  <2> QED
    BY <1>6, <2>3, <2>4, <2>5 DEF StepSource, Fits
<1>7. CASE StepFails
  <2>1. step \in [stage : {"away", "landed", "redraw"}, dir : {"undo", "redo"}, unit : Unit]
    BY <1>7 DEF StepFails, SourceIsNext, Idle
  <2>2. Journaled(step.unit) => FileFrom(step) \in Text
    BY <2>1 DEF FileFrom, Journaled, Unit
  <2> QED
    BY <1>7, <2>1, <2>2, EmptyIsSeq DEF StepFails, Rejected, Released
<1>8. CASE StepEnd
  <2>1. step \in [stage : {"away", "landed", "redraw"}, dir : {"undo", "redo"}, unit : Unit]
    BY <1>8 DEF StepEnd, Idle
  <2>2. Fits(history')
    <3>1. CASE CanAlign(history, step.unit.id, step.dir) /\ Aligned(step.unit.id, step.dir, text)
      BY <1>f, <2>1, <3>1, AlignFits DEF Aligned
    <3>2. CASE history' = history
      BY <1>f, <3>2
    <3> QED
      BY <1>8, <3>1, <3>2 DEF StepEnd
  <2> QED
    BY <1>8, <2>2, EmptyIsSeq DEF StepEnd, Rejected, Fits
<1>9. CASE SaveBegin
  <2>1. TokenId(history) \in Id \cup {NoEdit}
    <3>1. CASE history.active = 0
      BY <3>1 DEF TokenId
    <3>2. CASE history.active # 0
      <4>1. history.units[history.active] \in Unit
        BY <1>f, <3>2, FitsFacts
      <4> QED
        BY <3>2, <4>1 DEF TokenId, Unit
    <3> QED
      BY <3>1, <3>2
  <2> QED
    BY <1>9, <2>1 DEF SaveBegin
<1>10. CASE SaveCheck
  BY <1>10 DEF SaveCheck, Idle
<1>11. CASE SaveWrite
  BY <1>11 DEF SaveWrite, SetDisk, Idle
<1>12. CASE SaveEnd
  <2>1. save.snapshot \in Text
    BY <1>12 DEF SaveEnd, Idle
  <2>2. Fits(history')
    BY <1>12, <1>f, CheckpointFits DEF SaveEnd
  <2> QED
    BY <1>12, <2>1, <2>2 DEF SaveEnd, Fits
<1>13. CASE ReadFile
  BY <1>13 DEF ReadFile
<1>a. ASSUME NEW image \in Text, Adopted(image)
      PROVE  text' \in Text /\ saved' \in Text /\ Fits(history')
  BY <1>a, ResetFits DEF Adopted
<1>14. CASE Reload
  <2>1. CASE Adopted(read.image) /\ read.stage = "done"
    <3>1. read.image \in Text
      BY <2>1 DEF Idle
    <3> QED
      BY <1>14, <1>a, <2>1, <3>1 DEF Reload, Fits
  <2>2. CASE UNCHANGED <<text, saved, history>>
    BY <1>14, <2>2 DEF Reload
  <2> QED
    BY <1>14, <2>1, <2>2 DEF Reload
<1>15. CASE RevertBegin
  <2>1. past \o future \in Seq(Unit)
    BY ConcatProperties
  <2>2. past' \in Seq(Unit) /\ future' \in Seq(Unit)
    <3>1. PICK n \in 0 .. Len(past \o future) : past' = SubSeq(past \o future, 1, n) /\ future' = << >>
      BY <1>15 DEF RevertBegin
    <3> QED
      BY <2>1, <3>1, SubSeqProperties
  <2> QED
    BY <1>15, <2>2 DEF RevertBegin
<1>16. CASE RevertEnd
  <2>1. revert.image \in Text
    BY <1>16 DEF RevertEnd, Idle
  <2> QED
    BY <1>16, <1>a, <2>1 DEF RevertEnd, Fits
<1>17. CASE TxnBegin
  BY <1>17 DEF TxnBegin
<1> DEFINE Txn == [stage : {"begun", "written", "refused", "verified", "reconcile"},
                   before : Text, base : Text, after : Text]
<1>t. txn.stage # "none" => txn \in Txn
  BY DEF Idle
<1>18. CASE TxnWrite
  BY <1>18, <1>t DEF TxnWrite, SetDisk, TxnEnds, Released
<1>19. CASE TxnVerify
  BY <1>19, <1>t DEF TxnVerify
<1>20. CASE TxnCommit
  <2>1. txn \in Txn
    BY <1>20, <1>t DEF TxnCommit
  <2>2. CASE Applied(txn.after, txn.base) /\ saved' = txn.after /\ TxnEnds
    <3>1. text' \in Text /\ Fits(history') /\ past' \in Seq(Unit) /\ future' \in Seq(Unit)
      BY <2>1, <2>2, AppliedType
    <3> QED
      BY <1>20, <2>1, <2>2, <3>1 DEF TxnCommit, TxnEnds, Released, Fits
  <2>3. CASE txn' = [txn EXCEPT !.stage = "refused"] /\ UNCHANGED <<text, saved, history, past, future, read>>
    BY <1>20, <2>1, <2>3 DEF TxnCommit
  <2> QED
    BY <1>20, <2>2, <2>3 DEF TxnCommit
<1>21. CASE TxnRollBack
  BY <1>21, <1>t DEF TxnRollBack, SetDisk, TxnEnds, Released
<1>22. CASE TxnReconcile
  BY <1>22, <1>t DEF TxnReconcile, TxnEnds, Released, Revised
<1>23. CASE UNCHANGED vars
  BY <1>23 DEF vars
<1> QED
  BY <1>1, <1>2, <1>3, <1>4, <1>5, <1>6, <1>7, <1>8, <1>9, <1>10, <1>11, <1>12, <1>13, <1>14,
     <1>15, <1>16, <1>17, <1>18, <1>19, <1>20, <1>21, <1>22, <1>23 DEF Next

------------------------------------------------------------------------------
(* The cursor *)

\* A history with the same units and the same cursor, a document that was not revised for
\* the sake of its step.
Kept ==
  /\ history'.base = history.base /\ history'.units = history.units
  /\ history'.active = history.active
  /\ UNCHANGED <<text, past, step>>
  /\ future' = future \/ future' = << >>
  /\ "step" \in current' => "step" \in current

\* A step that leaves source, history and stacks alone.
LEMMA KeptSound ==
  ASSUME TypeOK, Sound, Kept
  PROVE  Sound'
<1>1. \A i : Source(history', i) = Source(history, i)
  BY DEF Kept, Source
<1>2. CursorMatches' /\ Chained(history')
  BY <1>1 DEF Sound, Kept, CursorMatches, CurrentSource, Chained
<1>3. \A unit, p : At(history, unit, p) => At(history', unit, p)
  BY DEF At, Kept
<1>4. (Moving => "step" \in current)' => StacksAgree'
  <2>1. Moving' = Moving /\ Ahead' = Ahead /\ history'.active = history.active /\ past' = past
    BY DEF Moving, Ahead, Kept
  <2>2. ASSUME (Moving => "step" \in current)'
        PROVE  StacksAgree'
    <3>1. StacksAgree
      BY <2>1, <2>2 DEF Kept, Sound
    <3>2. ASSUME NEW i \in DOMAIN past'
          PROVE  At(history', past'[i], (history'.active + Ahead') - (Len(past') - i))
      BY <1>3, <2>1, <3>1 DEF StacksAgree
    <3>3. ASSUME NEW i \in DOMAIN future'
          PROVE  At(history', future'[i], (history'.active + Ahead') + i)
      <4>1. future' = future
        BY <3>3 DEF Kept
      <4> QED
        BY <1>3, <2>1, <3>1, <4>1 DEF StacksAgree
    <3> QED
      BY <3>2, <3>3 DEF StacksAgree
  <2> QED
    BY <2>2
<1>5. (Moving /\ "step" \in current)' => StepIsNext'
  <2>1. SUFFICES ASSUME (Moving /\ "step" \in current)' PROVE StepIsNext'
    OBVIOUS
  <2>2. StepIsNext
    BY <2>1 DEF Sound, Kept, Moving
  <2> QED
    BY <1>3, <2>2 DEF StepIsNext, From, Kept
<1>6. (step.stage = "redraw")' => StepIsDone'
  BY DEF Sound, StepIsDone, Position, Kept
<1> QED
  BY <1>2, <1>4, <1>5, <1>6 DEF Sound

\* A step that is dropped takes VS Code's stacks with it.
LEMMA RejectedSound ==
  ASSUME TypeOK, Sound, Rejected, UNCHANGED <<text, history>>
  PROVE  Sound'
<1>1. ~Moving' /\ step'.stage # "redraw"
  BY DEF Rejected, Moving, Idle
<1>2. StacksAgree'
  BY DEF Rejected, StacksAgree
<1> QED
  BY <1>1, <1>2 DEF Sound, CursorMatches

\* An empty history at the source agrees with any stack.
LEMMA EmptySound ==
  ASSUME history'.units = << >>, CurrentSource(history') = text',
         Moving' => "step" \notin current'
  PROVE  Sound'
<1>1. DOMAIN history'.units = {}
  OBVIOUS
<1>2. Chained(history') /\ StacksAgree' /\ StepIsDone'
  BY <1>1 DEF Chained, StacksAgree, StepIsDone, At, Position
<1> QED
  BY <1>2 DEF Sound, CursorMatches

\* Positions counted from the cursor, before and after k units were dropped.
LEMMA ShiftOf ==
  ASSUME NEW a \in Int, NEW k \in Int, NEW j \in Int
  PROVE  (j + k) - j = a + 1 - (a + 1 - k)
OBVIOUS

\* An edit that is recorded extends the chain and puts its unit on top of VS Code's stack.
LEMMA AppliedSound ==
  ASSUME TypeOK, Sound, NEW after \in Text, NEW image \in Text \cup {NoImage},
         Applied(after, image), ~strayed', step' = step
  PROVE  Sound'
<1> DEFINE unit == [id |-> NewId, before |-> text, after |-> after, disk |-> image]
           h == history
           r == Record(h, unit)
           used(id) == \A j \in DOMAIN history'.units :
                         history'.units[j].id = id =>
                           \E i \in DOMAIN h.units :
                             i <= h.active /\ h.units[i] = history'.units[j]
                               /\ i - j = h.active + 1 - history'.active
<1>1. Fits(h) /\ past \in Seq(Unit) /\ text \in Text /\ CurrentSource(h) = text /\ Chained(h)
  BY DEF TypeOK, Fits, Sound, CursorMatches
<1>2. /\ Id \ Used # {} /\ past' = Append(past, unit) /\ future' = << >>
      /\ text' = after /\ current' = {}
  BY <1>1 DEF Applied, Revised
<1>3. unit \in Unit /\ NewId \notin Used
  BY <1>1, <1>2, NewIdIsNew DEF Unit
<1>4. PICK k \in Excess(r) : history' = Shed(r, k)
  BY <1>1 DEF Applied
<1>5. /\ Fits(r) /\ r.active = h.active + 1 /\ Len(r.units) = r.active
      /\ \A i \in 1 .. h.active : r.units[i] = h.units[i]
      /\ r.units[h.active + 1] = unit
  <2>1. Fits(r) /\ r.active = h.active + 1 /\ Len(r.units) = r.active
        /\ \A i \in 1 .. h.active : r.units[i] = h.units[i]
    BY <1>1, <1>3, RecordFits
  <2>2. r.units[r.active] = unit
    BY <1>1, <1>3, RecordFits
  <2> QED
    BY <2>1, <2>2
<1>6. \A i \in DOMAIN h.units : h.units[i].id # unit.id
  BY <1>3 DEF Used
<1>7. Chained(r) /\ CurrentSource(r) = after
  BY <1>1, <1>3, <1>6, RecordChained
<1>8. h.active \in Nat /\ k \in 0 .. h.active + 1
  BY <1>1, <1>4, <1>5, FitsFacts DEF Excess
<1>9. /\ Fits(history') /\ history'.active = h.active + 1 - k
      /\ Len(history'.units) = h.active + 1 - k
      /\ \A i \in 1 .. Len(history'.units) : history'.units[i] = r.units[i + k]
  <2>1. k \in 0 .. r.active
    BY <1>5, <1>8
  <2> HIDE DEF r
  <2>2. /\ Fits(Shed(r, k)) /\ Shed(r, k).active = r.active - k
        /\ Len(Shed(r, k).units) = Len(r.units) - k
        /\ \A i \in 1 .. Len(Shed(r, k).units) : Shed(r, k).units[i] = r.units[i + k]
    BY <1>5, <2>1, ShedFits
  <2> QED
    BY <1>4, <1>5, <1>8, <2>2
<1>10. Chained(history') /\ CurrentSource(history') = after
  BY <1>4, <1>5, <1>7, <1>8, ShedChained
<1>11. DOMAIN history'.units = 1 .. (h.active + 1 - k) /\ DOMAIN h.units = 1 .. Len(h.units)
       /\ h.active <= Len(h.units) /\ Len(h.units) \in Nat
  BY <1>1, <1>9, FitsFacts
<1>12. ASSUME NEW id, id \in Used
       PROVE  used(id)
  <2>1. SUFFICES ASSUME NEW j \in DOMAIN history'.units, history'.units[j].id = id
                 PROVE  \E i \in DOMAIN h.units :
                          i <= h.active /\ h.units[i] = history'.units[j]
                            /\ i - j = h.active + 1 - history'.active
    OBVIOUS
  <2>2. j + k \in 1 .. h.active + 1 /\ history'.units[j] = r.units[j + k]
    BY <1>8, <1>9, <1>11
  <2>3. j + k # h.active + 1
    BY <1>3, <1>5, <1>12, <2>1, <2>2
  <2>4. j + k \in 1 .. h.active
    <3> DEFINE m == j + k
    <3>1. m \in 1 .. h.active + 1 /\ m # h.active + 1
      BY <2>2, <2>3
    <3> HIDE DEF m
    <3>2. m \in 1 .. h.active
      BY <1>8, <3>1
    <3> QED
      BY <3>2 DEF m
  <2>5. j + k \in DOMAIN h.units /\ h.units[j + k] = history'.units[j]
    <3> DEFINE m == j + k
    <3>1. m \in 1 .. h.active /\ history'.units[j] = r.units[m]
      BY <2>2, <2>4
    <3> HIDE DEF m, r
    <3>2. m \in DOMAIN h.units
      BY <1>8, <1>11, <3>1
    <3>3. h.units[m] = history'.units[j]
      BY <1>5, <3>1
    <3> QED
      BY <3>2, <3>3 DEF m
  <2>6. (j + k) - j = h.active + 1 - history'.active
    <3>1. h.active \in Int /\ k \in Int  BY <1>8
    <3>2. j \in Int  BY <1>8, <1>11
    <3>3. history'.active = h.active + 1 - k  BY <1>9
    <3>. QED BY <3>1, <3>2, <3>3, ShiftOf
  <2> QED
    BY <2>4, <2>5, <2>6
<1>13. CursorMatches'
  BY <1>2, <1>10 DEF CursorMatches
<1>14. Moving' => "step" \notin current'
  BY <1>2
<1>15. (Moving => "step" \in current)' => StacksAgree'
  <2>1. SUFFICES ASSUME ~Moving' PROVE StacksAgree'
    BY <1>14
  <2>2. ~Moving /\ Ahead = 0 /\ Ahead' = 0
    BY <2>1 DEF Moving, Ahead
  <2>3. \A i \in DOMAIN past : At(h, past[i], h.active - (Len(past) - i))
    <3>1. StacksAgree
      BY <2>2 DEF Sound
    <3>2. \A i \in DOMAIN past : At(h, past[i], (h.active + Ahead) - (Len(past) - i))
      BY <3>1 DEF StacksAgree
    <3>3. h.active + Ahead = h.active
      BY <1>8, <2>2
    <3> QED
      BY <3>2, <3>3
  <2>4. /\ Len(past') = Len(past) + 1 /\ Len(past) \in Nat
        /\ DOMAIN past' = 1 .. Len(past) + 1 /\ DOMAIN past = 1 .. Len(past)
        /\ \A i \in 1 .. Len(past) : past'[i] = past[i]
        /\ past'[Len(past) + 1] = unit
    BY <1>1, <1>2, <1>3, AppendProperties
  <2>5. ASSUME NEW i \in DOMAIN past'
        PROVE  At(history', past'[i], (history'.active + Ahead') - (Len(past') - i))
    <3>1. SUFFICES ASSUME NEW j \in DOMAIN history'.units, history'.units[j].id = past'[i].id
                   PROVE  /\ j = (history'.active + Ahead') - (Len(past') - i)
                          /\ history'.units[j] = past'[i]
      BY DEF At
    <3>2. CASE i \in 1 .. Len(past)
      <4>1. past'[i] = past[i] /\ past[i].id \in Used
        BY <2>4, <3>2 DEF Used
      <4>2. PICK m \in DOMAIN h.units : m <= h.active /\ h.units[m] = history'.units[j]
                                          /\ m - j = h.active + 1 - history'.active
        BY <1>12, <3>1, <4>1
      <4>3. m = h.active - (Len(past) - i) /\ h.units[m] = past[i]
        BY <2>3, <2>4, <3>1, <3>2, <4>1, <4>2 DEF At
      <4> QED
        <5>1. j \in Nat /\ m \in Nat /\ i \in Nat /\ k \in Nat /\ Len(past) \in Nat
          BY <1>8, <1>11, <2>4
        <5>2. j = history'.active - ((Len(past) + 1) - i)
          <6>1. m - j = h.active + 1 - history'.active /\ m = h.active - (Len(past) - i)
            BY <4>2, <4>3
          <6>2. history'.active \in Int /\ h.active \in Int
            BY <1>8, <1>9
          <6> HIDE DEF h
          <6> QED
            BY <5>1, <6>1, <6>2
        <5>3. history'.active + Ahead' = history'.active
          BY <1>8, <1>9, <2>2
        <5>4. history'.units[j] = past'[i]
          BY <4>1, <4>2, <4>3
        <5> QED
          BY <2>4, <5>2, <5>3, <5>4
    <3>3. CASE i = Len(past) + 1
      <4>1. j + k \in 1 .. h.active + 1 /\ history'.units[j] = r.units[j + k] /\ past'[i] = unit
        BY <1>8, <1>9, <1>11, <2>4, <3>3
      <4>2. j + k \notin 1 .. h.active
        <5>1. SUFFICES ASSUME j + k \in 1 .. h.active PROVE FALSE
          OBVIOUS
        <5>2. j + k \in DOMAIN h.units /\ h.units[j + k].id = unit.id
          <6> DEFINE m == j + k
          <6>1. m \in 1 .. h.active /\ r.units[m].id = unit.id
            BY <3>1, <4>1, <5>1
          <6> HIDE DEF m, r
          <6>2. m \in DOMAIN h.units /\ h.units[m] = r.units[m]
            BY <1>5, <1>8, <1>11, <6>1
          <6> QED
            BY <6>1, <6>2 DEF m
        <5> QED
          BY <1>6, <5>2
      <4>3. j + k = h.active + 1
        BY <1>8, <1>11, <4>1, <4>2
      <4> QED
        BY <1>5, <1>8, <1>9, <1>11, <2>2, <2>4, <3>3, <4>1, <4>3
    <3> QED
      BY <2>4, <3>2, <3>3
  <2>6. DOMAIN future' = {}
    BY <1>2
  <2> QED
    BY <2>5, <2>6 DEF StacksAgree
<1>16. (step.stage = "redraw")' => StepIsDone'
  <2>1. SUFFICES ASSUME step.stage = "redraw", step' = step,
                        NEW j \in Position(history', step.unit.id)
                 PROVE  IF step.dir = "undo" THEN j = history'.active + 1 ELSE j <= history'.active
    BY DEF StepIsDone
  <2>2. step.unit.id \in Used
    BY <2>1 DEF Used
  <2>3. j \in DOMAIN history'.units /\ history'.units[j].id = step.unit.id
    BY <2>1 DEF Position
  <2>4. PICK m \in DOMAIN h.units : m <= h.active /\ h.units[m] = history'.units[j]
                                      /\ m - j = h.active + 1 - history'.active
    BY <1>12, <2>2, <2>3
  <2>5. m \in Position(h, step.unit.id)
    BY <2>3, <2>4 DEF Position
  <2>6. IF step.dir = "undo" THEN m = h.active + 1 ELSE m <= h.active
    BY <2>1, <2>5 DEF Sound, StepIsDone
  <2>7. step.dir # "undo"
    BY <1>8, <1>11, <2>4, <2>6
  <2>8. j <= history'.active
    BY <1>8, <1>9, <1>11, <2>3
  <2> QED
    BY <2>7, <2>8
<1> QED
  BY <1>10, <1>13, <1>14, <1>15, <1>16 DEF Sound

\* VS Code moves a unit from one stack to the other, the cursor is one behind.
LEMMA UndoSound ==
  ASSUME TypeOK, Sound, Undo
  PROVE  Sound'
<1> DEFINE u == past[Len(past)]
           s == [stage |-> "away", dir |-> "undo", unit |-> u]
<1>1. /\ past \in Seq(Unit) /\ future \in Seq(Unit) /\ past # << >> /\ u \in Unit
      /\ history.active \in Int /\ Len(past) \in Nat \ {0} /\ DOMAIN past = 1 .. Len(past)
  BY DEF TypeOK, History, Undo
<1>2. UNCHANGED <<text, history>>
  BY DEF Undo
<1>3. CASE Rejected
  BY <1>2, <1>3, RejectedSound
<1>4. CASE ~Rejected
  <2>1. /\ text = From(s) /\ step' = s /\ "step" \in current'
        /\ past' = SubSeq(past, 1, Len(past) - 1) /\ future' = << u >> \o future
    BY <1>4 DEF Undo, BeginStep, Enters
  <2>2. ~Moving /\ Ahead = 0 /\ Moving' /\ Ahead' = -1 /\ step'.stage # "redraw"
    BY <2>1 DEF Undo, Moving, Ahead
  <2>3. /\ \A i \in DOMAIN past : At(history, past[i], history.active - (Len(past) - i))
        /\ \A i \in DOMAIN future : At(history, future[i], history.active + i)
    <3>1. StacksAgree
      BY <2>2 DEF Sound
    <3>2. history.active + Ahead = history.active
      BY <1>1, <2>2
    <3> QED
      BY <3>1, <3>2 DEF StacksAgree
  <2>4. /\ Len(past') = Len(past) - 1 /\ DOMAIN past' = 1 .. Len(past) - 1
        /\ \A i \in 1 .. Len(past) - 1 : past'[i] = past[i]
    BY <1>1, <2>1, SubSeqProperties
  <2>5. /\ DOMAIN future' = 1 .. Len(future) + 1 /\ DOMAIN future = 1 .. Len(future)
        /\ Len(future) \in Nat
        /\ future'[1] = u /\ \A i \in 1 .. Len(future) : future'[i + 1] = future[i]
    BY <1>1, <2>1, ConcatProperties
  <2>6. At(history, u, history.active)
    <3>1. history.active - (Len(past) - Len(past)) = history.active
      BY <1>1
    <3> QED
      BY <1>1, <2>3, <3>1
  <2>7. ASSUME NEW i \in DOMAIN past'
        PROVE  At(history', past'[i], (history'.active + Ahead') - (Len(past') - i))
    <3>1. i \in DOMAIN past /\ past'[i] = past[i]
      BY <1>1, <2>4
    <3>2. (history'.active + Ahead') - (Len(past') - i) = history.active - (Len(past) - i)
      BY <1>1, <1>2, <2>2, <2>4
    <3> QED
      BY <1>2, <2>3, <3>1, <3>2
  <2>8. ASSUME NEW i \in DOMAIN future'
        PROVE  At(history', future'[i], (history'.active + Ahead') + i)
    <3>1. CASE i = 1
      <4>1. (history'.active + Ahead') + i = history.active
        BY <1>1, <1>2, <2>2, <3>1
      <4> QED
        BY <1>2, <2>5, <2>6, <3>1, <4>1
    <3>2. CASE i # 1
      <4> DEFINE j == i - 1
      <4>1. j \in DOMAIN future /\ i = j + 1
        BY <2>5, <3>2
      <4>2. (history'.active + Ahead') + i = history.active + j
        BY <1>1, <1>2, <2>2, <2>5
      <4>3. future'[i] = future[j]
        BY <2>5, <4>1
      <4> QED
        BY <1>2, <2>3, <4>1, <4>2, <4>3
    <3> QED
      BY <3>1, <3>2
  <2>9. StacksAgree'
    BY <2>7, <2>8 DEF StacksAgree
  <2>10. StepIsNext'
    BY <1>2, <2>1, <2>6 DEF StepIsNext, From
  <2> QED
    BY <1>2, <2>2, <2>9, <2>10 DEF Sound, CursorMatches
<1> QED
  BY <1>3, <1>4

\* The same of a Redo.
LEMMA RedoSound ==
  ASSUME TypeOK, Sound, Redo
  PROVE  Sound'
<1> DEFINE u == future[1]
           s == [stage |-> "away", dir |-> "redo", unit |-> u]
<1>1. /\ past \in Seq(Unit) /\ future \in Seq(Unit) /\ future # << >> /\ u \in Unit
      /\ history.active \in Int /\ Len(past) \in Nat /\ DOMAIN past = 1 .. Len(past)
      /\ Len(future) \in Nat \ {0} /\ DOMAIN future = 1 .. Len(future)
  BY DEF TypeOK, History, Redo
<1>2. UNCHANGED <<text, history>>
  BY DEF Redo
<1>3. CASE Rejected
  BY <1>2, <1>3, RejectedSound
<1>4. CASE ~Rejected
  <2>1. /\ text = From(s) /\ step' = s /\ "step" \in current'
        /\ past' = Append(past, u) /\ future' = Tail(future)
    BY <1>4 DEF Redo, BeginStep, Enters
  <2>2. ~Moving /\ Ahead = 0 /\ Moving' /\ Ahead' = 1 /\ step'.stage # "redraw"
    BY <2>1 DEF Redo, Moving, Ahead
  <2>3. /\ \A i \in DOMAIN past : At(history, past[i], history.active - (Len(past) - i))
        /\ \A i \in DOMAIN future : At(history, future[i], history.active + i)
    <3>1. StacksAgree
      BY <2>2 DEF Sound
    <3>2. history.active + Ahead = history.active
      BY <1>1, <2>2
    <3> QED
      BY <3>1, <3>2 DEF StacksAgree
  <2>4. /\ Len(past') = Len(past) + 1 /\ DOMAIN past' = 1 .. Len(past) + 1
        /\ past'[Len(past) + 1] = u /\ \A i \in 1 .. Len(past) : past'[i] = past[i]
    BY <1>1, <2>1, AppendProperties
  <2>5. DOMAIN future' = 1 .. Len(future) - 1 /\ \A i \in 1 .. Len(future) - 1 : future'[i] = future[i + 1]
    BY <1>1, <2>1, HeadTailProperties
  <2>6. At(history, u, history.active + 1)
    BY <1>1, <2>3
  <2>7. ASSUME NEW i \in DOMAIN past'
        PROVE  At(history', past'[i], (history'.active + Ahead') - (Len(past') - i))
    <3>1. CASE i \in 1 .. Len(past)
      <4>1. (history'.active + Ahead') - (Len(past') - i) = history.active - (Len(past) - i)
        BY <1>1, <1>2, <2>2, <2>4
      <4> QED
        BY <1>1, <1>2, <2>3, <2>4, <3>1, <4>1
    <3>2. CASE i = Len(past) + 1
      <4>1. (history'.active + Ahead') - (Len(past') - i) = history.active + 1
        BY <1>1, <1>2, <2>2, <2>4, <3>2
      <4> QED
        BY <1>2, <2>4, <2>6, <3>2, <4>1
    <3> QED
      BY <1>1, <2>4, <3>1, <3>2
  <2>8. ASSUME NEW i \in DOMAIN future'
        PROVE  At(history', future'[i], (history'.active + Ahead') + i)
    <3>1. i + 1 \in DOMAIN future /\ future'[i] = future[i + 1]
      BY <1>1, <2>5
    <3>2. (history'.active + Ahead') + i = history.active + (i + 1)
      <4>1. i \in Int
        BY <1>1, <2>5
      <4> QED
        BY <1>1, <1>2, <2>2, <4>1
    <3> QED
      BY <1>2, <2>3, <3>1, <3>2
  <2>9. StacksAgree'
    BY <2>7, <2>8 DEF StacksAgree
  <2>10. StepIsNext'
    BY <1>2, <2>1, <2>6 DEF StepIsNext, From
  <2> QED
    BY <1>2, <2>2, <2>9, <2>10 DEF Sound, CursorMatches
<1> QED
  BY <1>3, <1>4

\* A step that may take its source finds its unit, if the history retains it.
LEMMA StepFindsItsUnit ==
  ASSUME TypeOK, Sound, SourceIsNext, "step" \in current
  PROVE  /\ StepIsNext /\ CanAlign(history, step.unit.id, step.dir)
         /\ step.dir \in {"undo", "redo"} /\ step.unit \in Unit
         /\ Contains(history, step.unit.id) =>
              /\ ~InPlace(history, step.unit.id, step.dir)
              /\ CanMove(history, step.unit.id, step.dir)
<1>1. Moving /\ step.dir \in {"undo", "redo"} /\ step.unit \in Unit
  BY DEF SourceIsNext, Moving, TypeOK, Idle
<1>2. StepIsNext
  BY <1>1 DEF Sound
<1>3. /\ history.active \in Nat /\ history.active <= Len(history.units)
      /\ DOMAIN history.units = 1 .. Len(history.units) /\ Len(history.units) \in Nat
  BY FitsFacts DEF TypeOK, Fits
<1>4. SUFFICES ASSUME Contains(history, step.unit.id)
               PROVE  /\ ~InPlace(history, step.unit.id, step.dir)
                      /\ CanMove(history, step.unit.id, step.dir)
  BY <1>1, <1>2 DEF CanAlign
<1>5. PICK p \in DOMAIN history.units : history.units[p].id = step.unit.id
  BY <1>4 DEF Contains, Position
<1>6. CASE step.dir = "undo"
  <2>1. \A i \in Position(history, step.unit.id) : i = history.active
    BY <1>2, <1>6 DEF StepIsNext, At, Position
  <2>2. p = history.active
    BY <1>2, <1>5, <1>6 DEF StepIsNext, At
  <2> QED
    BY <1>3, <1>5, <1>6, <2>1, <2>2 DEF InPlace, CanMove
<1>7. CASE step.dir = "redo"
  <2>1. \A i \in Position(history, step.unit.id) : i = history.active + 1
    BY <1>2, <1>7 DEF StepIsNext, At, Position
  <2>2. p = history.active + 1
    BY <1>2, <1>5, <1>7 DEF StepIsNext, At
  <2> QED
    BY <1>3, <1>5, <1>7, <2>1, <2>2 DEF InPlace, CanMove
<1> QED
  BY <1>1, <1>6, <1>7

\* The cursor follows the source over the unit that moved.
LEMMA StepSourceSound ==
  ASSUME TypeOK, Sound, StepSource
  PROVE  Sound'
<1> DEFINE id == step.unit.id
           dir == step.dir
<1>1. /\ StepIsNext /\ CanAlign(history, id, dir) /\ dir \in {"undo", "redo"} /\ step.unit \in Unit
      /\ Contains(history, id) => ~InPlace(history, id, dir) /\ CanMove(history, id, dir)
  BY StepFindsItsUnit DEF StepSource
<1>2. /\ history' = Align(history, id, dir, To(step)) /\ text' = To(step) /\ current' = {}
      /\ step' = [step EXCEPT !.stage = "redraw"] /\ past' = past /\ future' = future
  BY <1>1 DEF StepSource, Aligned, Revised, stack
<1>3. step \in [stage : {"away", "landed", "redraw"}, dir : {"undo", "redo"}, unit : Unit] /\ Moving
  BY DEF TypeOK, StepSource, SourceIsNext, Idle, Moving
<1>4. To(step) \in Text
  BY <1>1 DEF To, Unit
<1>5. Fits(history) /\ Chained(history)
  BY DEF TypeOK, Fits, Sound
<1>6. CASE ~Contains(history, id)
  <2>1. history' = Reset(To(step), FALSE)
    BY <1>2, <1>6 DEF Align
  <2>2. history'.units = << >> /\ CurrentSource(history') = text'
    BY <1>2, <1>4, <2>1, ResetFits
  <2> QED
    BY <1>2, <2>2, EmptySound
<1>7. CASE Contains(history, id)
  <2>1. history' = Moved(history, dir) /\ CanMove(history, id, dir)
    BY <1>1, <1>2, <1>7 DEF Align
  <2>2. /\ history'.units = history.units /\ history'.base = history.base
        /\ history'.active = IF dir = "undo" THEN history.active - 1 ELSE history.active + 1
        /\ Chained(history')
    BY <1>1, <1>5, <2>1, MovedFits
  <2>3. /\ history.active \in Nat /\ history.active <= Len(history.units)
        /\ DOMAIN history.units = 1 .. Len(history.units) /\ Len(history.units) \in Nat
    BY <1>5, FitsFacts
  <2>4. CursorMatches'
    <3>1. CASE dir = "undo"
      <4>1. history.active \in DOMAIN history.units /\ history.units[history.active].id = id
        BY <2>1, <2>3, <3>1 DEF CanMove
      <4>2. history.units[history.active] = step.unit
        BY <1>1, <3>1, <4>1 DEF StepIsNext, At
      <4>3. step.unit.before = Source(history, history.active - 1)
        BY <1>5, <4>1, <4>2 DEF Chained
      <4>4. Source(history', history'.active) = Source(history, history.active - 1)
        BY <2>2, <3>1 DEF Source
      <4> QED
        BY <1>2, <3>1, <4>3, <4>4 DEF CursorMatches, CurrentSource, To
    <3>2. CASE dir = "redo"
      <4>1. history.active + 1 \in DOMAIN history.units /\ history.units[history.active + 1].id = id
        BY <2>1, <2>3, <3>2 DEF CanMove
      <4>2. history.units[history.active + 1] = step.unit
        BY <1>1, <3>2, <4>1 DEF StepIsNext, At
      <4>3. Source(history', history'.active) = step.unit.after
        BY <2>2, <2>3, <3>2, <4>2 DEF Source
      <4> QED
        BY <1>2, <3>2, <4>3 DEF CursorMatches, CurrentSource, To
    <3> QED
      BY <1>1, <3>1, <3>2
  <2>5. step'.stage = "redraw" /\ ~Moving' /\ Ahead' = 0 /\ step'.dir = dir /\ step'.unit = step.unit
    BY <1>2, <1>3 DEF Moving, Ahead
  <2>6. \A unit, p : At(history, unit, p) => At(history', unit, p)
    BY <2>2 DEF At
  <2>7. history'.active + Ahead' = history.active + Ahead
    BY <1>1, <1>3, <2>2, <2>3, <2>5 DEF Ahead
  <2>8. StacksAgree'
    <3>1. StacksAgree
      BY DEF Sound, StepSource
    <3>2. ASSUME NEW i \in DOMAIN past'
          PROVE  At(history', past'[i], (history'.active + Ahead') - (Len(past') - i))
      BY <1>2, <2>6, <2>7, <3>1 DEF StacksAgree
    <3>3. ASSUME NEW i \in DOMAIN future'
          PROVE  At(history', future'[i], (history'.active + Ahead') + i)
      BY <1>2, <2>6, <2>7, <3>1 DEF StacksAgree
    <3> QED
      BY <3>2, <3>3 DEF StacksAgree
  <2>9. StepIsDone'
    <3>1. ASSUME NEW i \in Position(history', id)
          PROVE  IF dir = "undo" THEN i = history'.active + 1 ELSE i <= history'.active
      <4>1. i = IF dir = "undo" THEN history.active ELSE history.active + 1
        BY <1>1, <2>2, <3>1 DEF StepIsNext, At, Position
      <4> QED
        BY <2>2, <2>3, <4>1
    <3> QED
      BY <2>5, <3>1 DEF StepIsDone
  <2> QED
    BY <2>2, <2>4, <2>5, <2>8, <2>9 DEF Sound
<1> QED
  BY <1>6, <1>7

\* Where the history still has the unit when the canvas was redrawn, the cursor is in place.
LEMMA RedrawnInPlace ==
  ASSUME TypeOK, Sound, step.stage = "redraw",
         Contains(history, step.unit.id), CanAlign(history, step.unit.id, step.dir)
  PROVE  InPlace(history, step.unit.id, step.dir)
<1> DEFINE id == step.unit.id
           dir == step.dir
<1>1. DOMAIN history.units = 1 .. Len(history.units) /\ Len(history.units) \in Nat /\ history.active \in Nat
  BY FitsFacts DEF TypeOK, Fits
<1>2. StepIsDone
  BY DEF Sound
<1>3. SUFFICES ASSUME CanMove(history, id, dir), ~InPlace(history, id, dir) PROVE FALSE
  BY DEF CanAlign
<1>4. CASE dir = "undo"
  <2>1. PICK i \in Position(history, id) : TRUE
    BY DEF Contains
  <2>2. i = history.active + 1
    BY <1>2, <1>4 DEF StepIsDone
  <2> QED
    BY <1>3, <1>4, <2>1, <2>2 DEF InPlace
<1>5. CASE dir # "undo"
  <2>1. history.active + 1 \in Position(history, id)
    BY <1>1, <1>3, <1>5 DEF CanMove, Position
  <2>2. history.active + 1 <= history.active
    BY <1>2, <1>5, <2>1 DEF StepIsDone
  <2> QED
    BY <1>1, <2>2
<1> QED
  BY <1>4, <1>5

\* The second alignment finds the unit in its place, or finds it gone.
LEMMA StepEndSound ==
  ASSUME TypeOK, Sound, StepEnd
  PROVE  Sound'
<1> DEFINE id == step.unit.id
           dir == step.dir
<1>1. step \in [stage : {"away", "landed", "redraw"}, dir : {"undo", "redo"}, unit : Unit]
  BY DEF TypeOK, StepEnd, Idle
<1>2. Fits(history) /\ text \in Text /\ StepIsDone
  BY DEF TypeOK, Fits, Sound, StepEnd
<1>3. CASE Rejected /\ UNCHANGED history
  BY <1>3, RejectedSound DEF StepEnd
<1>4. CASE CanAlign(history, id, dir) /\ Aligned(id, dir, text) /\ step' = Idle /\ UNCHANGED stack
  <2>1. CASE ~Contains(history, id)
    <3>1. history' = Reset(text, FALSE)
      BY <1>4, <2>1 DEF Aligned, Align
    <3>2. history'.units = << >> /\ CurrentSource(history') = text' /\ ~Moving'
      BY <1>2, <1>4, <3>1, ResetFits DEF StepEnd, Moving, Idle
    <3> QED
      BY <3>2, EmptySound
  <2>2. CASE Contains(history, id)
    <3>1. /\ history.active \in Nat /\ DOMAIN history.units = 1 .. Len(history.units)
          /\ Len(history.units) \in Nat
      BY <1>2, FitsFacts
    <3>2. InPlace(history, id, dir)
      BY <1>4, <2>2, RedrawnInPlace DEF StepEnd
    <3>3. history' = history
      BY <1>4, <2>2, <3>2 DEF Aligned, Align
    <3>4. ~Moving /\ ~Moving' /\ Ahead = 0 /\ Ahead' = 0 /\ step'.stage # "redraw"
      BY <1>4 DEF StepEnd, Moving, Ahead, Idle
    <3>5. StacksAgree'
      <4>1. StacksAgree
        BY <3>4 DEF Sound
      <4> QED
        BY <1>4, <3>3, <3>4, <4>1 DEF StacksAgree, stack
    <3> QED
      BY <3>3, <3>4, <3>5 DEF Sound, CursorMatches, StepEnd
  <2> QED
    BY <2>1, <2>2
<1> QED
  BY <1>3, <1>4 DEF StepEnd

\* An adopted image comes with a history of its own.
LEMMA AdoptedSound ==
  ASSUME NEW image \in Text, Adopted(image)
  PROVE  Sound'
<1>1. history' = Reset(image, TRUE) /\ text' = image /\ current' = {}
  BY DEF Adopted, Revised
<1>2. history'.units = << >> /\ CurrentSource(history') = text'
  BY <1>1, ResetFits
<1> QED
  BY <1>1, <1>2, EmptySound

\* The document opens with its history at the source.
LEMMA InitSound == Init => Sound
<1> SUFFICES ASSUME Init PROVE Sound
  OBVIOUS
<1>1. history = Reset(disk, TRUE) /\ disk \in Text /\ text = disk
  BY DEF Init
<1>2. CursorMatches /\ Chained(history)
  BY <1>1, ResetFits DEF CursorMatches
<1>3. ~Moving /\ step.stage # "redraw"
  BY DEF Init, Moving, Idle
<1>4. StacksAgree
  BY DEF Init, StacksAgree
<1> QED
  BY <1>2, <1>3, <1>4 DEF Sound

\* Every step keeps the document sound, or notes that it strayed.
LEMMA SoundPreserved == TypeOK /\ Sound /\ [Next]_vars => strayed' \/ Sound'
<1> SUFFICES ASSUME TypeOK, Sound, [Next]_vars, ~strayed' PROVE Sound'
  OBVIOUS
<1> USE DEF stack, ops
<1>1. CASE ForeignWrite
  BY <1>1, KeptSound DEF ForeignWrite, Kept
<1>2. CASE Edit
  <2>1. PICK after \in Text : Applied(after, NoImage)
    BY <1>2 DEF Edit
  <2>2. step' = step
    BY <1>2 DEF Edit
  <2> QED
    BY <2>1, <2>2, AppliedSound
<1>3. CASE Undo
  BY <1>3, UndoSound
<1>4. CASE Redo
  BY <1>4, RedoSound
<1>5. CASE StepFile
  <2>1. CASE Rejected
    BY <1>5, <2>1, RejectedSound DEF StepFile
  <2>2. CASE step' = [step EXCEPT !.stage = "landed"] /\ UNCHANGED <<past, future, current>>
    <3>1. step \in [stage : {"away", "landed", "redraw"}, dir : {"undo", "redo"}, unit : Unit]
          /\ step.stage = "away"
      BY <1>5 DEF StepFile, TypeOK, Idle
    <3>2. step'.stage = "landed" /\ step'.dir = step.dir /\ step'.unit = step.unit
      BY <2>2, <3>1
    <3>3. Moving' /\ Moving /\ Ahead' = Ahead /\ UNCHANGED <<text, history>>
      BY <1>5, <3>1, <3>2 DEF StepFile, Moving, Ahead
    <3>4. (Moving => "step" \in current)' => StacksAgree'
      BY <2>2, <3>3 DEF Sound, StacksAgree
    <3>5. (Moving /\ "step" \in current)' => StepIsNext'
      BY <2>2, <3>2, <3>3 DEF Sound, StepIsNext, From
    <3> QED
      BY <3>2, <3>3, <3>4, <3>5 DEF Sound, CursorMatches
  <2> QED
    BY <1>5, <2>1, <2>2 DEF StepFile
<1>6. CASE StepSource
  BY <1>6, StepSourceSound
<1>7. CASE StepFails
  BY <1>7, RejectedSound DEF StepFails
<1>8. CASE StepEnd
  BY <1>8, StepEndSound
<1>9. CASE SaveBegin
  BY <1>9, KeptSound DEF SaveBegin, Kept
<1>10. CASE SaveCheck
  BY <1>10, KeptSound DEF SaveCheck, Kept
<1>11. CASE SaveWrite
  BY <1>11, KeptSound DEF SaveWrite, Kept
<1>12. CASE SaveEnd
  <2>1. Fits(history)
    BY DEF TypeOK, Fits
  <2>2. /\ history'.base = history.base /\ history'.units = history.units
        /\ history'.active = history.active
    BY <1>12, <2>1, CheckpointFits DEF SaveEnd
  <2> QED
    BY <1>12, <2>2, KeptSound DEF SaveEnd, Kept
<1>13. CASE ReadFile
  BY <1>13, KeptSound DEF ReadFile, Kept, Enters
<1>14. CASE Reload
  <2>1. CASE Adopted(read.image) /\ read.stage = "done"
    <3>1. read.image \in Text
      BY <2>1 DEF TypeOK, Idle
    <3> QED
      BY <2>1, <3>1, AdoptedSound
  <2>2. CASE UNCHANGED <<text, history>> /\ ("step" \in current' => "step" \in current)
    BY <1>14, <2>2, KeptSound DEF Reload, Kept
  <2> QED
    BY <1>14, <2>1, <2>2 DEF Reload, Enters
<1>15. CASE RevertBegin
  <2>1. past' = past /\ future' = << >>
    BY <1>15 DEF RevertBegin
  <2> QED
    BY <1>15, <2>1, KeptSound DEF RevertBegin, Kept
<1>16. CASE RevertEnd
  <2>1. revert.image \in Text
    BY <1>16 DEF RevertEnd, TypeOK, Idle
  <2> QED
    BY <1>16, <2>1, AdoptedSound DEF RevertEnd
<1>17. CASE TxnBegin
  BY <1>17, KeptSound DEF TxnBegin, Kept, Enters
<1>18. CASE TxnWrite
  BY <1>18, KeptSound DEF TxnWrite, Kept, Enters
<1>19. CASE TxnVerify
  BY <1>19, KeptSound DEF TxnVerify, Kept
<1>20. CASE TxnCommit
  <2>1. CASE Applied(txn.after, txn.base)
    <3>1. txn.after \in Text /\ txn.base \in Text /\ step' = step
      BY <1>20 DEF TxnCommit, TypeOK, Idle
    <3> QED
      BY <2>1, <3>1, AppliedSound
  <2>2. CASE UNCHANGED <<text, history, past, future, current>>
    BY <1>20, <2>2, KeptSound DEF TxnCommit, Kept
  <2> QED
    BY <1>20, <2>1, <2>2 DEF TxnCommit
<1>21. CASE TxnRollBack
  BY <1>21, KeptSound DEF TxnRollBack, Kept, Enters
<1>22. CASE TxnReconcile
  <2>1. text' = text
    BY <1>22 DEF TxnReconcile
  <2>2. "step" \in current' => "step" \in current
    BY <1>22 DEF TxnReconcile, Enters, Revised
  <2> QED
    BY <1>22, <2>1, <2>2, KeptSound DEF TxnReconcile, Kept
<1>23. CASE UNCHANGED vars
  BY <1>23, KeptSound DEF vars, Kept
<1> QED
  BY <1>1, <1>2, <1>3, <1>4, <1>5, <1>6, <1>7, <1>8, <1>9, <1>10, <1>11, <1>12, <1>13, <1>14,
     <1>15, <1>16, <1>17, <1>18, <1>19, <1>20, <1>21, <1>22, <1>23 DEF Next

\* Only an adopted image ends a stray.
LEMMA StrayEnds == strayed /\ [Next]_vars => strayed' \/ Reload \/ RevertEnd
<1> SUFFICES ASSUME strayed, [Next]_vars, ~Reload, ~RevertEnd PROVE strayed'
  OBVIOUS
<1>1. CASE Edit
  BY <1>1 DEF Edit, Applied
<1>2. CASE TxnCommit
  BY <1>2 DEF TxnCommit, Applied
<1>3. CASE ~Edit /\ ~TxnCommit
  <2>1. strayed' = strayed \/ strayed'
    BY <1>3 DEF Next, vars, ghosts, ForeignWrite, Undo, Redo, StepFile, StepSource, StepFails,
                StepEnd, SaveBegin, SaveCheck, SaveWrite, SaveEnd, ReadFile, RevertBegin, TxnBegin,
                TxnWrite, TxnVerify, TxnRollBack, TxnReconcile
  <2> QED
    BY <2>1
<1> QED
  BY <1>1, <1>2, <1>3

\* Only an adopted image ends a stray, and it comes with a history of its own.
LEMMA StrayedPreserved == TypeOK /\ strayed /\ [Next]_vars => strayed' \/ Sound'
<1> SUFFICES ASSUME TypeOK, strayed, [Next]_vars, ~strayed' PROVE Sound'
  OBVIOUS
<1>1. CASE Reload
  <2>1. Adopted(read.image) /\ read.stage = "done"
    BY <1>1 DEF Reload
  <2>2. read.image \in Text
    BY <2>1 DEF TypeOK, Idle
  <2> QED
    BY <2>1, <2>2, AdoptedSound
<1>2. CASE RevertEnd
  <2>1. revert.image \in Text
    BY <1>2 DEF RevertEnd, TypeOK, Idle
  <2> QED
    BY <1>2, <2>1, AdoptedSound DEF RevertEnd
<1> QED
  BY <1>1, <1>2, StrayEnds

------------------------------------------------------------------------------
(* The saved source in the history *)

\* The positions of a history, for arithmetic.
LEMMA MarkFacts ==
  ASSUME NEW h, Fits(h), h.checkpoint # NoCheckpoint
  PROVE  h.checkpoint \in Nat
BY DEF Fits, History

\* An edit, journaled or not, keeps the mark where the saved source is.
LEMMA EditKeepsMark ==
  ASSUME NEW h, Fits(h), NEW unit \in Unit, NEW k \in 0 .. h.active + 1,
         NEW before, NEW after, MarkIsSaved(h, before),
         IF Journaled(unit) THEN unit.disk = before ELSE after = before
  PROVE  MarkIsSaved(Shed(Record(h, unit), k), after)
<1> DEFINE r == Record(h, unit)
           s == Shed(r, k)
           a == h.active
           c == h.checkpoint
<1>1. /\ a \in Nat /\ a <= Len(h.units) /\ Len(h.units) \in Nat
      /\ DOMAIN h.units = 1 .. Len(h.units) /\ k \in Nat
  BY FitsFacts
<1>2. /\ Fits(r) /\ r.base = h.base /\ r.active = a + 1 /\ Len(r.units) = a + 1
      /\ \A i \in 1 .. a : r.units[i] = h.units[i]
  BY RecordFits
<1>3. r.units[a + 1] = unit
  <2>1. r.units[r.active] = unit
    BY RecordFits
  <2> QED
    BY <1>2, <2>1
<1>4. /\ Fits(s) /\ s.active = a + 1 - k /\ Len(s.units) = a + 1 - k
      /\ \A i \in 1 .. Len(s.units) : s.units[i] = r.units[i + k]
  <2>1. k \in 0 .. r.active
    BY <1>2
  <2> HIDE DEF r
  <2>2. /\ Fits(Shed(r, k)) /\ Shed(r, k).active = r.active - k
        /\ Len(Shed(r, k).units) = Len(r.units) - k
        /\ \A i \in 1 .. Len(Shed(r, k).units) : Shed(r, k).units[i] = r.units[i + k]
    BY <1>2, <2>1, ShedFits
  <2> QED
    BY <1>1, <1>2, <2>2
<1>5. DOMAIN s.units = 1 .. (a + 1 - k)
  BY <1>4, FitsFacts
<1>6. SUFFICES ASSUME s.checkpoint # NoCheckpoint
               PROVE  /\ s.checkpoint <= Len(s.units)
                      /\ Near(s, s.checkpoint) => Source(s, s.checkpoint) = after
                      /\ \A m \in DOMAIN s.units :
                           /\ s.checkpoint < m /\ m <= s.active /\ Journaled(s.units[m])
                                /\ Plain(s, s.checkpoint, m - 1)
                                => s.units[m].disk = Source(s, s.checkpoint)
                           /\ s.active < m /\ m <= s.checkpoint /\ Journaled(s.units[m])
                                /\ Plain(s, m, s.checkpoint)
                                => s.units[m].after = Source(s, s.checkpoint)
  BY DEF MarkIsSaved
<1>7. c \in Nat /\ c <= a /\ k <= c /\ s.checkpoint = c - k /\ c # NoCheckpoint
  <2>1. s.checkpoint = IF r.checkpoint < k THEN NoCheckpoint ELSE r.checkpoint - k
    BY DEF Shed
  <2>2. r.checkpoint = IF c > a THEN NoCheckpoint ELSE c
    BY DEF Record
  <2>3. c \in Nat \cup {NoCheckpoint}
    BY DEF Fits, History
  <2> HIDE DEF r, s
  <2> QED
    BY <1>1, <1>6, <2>1, <2>2, <2>3 DEF NoCheckpoint
<1>8. Source(s, c - k) = Source(h, c)
  <2>1. k \in 0 .. r.active /\ c - k \in 0 .. Len(r.units) - k
    BY <1>1, <1>2, <1>7
  <2>2. Source(s, c - k) = Source(r, (c - k) + k)
    <3> HIDE DEF r
    <3> QED
      BY <1>2, <2>1, ShedSources
  <2>3. (c - k) + k = c
    BY <1>1, <1>7
  <2>4. Source(r, c) = Source(h, c)
    BY <1>1, <1>2, <1>7 DEF Source
  <2> QED
    BY <2>2, <2>3, <2>4
<1>9. ASSUME NEW m \in DOMAIN h.units, c < m, m <= a
      PROVE  m - k \in DOMAIN s.units /\ s.units[m - k] = h.units[m]
  <2>1. m - k \in 1 .. Len(s.units) /\ (m - k) + k = m
    BY <1>1, <1>4, <1>7, <1>9
  <2>2. s.units[m - k] = r.units[m]
    BY <1>4, <2>1
  <2> QED
    BY <1>1, <1>2, <1>4, <1>5, <1>9, <2>1, <2>2
<1>10. ASSUME NEW j \in Int, j <= a, Plain(s, c - k, j - k)
       PROVE  Plain(h, c, j)
  <2>1. SUFFICES ASSUME NEW m \in DOMAIN h.units, c < m, m <= j
                 PROVE  ~Journaled(h.units[m])
    BY DEF Plain
  <2>2. m - k \in DOMAIN s.units /\ s.units[m - k] = h.units[m]
    BY <1>1, <1>9, <1>10, <2>1
  <2>3. c - k < m - k /\ m - k <= j - k
    BY <1>1, <1>7, <1>10, <2>1
  <2> QED
    BY <1>10, <2>2, <2>3 DEF Plain
<1>11. Plain(h, a, c)
  BY <1>1, <1>7 DEF Plain
<1>12. s.units[a + 1 - k] = unit /\ a + 1 - k \in DOMAIN s.units
  <2>1. a + 1 - k \in 1 .. Len(s.units) /\ (a + 1 - k) + k = a + 1
    BY <1>1, <1>4, <1>7
  <2> QED
    BY <1>3, <1>4, <1>5, <2>1
<1> HIDE DEF r, s
<1>13. ASSUME Near(s, s.checkpoint)
       PROVE  Source(s, s.checkpoint) = after
  <2>1. Plain(s, c - k, a + 1 - k)
    BY <1>4, <1>7, <1>13 DEF Near
  <2>2. ~Journaled(unit)
    BY <1>1, <1>7, <1>12, <2>1 DEF Plain
  <2>3. Plain(s, c - k, a - k)
    BY <1>1, <1>5, <2>1 DEF Plain
  <2>4. Near(h, c)
    BY <1>1, <1>10, <1>11, <2>3 DEF Near
  <2> QED
    BY <1>7, <1>8, <2>2, <2>4 DEF MarkIsSaved
<1>14. ASSUME NEW m \in DOMAIN s.units, s.checkpoint < m, Journaled(s.units[m]),
              Plain(s, s.checkpoint, m - 1)
       PROVE  s.units[m].disk = Source(s, s.checkpoint)
  <2>1. m \in 1 .. (a + 1 - k) /\ c < m + k
    BY <1>1, <1>5, <1>7, <1>14
  <2>2. Plain(h, c, (m + k) - 1)
    <3>1. (m + k) - 1 \in Int /\ (m + k) - 1 <= a /\ ((m + k) - 1) - k = m - 1
      BY <1>1, <2>1
    <3> QED
      BY <1>7, <1>10, <1>14, <3>1
  <2>3. CASE m + k <= a
    <3> DEFINE j == m + k
    <3>1. j \in DOMAIN h.units /\ c < j /\ j <= a /\ m = j - k /\ Plain(h, c, j - 1)
      BY <1>1, <2>1, <2>2, <2>3
    <3> HIDE DEF j
    <3>2. s.units[m] = h.units[j]
      BY <1>9, <3>1
    <3>3. h.units[j].disk = Source(h, c)
      BY <1>7, <1>14, <3>1, <3>2 DEF MarkIsSaved
    <3> QED
      BY <1>7, <1>8, <3>2, <3>3
  <2>4. CASE m + k > a
    <3>1. m = a + 1 - k /\ (m + k) - 1 = a
      BY <1>1, <2>1, <2>4
    <3>2. s.units[m] = unit /\ Near(h, c)
      BY <1>11, <1>12, <2>2, <3>1 DEF Near
    <3>3. unit.disk = before /\ Source(h, c) = before
      BY <1>7, <1>14, <3>2 DEF MarkIsSaved
    <3> QED
      BY <1>7, <1>8, <3>2, <3>3
  <2> QED
    BY <1>1, <2>1, <2>3, <2>4
<1>15. s.checkpoint <= Len(s.units) /\ s.checkpoint <= s.active
  BY <1>1, <1>4, <1>7
<1>16. ASSUME NEW m \in DOMAIN s.units
       PROVE  ~(s.active < m /\ m <= s.checkpoint)
  BY <1>1, <1>4, <1>5, <1>7
<1> QED
  BY <1>13, <1>14, <1>15, <1>16

\* A step over an edit, which brings the file's half along when it was journaled.
LEMMA MoveKeepsMark ==
  ASSUME NEW h, Fits(h), NEW dir \in {"undo", "redo"}, NEW id, CanMove(h, id, dir),
         NEW unit, unit = h.units[IF dir = "undo" THEN h.active ELSE h.active + 1],
         NEW before, NEW after, MarkIsSaved(h, before),
         IF Journaled(unit)
           THEN /\ before = IF dir = "undo" THEN unit.after ELSE unit.disk
                /\ after = IF dir = "undo" THEN unit.disk ELSE unit.after
           ELSE after = before
  PROVE  MarkIsSaved(Moved(h, dir), after)
<1> DEFINE n == Moved(h, dir)
           a == h.active
           c == h.checkpoint
<1>1. /\ a \in Nat /\ a <= Len(h.units) /\ Len(h.units) \in Nat
      /\ DOMAIN h.units = 1 .. Len(h.units)
  BY FitsFacts
<1>2. /\ n.units = h.units /\ n.base = h.base /\ n.checkpoint = c
      /\ n.active = IF dir = "undo" THEN a - 1 ELSE a + 1
  BY DEF Moved, Fits, History
<1>3. \A i : Source(n, i) = Source(h, i)
  BY <1>2 DEF Source
<1>4. \A i, j : Plain(n, i, j) <=> Plain(h, i, j)
  BY <1>2 DEF Plain
<1>5. SUFFICES ASSUME c # NoCheckpoint
               PROVE  /\ Plain(h, c, n.active) /\ Plain(h, n.active, c) => Source(h, c) = after
                      /\ \A m \in DOMAIN h.units :
                           /\ c < m /\ m <= n.active /\ Journaled(h.units[m]) /\ Plain(h, c, m - 1)
                                => h.units[m].disk = Source(h, c)
                           /\ n.active < m /\ m <= c /\ Journaled(h.units[m]) /\ Plain(h, m, c)
                                => h.units[m].after = Source(h, c)
  BY <1>2, <1>3, <1>4 DEF MarkIsSaved, Near
<1>6. c \in Nat /\ c <= Len(h.units)
  BY <1>5, MarkFacts DEF MarkIsSaved
<1>7. /\ Plain(h, c, a) /\ Plain(h, a, c) => Source(h, c) = before
      /\ \A m \in DOMAIN h.units :
           /\ c < m /\ m <= a /\ Journaled(h.units[m]) /\ Plain(h, c, m - 1)
                => h.units[m].disk = Source(h, c)
           /\ a < m /\ m <= c /\ Journaled(h.units[m]) /\ Plain(h, m, c)
                => h.units[m].after = Source(h, c)
  BY <1>5 DEF MarkIsSaved, Near
<1>8. CASE dir = "undo"
  <2>1. a \in DOMAIN h.units /\ unit = h.units[a] /\ n.active = a - 1
    BY <1>1, <1>2, <1>8 DEF CanMove
  <2>2. ASSUME Plain(h, c, a - 1), Plain(h, a - 1, c)
        PROVE  Source(h, c) = after
    <3>1. CASE c >= a
      <4>1. ~Journaled(unit)
        BY <1>1, <1>6, <2>1, <2>2, <3>1 DEF Plain
      <4>2. Plain(h, c, a) /\ Plain(h, a, c)
        BY <1>1, <1>6, <2>2, <3>1 DEF Plain
      <4> QED
        BY <1>7, <4>1, <4>2
    <3>2. CASE c < a
      <4>1. Plain(h, a, c)
        BY <1>1, <1>6, <3>2 DEF Plain
      <4>2. CASE Journaled(unit)
        BY <1>1, <1>7, <1>8, <2>1, <2>2, <3>2, <4>2
      <4>3. CASE ~Journaled(unit)
        <5>1. Plain(h, c, a)
          BY <1>1, <1>6, <2>1, <2>2, <4>3 DEF Plain
        <5> QED
          BY <1>7, <4>1, <4>3, <5>1
      <4> QED
        BY <4>2, <4>3
    <3> QED
      BY <1>1, <1>6, <3>1, <3>2
  <2>3. ASSUME NEW m \in DOMAIN h.units, c < m, m <= a - 1, Journaled(h.units[m]), Plain(h, c, m - 1)
        PROVE  h.units[m].disk = Source(h, c)
    <3>1. m <= a
      BY <1>1, <2>3
    <3> QED
      BY <1>7, <2>3, <3>1
  <2>4. ASSUME NEW m \in DOMAIN h.units, a - 1 < m, m <= c, Journaled(h.units[m]), Plain(h, m, c)
        PROVE  h.units[m].after = Source(h, c)
    <3>1. CASE m = a
      <4>1. Plain(h, c, a)
        BY <1>1, <1>6, <2>4, <3>1 DEF Plain
      <4> QED
        BY <1>7, <1>8, <2>1, <2>4, <3>1, <4>1
    <3>2. CASE a < m
      BY <1>7, <2>4, <3>2
    <3> QED
      BY <1>1, <2>4, <3>1, <3>2
  <2> QED
    BY <2>1, <2>2, <2>3, <2>4
<1>9. CASE dir = "redo"
  <2>1. a + 1 \in DOMAIN h.units /\ unit = h.units[a + 1] /\ n.active = a + 1
    BY <1>1, <1>2, <1>9 DEF CanMove
  <2>2. ASSUME Plain(h, c, a + 1), Plain(h, a + 1, c)
        PROVE  Source(h, c) = after
    <3>1. CASE c <= a
      <4>1. ~Journaled(unit)
        BY <1>1, <1>6, <2>1, <2>2, <3>1 DEF Plain
      <4>2. Plain(h, c, a) /\ Plain(h, a, c)
        BY <1>1, <1>6, <2>2, <3>1 DEF Plain
      <4> QED
        BY <1>7, <4>1, <4>2
    <3>2. CASE c > a
      <4>1. Plain(h, c, a)
        BY <1>1, <1>6, <3>2 DEF Plain
      <4>2. CASE Journaled(unit)
        BY <1>1, <1>6, <1>7, <1>9, <2>1, <2>2, <3>2, <4>2
      <4>3. CASE ~Journaled(unit)
        <5>1. Plain(h, a, c)
          BY <1>1, <1>6, <2>1, <2>2, <4>3 DEF Plain
        <5> QED
          BY <1>7, <4>1, <4>3, <5>1
      <4> QED
        BY <4>2, <4>3
    <3> QED
      BY <1>1, <1>6, <3>1, <3>2
  <2>3. ASSUME NEW m \in DOMAIN h.units, c < m, m <= a + 1, Journaled(h.units[m]), Plain(h, c, m - 1)
        PROVE  h.units[m].disk = Source(h, c)
    <3>1. CASE m = a + 1
      <4>1. m - 1 = a /\ Plain(h, a, c)
        BY <1>1, <1>6, <2>3, <3>1 DEF Plain
      <4> QED
        BY <1>7, <1>9, <2>1, <2>3, <3>1, <4>1
    <3>2. CASE m <= a
      BY <1>7, <2>3, <3>2
    <3> QED
      BY <1>1, <2>3, <3>1, <3>2
  <2>4. ASSUME NEW m \in DOMAIN h.units, a + 1 < m, m <= c, Journaled(h.units[m]), Plain(h, m, c)
        PROVE  h.units[m].after = Source(h, c)
    <3>1. a < m
      BY <1>1, <2>4
    <3> QED
      BY <1>7, <2>4, <3>1
  <2> QED
    BY <2>1, <2>2, <2>3, <2>4
<1> QED
  BY <1>8, <1>9

\* A save marks a place that only unjournaled edits separate from the cursor.
LEMMA CheckpointMarksSaved ==
  ASSUME NEW h, Fits(h), NEW source, NEW id, NEW same,
         \A p \in Places(h, id, same) : Near(h, p)
  PROVE  MarkIsSaved(Checkpoint(h, source, id, same), source)
<1> DEFINE hits == {i \in Places(h, id, same) : Source(h, i) = source}
           mark == IF hits = {} THEN NoCheckpoint ELSE CHOOSE i \in hits : TRUE
           n    == Checkpoint(h, source, id, same)
<1>1. n = [h EXCEPT !.checkpoint = mark]
  BY DEF Checkpoint
<1>2. /\ n.units = h.units /\ n.base = h.base /\ n.active = h.active /\ n.checkpoint = mark
      /\ DOMAIN h.units = 1 .. Len(h.units) /\ Len(h.units) \in Nat /\ h.active \in Nat
  BY <1>1, FitsFacts DEF Fits, History
<1>3. \A i : Source(n, i) = Source(h, i)
  BY <1>2 DEF Source
<1>4. \A i, j : Plain(n, i, j) <=> Plain(h, i, j)
  BY <1>2 DEF Plain
<1>5. CASE hits = {}
  BY <1>2, <1>5 DEF MarkIsSaved
<1>6. CASE hits # {}
  <2>1. mark \in hits
    BY <1>6
  <2>2. Near(h, mark) /\ Source(h, mark) = source /\ mark \in 0 .. Len(h.units)
    <3>1. Places(h, id, same) \subseteq 0 .. Len(h.units)
      BY <1>2 DEF Places, Position
    <3> QED
      BY <2>1, <3>1
  <2> HIDE DEF mark, n
  <2>3. ASSUME NEW m \in DOMAIN h.units, mark < m, m <= h.active PROVE ~Journaled(h.units[m])
    BY <2>2, <2>3 DEF Near, Plain
  <2>4. ASSUME NEW m \in DOMAIN h.units, h.active < m, m <= mark PROVE ~Journaled(h.units[m])
    BY <2>2, <2>4 DEF Near, Plain
  <2>5. n.checkpoint <= Len(n.units) /\ Source(n, n.checkpoint) = source
    BY <1>2, <1>3, <2>2
  <2>6. \A m \in DOMAIN n.units :
          /\ n.checkpoint < m /\ m <= n.active => ~Journaled(n.units[m])
          /\ n.active < m /\ m <= n.checkpoint => ~Journaled(n.units[m])
    BY <1>2, <2>3, <2>4
  <2>7. MarkIsSaved(n, source)
    BY <2>5, <2>6 DEF MarkIsSaved
  <2> QED
    BY <2>7 DEF n
<1> QED
  BY <1>5, <1>6

\* An unjournaled edit leaves a place as near to the cursor as it was.
LEMMA EditKeepsNear ==
  ASSUME NEW h, Fits(h), NEW unit \in Unit, ~Journaled(unit), NEW k \in 0 .. h.active + 1,
         NEW j \in 0 .. h.active - k, Near(h, j + k)
  PROVE  Near(Shed(Record(h, unit), k), j)
<1> DEFINE r == Record(h, unit)
           s == Shed(r, k)
           a == h.active
<1>1. /\ a \in Nat /\ a <= Len(h.units) /\ Len(h.units) \in Nat
      /\ DOMAIN h.units = 1 .. Len(h.units) /\ k \in Nat
  BY FitsFacts
<1>2. /\ Fits(r) /\ r.active = a + 1 /\ Len(r.units) = a + 1
      /\ \A i \in 1 .. a : r.units[i] = h.units[i]
  BY RecordFits
<1>3. r.units[a + 1] = unit
  <2>1. r.units[r.active] = unit
    BY RecordFits
  <2> QED
    BY <1>2, <2>1
<1>4. /\ s.active = a + 1 - k /\ DOMAIN s.units = 1 .. (a + 1 - k)
      /\ \A i \in DOMAIN s.units : s.units[i] = r.units[i + k]
  <2>1. k \in 0 .. r.active
    BY <1>2
  <2> HIDE DEF r
  <2>2. /\ Fits(Shed(r, k)) /\ Shed(r, k).active = r.active - k
        /\ Len(Shed(r, k).units) = Len(r.units) - k
        /\ \A i \in 1 .. Len(Shed(r, k).units) : Shed(r, k).units[i] = r.units[i + k]
    BY <1>2, <2>1, ShedFits
  <2>3. DOMAIN Shed(r, k).units = 1 .. Len(Shed(r, k).units)
    BY <2>2, FitsFacts
  <2>4. s.active = a + 1 - k /\ Len(s.units) = a + 1 - k
    BY <1>1, <1>2, <2>2
  <2>5. DOMAIN s.units = 1 .. (a + 1 - k)
    BY <2>3, <2>4
  <2> QED
    BY <2>2, <2>3, <2>4, <2>5
<1> HIDE DEF r, s
<1>5. ASSUME NEW m \in DOMAIN s.units, j < m
      PROVE  ~Journaled(s.units[m])
  <2> DEFINE i == m + k
  <2>1. i \in 1 .. a + 1 /\ j + k < i /\ s.units[m] = r.units[i]
    BY <1>1, <1>4, <1>5
  <2> HIDE DEF i
  <2>2. CASE i = a + 1
    BY <1>3, <2>1, <2>2
  <2>3. CASE i # a + 1
    <3>1. i \in DOMAIN h.units /\ i <= a /\ i \in 1 .. a
      BY <1>1, <2>1, <2>3
    <3>2. r.units[i] = h.units[i]
      BY <1>2, <3>1
    <3>3. ~Journaled(h.units[i])
      BY <2>1, <3>1 DEF Near, Plain
    <3> QED
      BY <2>1, <3>2, <3>3
  <2> QED
    BY <2>2, <2>3
<1>6. j <= s.active
  BY <1>1, <1>4
<1>7. Plain(s, j, s.active)
  BY <1>5 DEF Plain
<1>8. Plain(s, s.active, j)
  BY <1>1, <1>4, <1>6 DEF Plain
<1> QED
  BY <1>7, <1>8 DEF Near, s, r

\* The place a running save's token names stays near.
LEMMA EditKeepsToken ==
  ASSUME NEW h, Fits(h), NEW unit \in Unit, ~Journaled(unit), NEW k \in 0 .. h.active + 1,
         NEW id, id # unit.id, NEW same \in BOOLEAN,
         \A p \in Places(h, id, same) : Near(h, p),
         NEW j \in Places(Shed(Record(h, unit), k), id, same /\ k = 0)
  PROVE  Near(Shed(Record(h, unit), k), j)
<1> DEFINE r == Record(h, unit)
           s == Shed(r, k)
           a == h.active
<1>1. a \in Nat /\ a <= Len(h.units) /\ Len(h.units) \in Nat /\ DOMAIN h.units = 1 .. Len(h.units)
  BY FitsFacts
<1>2. CASE id = NoEdit
  <2>1. j = 0 /\ same /\ k = 0
    BY <1>2 DEF Places
  <2>2. Near(h, 0)
    BY <1>2, <2>1 DEF Places
  <2>3. j \in 0 .. a - k /\ j + k = 0
    BY <1>1, <2>1
  <2> QED
    BY <2>2, <2>3, EditKeepsNear
<1>3. CASE id # NoEdit
  <2>1. j \in DOMAIN s.units /\ s.units[j].id = id
    BY <1>3 DEF Places, Position
  <2>2. /\ Fits(r) /\ r.active = a + 1 /\ Len(r.units) = a + 1
        /\ \A i \in 1 .. a : r.units[i] = h.units[i]
    BY RecordFits
  <2>3. r.units[a + 1] = unit
    <3>1. r.units[r.active] = unit
      BY RecordFits
    <3> QED
      BY <2>2, <3>1
  <2>4. DOMAIN s.units = 1 .. (a + 1 - k) /\ \A i \in DOMAIN s.units : s.units[i] = r.units[i + k]
    <3>1. k \in 0 .. r.active
      BY <2>2
    <3> HIDE DEF r
    <3>2. /\ Fits(Shed(r, k)) /\ Len(Shed(r, k).units) = Len(r.units) - k
          /\ \A i \in 1 .. Len(Shed(r, k).units) : Shed(r, k).units[i] = r.units[i + k]
      BY <2>2, <3>1, ShedFits
    <3>3. DOMAIN Shed(r, k).units = 1 .. Len(Shed(r, k).units)
      BY <3>2, FitsFacts
    <3> QED
      BY <1>1, <2>2, <3>2, <3>3
  <2> HIDE DEF r, s
  <2> DEFINE i == j + k
  <2>5. i \in 1 .. a + 1 /\ r.units[i].id = id
    BY <1>1, <2>1, <2>4
  <2>6. i # a + 1
    BY <2>3, <2>5
  <2>7. i \in DOMAIN h.units /\ i \in 1 .. a
    BY <1>1, <2>5, <2>6
  <2>8. h.units[i].id = id
    BY <2>2, <2>5, <2>7
  <2>9. Near(h, i)
    BY <1>3, <2>7, <2>8 DEF Places, Position
  <2>10. j \in 0 .. a - k
    BY <1>1, <2>1, <2>4, <2>7
  <2> QED
    BY <2>9, <2>10, EditKeepsNear
<1> QED
  BY <1>2, <1>3

\* A step over an unjournaled edit does the same.
LEMMA MoveKeepsNear ==
  ASSUME NEW h, Fits(h), NEW dir \in {"undo", "redo"}, NEW id, CanMove(h, id, dir),
         ~Journaled(h.units[IF dir = "undo" THEN h.active ELSE h.active + 1]),
         NEW p \in Int, Near(h, p)
  PROVE  Near(Moved(h, dir), p)
<1> DEFINE n == Moved(h, dir)
           a == h.active
<1>1. a \in Nat /\ a <= Len(h.units) /\ Len(h.units) \in Nat /\ DOMAIN h.units = 1 .. Len(h.units)
  BY FitsFacts
<1>2. n.units = h.units /\ n.active = IF dir = "undo" THEN a - 1 ELSE a + 1
  BY MovedFits
<1> HIDE DEF n
<1>3. ASSUME NEW m \in DOMAIN h.units,
             (p < m /\ m <= n.active) \/ (n.active < m /\ m <= p)
      PROVE  ~Journaled(h.units[m])
  <2>1. CASE (p < m /\ m <= a) \/ (a < m /\ m <= p)
    BY <2>1 DEF Near, Plain
  <2>2. CASE m = IF dir = "undo" THEN a ELSE a + 1
    BY <2>2
  <2> QED
    BY <1>1, <1>2, <1>3, <2>1, <2>2
<1>4. Plain(n, p, n.active) /\ Plain(n, n.active, p)
  BY <1>2, <1>3 DEF Plain
<1> QED
  BY <1>4 DEF Near, n

\* A reset history marks its base, or nothing.
LEMMA ResetMark ==
  ASSUME NEW source, NEW other, NEW id, id = NoEdit \/ id \in Id
  PROVE  /\ MarkIsSaved(Reset(source, TRUE), source)
         /\ MarkIsSaved(Reset(source, FALSE), other)
         /\ \A clean \in BOOLEAN : Places(Reset(source, clean), id, FALSE) = {}
<1>1. DOMAIN << >> = {} /\ Len(<< >>) = 0
  OBVIOUS
<1> QED
  BY <1>1 DEF Reset, MarkIsSaved, Near, Plain, Source, Places, Position, NoCheckpoint

\* A save and a journaled edit, or a step over one, that overlap are noted.
LEMMA OverlapIsNoted ==
  ASSUME TypeOK, Apart, [Next]_vars
  PROVE  Apart'
<1> USE DEF Apart, stack, ops, ghosts
<1>i. Idle.stage = "none"
  BY DEF Idle
<1>k. ASSUME save'.stage # "none" => save.stage # "none", GuardHeld' => GuardHeld, raced => raced'
      PROVE  Apart'
  BY <1>k
<1>s. step.stage \in {"away", "landed"} =>
        step \in [stage : {"away", "landed", "redraw"}, dir : {"undo", "redo"}, unit : Unit]
  BY DEF TypeOK, Idle
<1>1. CASE Undo
  <2>1. UNCHANGED <<save, txn>> /\ step.stage = "none"
    BY <1>1 DEF Undo
  <2>2. CASE Rejected /\ UNCHANGED raced
    BY <1>i, <1>k, <2>1, <2>2 DEF Rejected, GuardHeld, StepHoldsGuard
  <2>3. CASE step'.stage = "away" /\ raced' = (raced \/ (Journaled(step'.unit) /\ save.stage # "none"))
    BY <2>1, <2>3 DEF GuardHeld, StepHoldsGuard, Journaled
  <2> QED
    BY <1>1, <2>2, <2>3 DEF Undo, BeginStep
<1>2. CASE Redo
  <2>1. UNCHANGED <<save, txn>> /\ step.stage = "none"
    BY <1>2 DEF Redo
  <2>2. CASE Rejected /\ UNCHANGED raced
    BY <1>i, <1>k, <2>1, <2>2 DEF Rejected, GuardHeld, StepHoldsGuard
  <2>3. CASE step'.stage = "away" /\ raced' = (raced \/ (Journaled(step'.unit) /\ save.stage # "none"))
    BY <2>1, <2>3 DEF GuardHeld, StepHoldsGuard, Journaled
  <2> QED
    BY <1>2, <2>2, <2>3 DEF Redo, BeginStep
<1>3. CASE StepFile
  <2>1. GuardHeld' => GuardHeld
    BY <1>3, <1>s, <1>i DEF StepFile, Rejected, GuardHeld, StepHoldsGuard
  <2>2. save' = save /\ (raced' = (raced \/ disk # saved) \/ raced' = raced)
    BY <1>3 DEF StepFile
  <2>3. raced => raced'
    BY <2>2
  <2> QED
    BY <1>k, <2>1, <2>2, <2>3
<1>4. CASE StepSource \/ StepFails \/ StepEnd
  <2>1. step'.stage \in {"none", "redraw"} /\ UNCHANGED <<txn, save, raced>>
    BY <1>4, <1>i, <1>s DEF StepSource, StepFails, StepEnd, SourceIsNext, Rejected
  <2> QED
    BY <1>k, <2>1 DEF GuardHeld, StepHoldsGuard
<1>5. CASE SaveBegin
  BY <1>5 DEF SaveBegin, GuardHeld, StepHoldsGuard
<1>6. CASE SaveCheck \/ SaveWrite \/ SaveEnd
  <2>1. save'.stage # "none" => save.stage # "none"
    BY <1>6, <1>i DEF SaveCheck, SaveWrite, SaveEnd
  <2>2. UNCHANGED <<step, txn>> /\ (raced => raced')
    BY <1>6 DEF SaveCheck, SaveWrite, SaveEnd
  <2> QED
    BY <1>k, <2>1, <2>2 DEF GuardHeld, StepHoldsGuard
<1>7. CASE TxnBegin
  BY <1>7 DEF TxnBegin
<1>8. CASE TxnWrite \/ TxnVerify \/ TxnCommit \/ TxnRollBack \/ TxnReconcile
  <2>1. txn.stage # "none" /\ UNCHANGED <<save, step, raced>>
    BY <1>8 DEF TxnWrite, TxnVerify, TxnCommit, TxnRollBack, TxnReconcile
  <2> QED
    BY <2>1 DEF GuardHeld
<1>9. CASE ForeignWrite \/ Edit \/ ReadFile \/ Reload \/ RevertBegin \/ RevertEnd \/ UNCHANGED vars
  <2>1. UNCHANGED <<save, step, txn, raced>>
    BY <1>9 DEF ForeignWrite, Edit, ReadFile, Reload, RevertBegin, RevertEnd, vars
  <2> QED
    BY <1>k, <2>1 DEF GuardHeld, StepHoldsGuard
<1> QED
  BY <1>1, <1>2, <1>3, <1>4, <1>5, <1>6, <1>7, <1>8, <1>9 DEF Next

\* Nothing that the mark, the token or what was seen in the file depends on changes.
Unmarked ==
  /\ UNCHANGED <<history, saved>>
  /\ save'.stage # "none" => save.stage # "none" /\ save'.id = save.id /\ sameGen' = sameGen
  /\ step'.stage = "landed" /\ "step" \in current' => step' = step /\ "step" \in current
  /\ txn'.stage # "none" /\ "txn" \in current' =>
       txn.stage # "none" /\ txn'.base = txn.base /\ "txn" \in current

\* Then the mark stays right.
LEMMA UnmarkedKeeps ==
  ASSUME Marked, Unmarked
  PROVE  Marked'
<1>1. MarkIsSaved(history, saved)'
  BY DEF Marked, Unmarked, MarkIsSaved, Near, Plain, Journaled, Source
<1>2. TokenIsNear'
  <2>1. SUFFICES ASSUME save'.stage # "none", NEW p \in Places(history', save'.id, sameGen')
                 PROVE  Near(history', p)
    BY DEF TokenIsNear, Near, Plain, Journaled, Places, Position
  <2>2. p \in Places(history, save.id, sameGen)
    BY <2>1 DEF Unmarked
  <2>3. Near(history, p)
    BY <2>1, <2>2 DEF Marked, Unmarked, TokenIsNear
  <2> QED
    BY <2>3 DEF Unmarked
<1>3. StepSawFile'
  BY DEF Marked, Unmarked, StepSawFile, FileFrom, Journaled
<1>4. TxnSawFile'
  BY DEF Marked, Unmarked, TxnSawFile
<1> QED
  BY <1>1, <1>2, <1>3, <1>4 DEF Marked

\* An adopted image is marked, and a save that runs finds its token gone.
LEMMA AdoptedMarked ==
  ASSUME TypeOK, NEW image, Adopted(image), save' = save
  PROVE  Marked'
<1>1. history' = Reset(image, TRUE) /\ saved' = image /\ current' = {} /\ sameGen' = FALSE
  BY DEF Adopted, Revised
<1>2. MarkIsSaved(history', saved')
  BY <1>1, ResetMark DEF NoCheckpoint
<1>3. MarkIsSaved(history, saved)'
  BY <1>2 DEF MarkIsSaved, Near, Plain, Journaled, Source
<1>4. save.stage # "none" => Places(history', save.id, FALSE) = {}
  <2>1. save.stage # "none" => save.id = NoEdit \/ save.id \in Id
    BY DEF TypeOK, Idle
  <2> QED
    BY <1>1, <2>1, ResetMark
<1>5. TokenIsNear'
  BY <1>1, <1>4 DEF TokenIsNear, Places, Position
<1> QED
  BY <1>1, <1>3, <1>5 DEF Marked, StepSawFile, TxnSawFile

\* An edit that the history records keeps the mark; a journaled one finds the saved source.
LEMMA AppliedMarked ==
  ASSUME TypeOK, Sound, Marked, NEW after \in Text, NEW image \in Text \cup {NoImage},
         Applied(after, image), ~strayed', save' = save,
         IF image = NoImage THEN saved' = saved ELSE image = saved /\ save.stage = "none"
  PROVE  Marked'
<1> DEFINE unit == [id |-> NewId, before |-> text, after |-> after, disk |-> image]
           h == history
<1>1. Fits(h) /\ text \in Text /\ CurrentSource(h) = text
  BY DEF TypeOK, Fits, Sound, CursorMatches
<1>2. Id \ Used # {} /\ current' = {}
  BY <1>1 DEF Applied, Revised
<1>3. unit \in Unit /\ NewId \notin Used
  BY <1>1, <1>2, NewIdIsNew DEF Unit
<1>4. PICK k \in Excess(Record(h, unit)) :
        history' = Shed(Record(h, unit), k) /\ sameGen' = (sameGen /\ k = 0)
  BY <1>1 DEF Applied
<1>5. k \in 0 .. h.active + 1
  <2>1. Len(Record(h, unit).units) = Record(h, unit).active /\ Record(h, unit).active = h.active + 1
    BY <1>1, <1>3, RecordFits
  <2> QED
    BY <1>4, <2>1 DEF Excess
<1>6. Journaled(unit) <=> image # NoImage
  BY DEF Journaled
<1>7. MarkIsSaved(Shed(Record(h, unit), k), saved')
  <2>1. MarkIsSaved(h, saved)
    BY DEF Marked
  <2>2. IF Journaled(unit) THEN unit.disk = saved ELSE saved' = saved
    BY <1>6
  <2> HIDE DEF unit, h
  <2> QED
    BY <1>1, <1>3, <1>5, <2>1, <2>2, EditKeepsMark
<1>8. MarkIsSaved(history, saved)'
  BY <1>4, <1>7 DEF MarkIsSaved, Near, Plain, Journaled, Source
<1>9. TokenIsNear'
  <2>1. SUFFICES ASSUME save.stage # "none", NEW p \in Places(history', save.id, sameGen')
                 PROVE  Near(history', p)
    BY DEF TokenIsNear, Near, Plain, Journaled, Places, Position
  <2>2. ~Journaled(unit) /\ save.id # unit.id
    BY <1>3, <1>6, <2>1 DEF Used
  <2> DEFINE same == IF sameGen THEN TRUE ELSE FALSE
  <2>3. \A q \in Places(h, save.id, same) : Near(h, q)
    BY <2>1 DEF Marked, TokenIsNear, Places
  <2>4. p \in Places(Shed(Record(h, unit), k), save.id, same /\ k = 0)
    BY <1>4, <2>1 DEF Places
  <2> HIDE DEF unit, h, same
  <2>5. same \in BOOLEAN
    BY DEF same
  <2>6. Near(Shed(Record(h, unit), k), p)
    BY <1>1, <1>3, <1>5, <2>2, <2>3, <2>4, <2>5, EditKeepsToken DEF unit
  <2> QED
    BY <1>4, <2>6 DEF h
<1> QED
  BY <1>2, <1>8, <1>9 DEF Marked, StepSawFile, TxnSawFile

\* A native step that takes its source takes the mark's half along.
LEMMA StepSourceMarked ==
  ASSUME TypeOK, Sound, Marked, Apart, ~raced, StepSource
  PROVE  Marked'
<1> DEFINE h   == history
           id  == step.unit.id
           dir == step.dir
<1>1. /\ StepIsNext /\ CanAlign(h, id, dir) /\ dir \in {"undo", "redo"} /\ step.unit \in Unit
      /\ Contains(h, id) => ~InPlace(h, id, dir) /\ CanMove(h, id, dir)
  BY StepFindsItsUnit DEF StepSource
<1>2. /\ history' = Align(h, id, dir, To(step)) /\ sameGen' = (sameGen /\ Contains(h, id))
      /\ current' = {} /\ save' = save
  BY <1>1 DEF StepSource, Aligned, Revised
<1>3. IF Journaled(step.unit) THEN saved' = FileTo(step) ELSE saved' = saved
  BY DEF StepSource
<1>4. Fits(h)
  BY DEF TypeOK, Fits
<1>5. SUFFICES MarkIsSaved(history', saved')
                 /\ (save.stage # "none" => \A p \in Places(history', save.id, sameGen') : Near(history', p))
  BY <1>2 DEF Marked, StepSawFile, TxnSawFile, TokenIsNear, MarkIsSaved, Near, Plain, Journaled,
              Source, Places, Position
<1>t. save.stage # "none" => save.id = NoEdit \/ save.id \in Id
  BY DEF TypeOK, Idle
<1>6. CASE ~Contains(h, id)
  <2>1. history' = Reset(To(step), FALSE)
    BY <1>2, <1>6 DEF Align
  <2>2. save.stage # "none" => Places(history', save.id, FALSE) = {}
    BY <1>t, <2>1, ResetMark
  <2>3. save.stage # "none" => Places(history', save.id, sameGen') = {}
    BY <1>2, <1>6, <2>2 DEF Places
  <2>4. MarkIsSaved(history', saved')
    BY <2>1, ResetMark
  <2> QED
    BY <2>3, <2>4
<1>7. CASE Contains(h, id)
  <2> DEFINE i == IF dir = "undo" THEN h.active ELSE h.active + 1
  <2>1. history' = Moved(h, dir) /\ CanMove(h, id, dir)
    BY <1>1, <1>2, <1>7 DEF Align
  <2>2. i \in DOMAIN h.units /\ h.units[i].id = id
    BY <1>1, <1>4, <2>1, FitsFacts DEF CanMove
  <2>3. step.unit = h.units[i]
    BY <1>1, <2>2 DEF StepIsNext, At
  <2>4. Journaled(step.unit) => step.stage = "landed" /\ "step" \in current
    BY DEF StepSource, SourceIsNext
  <2>5. Journaled(step.unit) =>
          /\ saved = IF dir = "undo" THEN step.unit.after ELSE step.unit.disk
          /\ saved' = IF dir = "undo" THEN step.unit.disk ELSE step.unit.after
    BY <1>3, <2>4 DEF Marked, StepSawFile, FileFrom, FileTo
  <2>6. MarkIsSaved(h, saved)
    BY DEF Marked
  <2>7. MarkIsSaved(Moved(h, dir), saved')
    <3> HIDE DEF h, dir
    <3> QED
      BY <1>1, <1>3, <1>4, <2>1, <2>3, <2>5, <2>6, MoveKeepsMark
  <2>8. ASSUME save.stage # "none", NEW p \in Places(history', save.id, sameGen')
        PROVE  Near(history', p)
    <3>1. ~Journaled(step.unit)
      BY <2>4, <2>8 DEF Apart, GuardHeld, StepHoldsGuard
    <3>2. history'.units = h.units
      BY <1>1, <1>4, <2>1, MovedFits
    <3>3. p \in Places(h, save.id, sameGen)
      BY <1>2, <1>7, <2>8, <3>2 DEF Places, Position
    <3>4. Near(h, p)
      BY <2>8, <3>3 DEF Marked, TokenIsNear
    <3>5. p \in Int
      BY <1>4, <3>3, FitsFacts DEF Places, Position
    <3>6. ~Journaled(h.units[IF dir = "undo" THEN h.active ELSE h.active + 1])
      BY <2>3, <3>1
    <3>7. Near(Moved(h, dir), p)
      <4> HIDE DEF h, dir
      <4> QED
        BY <1>1, <1>4, <2>1, <3>4, <3>5, <3>6, MoveKeepsNear
    <3> QED
      BY <2>1, <3>7
  <2> QED
    BY <2>1, <2>7, <2>8
<1> QED
  BY <1>6, <1>7

\* The alignment after the redraw moves nothing, or resets what it cannot find.
LEMMA StepEndMarked ==
  ASSUME TypeOK, Sound, Marked, StepEnd
  PROVE  Marked'
<1> DEFINE id  == step.unit.id
           dir == step.dir
<1>1. step'.stage = "none" /\ UNCHANGED <<saved, save, txn, current>>
  BY DEF StepEnd, Rejected, Idle, baseline
<1>2. CASE UNCHANGED <<history, sameGen>>
  BY <1>1, <1>2, UnmarkedKeeps DEF Unmarked
<1>3. CASE CanAlign(history, id, dir) /\ Aligned(id, dir, text)
  <2>1. CASE Contains(history, id)
    <3>1. InPlace(history, id, dir)
      BY <1>3, <2>1, RedrawnInPlace DEF StepEnd
    <3>2. history' = history /\ sameGen' = (sameGen /\ TRUE)
      BY <1>3, <2>1, <3>1 DEF Aligned, Align
    <3>3. save.stage # "none" => \A p \in Places(history, save.id, sameGen') : Near(history, p)
      BY <3>2 DEF Marked, TokenIsNear, Places
    <3>4. TokenIsNear'
      BY <1>1, <3>2, <3>3 DEF TokenIsNear, Near, Plain, Journaled, Places, Position
    <3>5. MarkIsSaved(history, saved)'
      BY <1>1, <3>2 DEF Marked, MarkIsSaved, Near, Plain, Journaled, Source
    <3> QED
      BY <1>1, <3>4, <3>5 DEF Marked, StepSawFile, TxnSawFile
  <2>2. CASE ~Contains(history, id)
    <3>1. history' = Reset(text, FALSE) /\ sameGen' = FALSE
      BY <1>3, <2>2 DEF Aligned, Align
    <3>2. save.stage # "none" => Places(history', save.id, FALSE) = {}
      <4>1. save.stage # "none" => save.id = NoEdit \/ save.id \in Id
        BY DEF TypeOK, Idle
      <4> QED
        BY <3>1, <4>1, ResetMark
    <3>3. TokenIsNear'
      BY <1>1, <3>1, <3>2 DEF TokenIsNear, Places, Position
    <3>4. MarkIsSaved(history', saved')
      BY <3>1, ResetMark
    <3>5. MarkIsSaved(history, saved)'
      BY <3>4 DEF MarkIsSaved, Near, Plain, Journaled, Source
    <3> QED
      BY <1>1, <3>3, <3>5 DEF Marked, StepSawFile, TxnSawFile
  <2> QED
    BY <2>1, <2>2
<1> QED
  BY <1>2, <1>3 DEF StepEnd

\* A save that ends marks the place it began at, if only unjournaled edits moved the cursor.
LEMMA SaveEndMarked ==
  ASSUME TypeOK, Marked, Apart, ~raced, SaveEnd
  PROVE  Marked'
<1>1. /\ save.stage = "written" /\ save'.stage = "none" /\ saved' = save.snapshot
      /\ history' = Checkpoint(history, save.snapshot, save.id, sameGen)
      /\ UNCHANGED <<step, txn, current>>
  BY DEF SaveEnd, Idle
<1>2. Fits(history) /\ \A p \in Places(history, save.id, sameGen) : Near(history, p)
  BY <1>1 DEF TypeOK, Fits, Marked, TokenIsNear
<1>3. MarkIsSaved(history', saved')
  BY <1>1, <1>2, CheckpointMarksSaved
<1>4. MarkIsSaved(history, saved)'
  BY <1>3 DEF MarkIsSaved, Near, Plain, Journaled, Source
<1>5. ~GuardHeld
  BY <1>1 DEF Apart
<1> QED
  BY <1>1, <1>4, <1>5 DEF Marked, TokenIsNear, StepSawFile, TxnSawFile, GuardHeld, StepHoldsGuard, Journaled

\* Every step of a document that is neither strayed nor raced keeps the mark right.
LEMMA MarkedPreserved ==
  ASSUME TypeOK, Sound, Marked, Apart, [Next]_vars, ~raced', ~strayed'
  PROVE  Marked'
<1> USE DEF stack, ops, ghosts, baseline
<1>i. Idle.stage = "none"
  BY DEF Idle
<1>1. CASE ForeignWrite
  BY <1>1, UnmarkedKeeps DEF ForeignWrite, Unmarked
<1>2. CASE Edit
  <2>1. PICK after \in Text : Applied(after, NoImage)
    BY <1>2 DEF Edit
  <2>2. save' = save /\ saved' = saved
    BY <1>2 DEF Edit
  <2> QED
    BY <2>1, <2>2, AppliedMarked
<1>3. CASE Undo \/ Redo
  <2>1. UNCHANGED <<history, saved, save, sameGen, txn>> /\ step'.stage \in {"away", "none"}
    BY <1>3, <1>i DEF Undo, Redo, BeginStep, Rejected
  <2>2. "txn" \in current' => "txn" \in current
    BY <1>3 DEF Undo, Redo, BeginStep, Enters
  <2> QED
    BY <2>1, <2>2, UnmarkedKeeps DEF Unmarked
<1>4. CASE StepFile
  <2>1. UNCHANGED <<history, saved, save, sameGen, txn>>
    BY <1>4 DEF StepFile
  <2>2. CASE Rejected /\ Enters({}, {"step", "read"})
    <3>1. step'.stage = "none" /\ ("txn" \in current' => "txn" \in current)
      BY <1>i, <2>2 DEF Rejected, Enters
    <3> QED
      BY <2>1, <3>1, UnmarkedKeeps DEF Unmarked
  <2>3. CASE disk = FileFrom(step) /\ step' = [step EXCEPT !.stage = "landed"]
               /\ raced' = (raced \/ disk # saved) /\ current' = current
    <3>1. step \in [stage : {"away", "landed", "redraw"}, dir : {"undo", "redo"}, unit : Unit]
      BY <1>4 DEF TypeOK, StepFile, Idle
    <3>2. FileFrom(step)' = FileFrom(step) /\ saved = FileFrom(step)
      BY <2>3, <3>1 DEF FileFrom
    <3>3. StepSawFile'
      BY <2>1, <3>2 DEF StepSawFile
    <3>4. MarkIsSaved(history, saved)'
      BY <2>1 DEF Marked, MarkIsSaved, Near, Plain, Journaled, Source
    <3>5. TokenIsNear'
      BY <2>1 DEF Marked, TokenIsNear, Near, Plain, Journaled, Places, Position
    <3>6. TxnSawFile'
      BY <2>1, <2>3 DEF Marked, TxnSawFile
    <3> QED
      BY <3>3, <3>4, <3>5, <3>6 DEF Marked
  <2> QED
    BY <1>4, <2>2, <2>3 DEF StepFile
<1>5. CASE StepSource
  <2>1. ~raced
    BY <1>5 DEF StepSource
  <2> QED
    BY <1>5, <2>1, StepSourceMarked
<1>6. CASE StepFails
  <2>1. UNCHANGED <<history, saved, save, sameGen, txn>> /\ step'.stage = "none"
    BY <1>6, <1>i DEF StepFails, Rejected
  <2>2. "txn" \in current' => "txn" \in current
    BY <1>6 DEF StepFails, Enters
  <2> QED
    BY <2>1, <2>2, UnmarkedKeeps DEF Unmarked
<1>7. CASE StepEnd
  BY <1>7, StepEndMarked
<1>8. CASE SaveBegin
  <2>1. /\ UNCHANGED <<history, saved, step, txn, current>> /\ sameGen' = TRUE
        /\ save'.id = TokenId(history)
    BY <1>8 DEF SaveBegin
  <2>2. Fits(history)
    BY DEF TypeOK, Fits
  <2>3. ASSUME NEW p \in Places(history, TokenId(history), TRUE)
        PROVE  p = history.active
    <3>1. CASE history.active = 0
      BY <2>3, <3>1 DEF TokenId, Places
    <3>2. CASE history.active # 0
      <4>1. history.active \in DOMAIN history.units
        BY <2>2, <3>2, FitsFacts
      <4>2. history.units[history.active].id \in Id
        <5>1. history.units[history.active] \in Unit
          BY <2>2, <4>1, FitsFacts
        <5> QED
          BY <5>1 DEF Unit
      <4>3. p \in Position(history, history.units[history.active].id)
        BY <2>3, <3>2, <4>2, NamesAssumption DEF TokenId, Places
      <4> QED
        BY <4>1, <4>3 DEF Position, Sound, Chained
    <3> QED
      BY <3>1, <3>2
  <2>4. Near(history, history.active)
    <3>1. history.active \in Int /\ DOMAIN history.units = 1 .. Len(history.units) /\ Len(history.units) \in Nat
      BY <2>2, FitsFacts
    <3> QED
      BY <3>1 DEF Near, Plain
  <2>5. TokenIsNear'
    <3>1. \A p \in Places(history', save'.id, sameGen') : Near(history', p)
      BY <2>1, <2>3, <2>4
    <3> QED
      BY <3>1 DEF TokenIsNear, Near, Plain, Journaled, Places, Position
  <2>6. MarkIsSaved(history, saved)'
    BY <2>1 DEF Marked, MarkIsSaved, Near, Plain, Journaled, Source
  <2>7. StepSawFile' /\ TxnSawFile'
    BY <2>1 DEF Marked, StepSawFile, TxnSawFile, Journaled, FileFrom
  <2> QED
    BY <2>5, <2>6, <2>7 DEF Marked
<1>9. CASE SaveCheck \/ SaveWrite
  <2>1. UNCHANGED <<history, saved, sameGen, step, txn, current>>
    BY <1>9 DEF SaveCheck, SaveWrite
  <2>2. save'.stage # "none" => save.stage # "none" /\ save'.id = save.id
    <3>1. save.stage # "none" => save \in [stage : {"begun", "checked", "written"}, snapshot : Text, id : Id \cup {NoEdit}]
      BY <1>i DEF TypeOK
    <3> QED
      BY <1>9, <1>i, <3>1 DEF SaveCheck, SaveWrite
  <2> QED
    BY <2>1, <2>2, UnmarkedKeeps DEF Unmarked
<1>10. CASE SaveEnd
  <2>1. ~raced
    BY <1>10 DEF SaveEnd
  <2> QED
    BY <1>10, <2>1, SaveEndMarked
<1>11. CASE ReadFile
  <2>1. UNCHANGED <<history, saved, save, sameGen, step, txn>>
    BY <1>11 DEF ReadFile
  <2>2. "txn" \in current' => "txn" \in current
    BY <1>11 DEF ReadFile, Enters
  <2>3. "step" \in current' => "step" \in current
    BY <1>11 DEF ReadFile, Enters
  <2> QED
    BY <2>1, <2>2, <2>3, UnmarkedKeeps DEF Unmarked
<1>12. CASE Reload
  <2>1. CASE Adopted(read.image)
    BY <1>12, <2>1, AdoptedMarked DEF Reload
  <2>2. CASE UNCHANGED <<history, saved, sameGen>> /\ current' \subseteq current
    BY <1>12, <2>2, UnmarkedKeeps DEF Reload, Unmarked
  <2> QED
    BY <1>12, <2>1, <2>2 DEF Reload, Enters
<1>13. CASE RevertBegin
  BY <1>13, UnmarkedKeeps DEF RevertBegin, Unmarked
<1>14. CASE RevertEnd
  BY <1>14, AdoptedMarked DEF RevertEnd
<1>15. CASE TxnBegin
  <2>1. UNCHANGED <<history, saved, save, sameGen, step>> /\ txn'.base = saved
    BY <1>15 DEF TxnBegin
  <2>2. "step" \in current' => "step" \in current
    BY <1>15 DEF TxnBegin, Enters
  <2>3. MarkIsSaved(history, saved)'
    BY <2>1 DEF Marked, MarkIsSaved, Near, Plain, Journaled, Source
  <2>4. TokenIsNear'
    BY <2>1 DEF Marked, TokenIsNear, Near, Plain, Journaled, Places, Position
  <2>5. StepSawFile'
    BY <2>1, <2>2 DEF Marked, StepSawFile, Journaled, FileFrom
  <2>6. TxnSawFile'
    BY <2>1 DEF TxnSawFile
  <2> QED
    BY <2>3, <2>4, <2>5, <2>6 DEF Marked
<1>t. txn.stage # "none" =>
        txn \in [stage : {"begun", "written", "refused", "verified", "reconcile"},
                 before : Text, base : Text, after : Text]
  BY <1>i DEF TypeOK
<1>16. CASE TxnWrite \/ TxnVerify \/ TxnRollBack
  <2>1. UNCHANGED <<history, saved, save, sameGen, step>>
    BY <1>16 DEF TxnWrite, TxnVerify, TxnRollBack
  <2>2. txn'.stage # "none" => txn.stage # "none" /\ txn'.base = txn.base
    BY <1>16, <1>i, <1>t DEF TxnWrite, TxnVerify, TxnRollBack, TxnEnds
  <2>3. current' \subseteq current
    BY <1>16 DEF TxnWrite, TxnVerify, TxnRollBack, Enters
  <2> QED
    BY <2>1, <2>2, <2>3, UnmarkedKeeps DEF Unmarked
<1>17. CASE TxnCommit
  <2>1. CASE Preflight /\ Applied(txn.after, txn.base) /\ saved' = txn.after
    <3>1. txn.after \in Text /\ txn.base \in Text /\ save' = save /\ ~raced
      BY <1>17, <1>t DEF TxnCommit
    <3>2. txn.base # NoImage
      BY <3>1, NamesAssumption
    <3>3. save.stage = "none"
      BY <1>17, <3>1 DEF Apart, GuardHeld, TxnCommit
    <3>4. txn.base = saved
      BY <1>17, <2>1 DEF Marked, TxnSawFile, TxnCommit, Preflight
    <3> QED
      BY <2>1, <3>1, <3>2, <3>3, <3>4, AppliedMarked
  <2>2. CASE txn' = [txn EXCEPT !.stage = "refused"] /\ UNCHANGED <<saved, history, current, sameGen>>
    <3>1. txn.stage # "none" /\ txn'.base = txn.base
      BY <1>17, <1>t, <2>2 DEF TxnCommit
    <3> QED
      BY <1>17, <2>2, <3>1, UnmarkedKeeps DEF TxnCommit, Unmarked
  <2> QED
    BY <1>17, <2>1, <2>2 DEF TxnCommit
<1>18. CASE TxnReconcile
  <2>1. UNCHANGED <<history, saved, save, sameGen, step>> /\ txn'.stage = "none"
    BY <1>18, <1>i DEF TxnReconcile, TxnEnds
  <2>2. "step" \in current' => "step" \in current
    BY <1>18 DEF TxnReconcile, Enters, Revised
  <2> QED
    BY <2>1, <2>2, UnmarkedKeeps DEF Unmarked
<1>19. CASE UNCHANGED vars
  BY <1>19, UnmarkedKeeps DEF vars, Unmarked
<1> QED
  BY <1>1, <1>2, <1>3, <1>4, <1>5, <1>6, <1>7, <1>8, <1>9, <1>10, <1>11, <1>12, <1>13, <1>14,
     <1>15, <1>16, <1>17, <1>18, <1>19 DEF Next

\* Every step keeps the mark right, or notes what set it wrong.
LEMMA MarkPreserved == IInv /\ MInv /\ [Next]_vars => MInv'
<1> SUFFICES ASSUME IInv, MInv, [Next]_vars PROVE MInv'
  OBVIOUS
<1> USE DEF IInv, MInv, ghosts
<1>1. Apart'
  BY OverlapIsNoted
<1>2. SUFFICES ASSUME ~strayed', ~raced' PROVE Marked'
  BY <1>1
<1>3. ~raced
  BY <1>2 DEF Next, vars, ForeignWrite, Edit, Undo, Redo, BeginStep, StepFile, StepSource, StepFails,
              StepEnd, SaveBegin, SaveCheck, SaveWrite, SaveEnd, ReadFile, Reload, RevertBegin,
              RevertEnd, TxnBegin, TxnWrite, TxnVerify, TxnCommit, TxnRollBack, TxnReconcile
<1>4. CASE ~strayed
  BY <1>2, <1>3, <1>4, MarkedPreserved
<1>5. CASE strayed
  <2>1. CASE Reload
    <3>1. Adopted(read.image) /\ save' = save
      BY <1>2, <1>5, <2>1 DEF Reload
    <3> QED
      BY <3>1, AdoptedMarked
  <2>2. CASE RevertEnd
    BY <2>2, AdoptedMarked DEF RevertEnd
  <2>3. CASE ~Reload /\ ~RevertEnd
    BY <1>2, <1>5, <2>3, StrayEnds
  <2> QED
    BY <2>1, <2>2, <2>3
<1> QED
  BY <1>4, <1>5

\* The document opens at its mark.
LEMMA InitMarked == Init => MInv
<1> SUFFICES ASSUME Init PROVE MInv
  OBVIOUS
<1>1. history = Reset(disk, TRUE) /\ saved = disk
  BY DEF Init
<1>2. MarkIsSaved(history, saved)
  BY <1>1, ResetMark DEF NoCheckpoint
<1> QED
  BY <1>2 DEF Init, MInv, Apart, Marked, TokenIsNear, StepSawFile, TxnSawFile, Idle

------------------------------------------------------------------------------
(* The file *)

\* Every step keeps a document that does not know the file about to look at it.
LEMMA WatchPreserved == TypeOK /\ WInv /\ [Next]_vars => WInv'
<1> SUFFICES ASSUME TypeOK, WInv, [Next]_vars PROVE WInv'
  OBVIOUS
<1> USE DEF stack, ops, ghosts, baseline, file
<1> DEFINE Fresh == read.stage = "done" /\ read.image # disk => due
           Out   == read.stage # "none" \/ revert.stage # "none" \/ GuardHeld \/ overlooked
<1>i. Idle.stage = "none"
  BY DEF Idle
<1>w. Fresh /\ (saved # disk /\ ~ReadOnly /\ ~raced => due \/ Out)
  BY DEF WInv
<1>d. ASSUME due'
      PROVE  WInv'
  BY <1>d DEF WInv
<1>k. ASSUME UNCHANGED <<disk, due, saved, read, revert>>, ReadOnly => ReadOnly',
             raced => raced', GuardHeld => GuardHeld', overlooked => overlooked'
      PROVE  WInv'
  BY <1>k, <1>w DEF WInv
<1>s. step.stage # "none" =>
        step \in [stage : {"away", "landed", "redraw"}, dir : {"undo", "redo"}, unit : Unit]
  BY <1>i DEF TypeOK
<1>1. CASE ForeignWrite
  BY <1>1, <1>d DEF ForeignWrite, SetDisk
<1>2. CASE Edit
  BY <1>2, <1>k DEF Edit, ReadOnly, GuardHeld, StepHoldsGuard
<1>3. CASE Undo \/ Redo
  <2>1. UNCHANGED <<disk, due, saved, revert, unknown, manual, txn, overlooked>> /\ step.stage = "none"
    BY <1>3 DEF Undo, Redo
  <2>2. raced => raced'
    BY <1>3 DEF Undo, Redo, BeginStep
  <2>3. CASE read' = read
    BY <1>k, <2>1, <2>2, <2>3 DEF ReadOnly, GuardHeld, StepHoldsGuard
  <2>4. CASE read' = Idle /\ step'.stage = "away" /\ Journaled(step'.unit)
    <3>1. GuardHeld'
      BY <2>4 DEF GuardHeld, StepHoldsGuard, Journaled
    <3> QED
      BY <1>i, <2>4, <3>1 DEF WInv
  <2> QED
    BY <1>3, <2>3, <2>4 DEF Undo, Redo, BeginStep
<1>4. CASE StepFile
  BY <1>4, <1>d DEF StepFile, SetDisk, Released
<1>5. CASE StepSource
  <2>1. CASE Journaled(step.unit)
    BY <1>5, <1>d, <2>1 DEF StepSource, Released
  <2>2. CASE ~Journaled(step.unit)
    <3>1. UNCHANGED <<disk, due, saved, read, revert, unknown, manual, txn, raced, overlooked>>
      BY <1>5, <2>2 DEF StepSource
    <3> QED
      BY <1>k, <2>2, <3>1 DEF ReadOnly, GuardHeld, StepHoldsGuard
  <2> QED
    BY <2>1, <2>2
<1>6. CASE StepFails
  <2>1. CASE Journaled(step.unit)
    BY <1>6, <1>d, <2>1 DEF StepFails, Released
  <2>2. CASE ~Journaled(step.unit)
    <3>1. UNCHANGED <<disk, due, saved, read, revert, unknown, txn, raced, overlooked>>
      BY <1>6, <2>2 DEF StepFails
    <3>2. manual => manual'
      BY <1>6, <2>2 DEF StepFails
    <3> QED
      BY <1>k, <2>2, <3>1, <3>2 DEF ReadOnly, GuardHeld, StepHoldsGuard
  <2> QED
    BY <2>1, <2>2
<1>7. CASE StepEnd
  BY <1>7, <1>k DEF StepEnd, ReadOnly, GuardHeld, StepHoldsGuard
<1>8. CASE SaveBegin \/ SaveCheck
  <2>1. UNCHANGED <<disk, due, saved, read, revert, unknown, manual, txn, step, overlooked>>
    BY <1>8 DEF SaveBegin, SaveCheck
  <2>2. raced' = (raced \/ GuardHeld) \/ raced' = raced
    BY <1>8 DEF SaveBegin, SaveCheck
  <2>3. raced => raced'
    BY <2>2
  <2> QED
    BY <1>k, <2>1, <2>3 DEF ReadOnly, GuardHeld, StepHoldsGuard
<1>9. CASE SaveWrite
  <2>1. CASE SetDisk(save.snapshot)
    BY <1>d, <2>1 DEF SetDisk
  <2>2. CASE UNCHANGED <<file, raced>>
    BY <1>9, <1>k, <2>2 DEF SaveWrite, ReadOnly, GuardHeld, StepHoldsGuard
  <2> QED
    BY <1>9, <2>1, <2>2 DEF SaveWrite
<1>10. CASE SaveEnd
  <2>1. ~raced' => saved' = disk'
    BY <1>10 DEF SaveEnd
  <2>2. UNCHANGED <<read, disk, due>>
    BY <1>10 DEF SaveEnd
  <2> QED
    BY <1>w, <2>1, <2>2 DEF WInv
<1>11. CASE ReadFile
  <2>1. disk' = disk /\ (read' = [stage |-> "done", image |-> disk] \/ read' = [stage |-> "failed"])
    BY <1>11 DEF ReadFile
  <2> QED
    BY <2>1 DEF WInv
<1>a. ASSUME NEW image, Adopted(image), UNCHANGED <<disk, due>>, read' = Idle \/ read' = read,
             image # disk => due \/ overlooked'
      PROVE  WInv'
  <2>1. saved' = image
    BY <1>a DEF Adopted
  <2>2. saved' # disk' => due' \/ overlooked'
    BY <1>a, <2>1
  <2>3. Fresh'
    BY <1>a, <1>i, <1>w
  <2> QED
    BY <2>2, <2>3 DEF WInv
<1>12. CASE Reload
  <2>1. read' = Idle /\ disk' = disk /\ UNCHANGED <<step, txn, revert, raced>>
    BY <1>12 DEF Reload
  <2>2. CASE due'
    BY <1>d, <2>2
  <2>3. CASE unknown' = TRUE
    BY <1>i, <2>1, <2>3 DEF WInv, ReadOnly
  <2>4. CASE read.image \in Owned /\ UNCHANGED <<due, baseline, overlooked>>
    <3>1. GuardHeld /\ GuardHeld'
      BY <2>1, <2>4 DEF Owned, GuardHeld, StepHoldsGuard
    <3> QED
      BY <1>i, <2>1, <3>1 DEF WInv
  <2>5. CASE ~NeedsRecoveryBackup /\ read.stage = "done" /\ read.image = text /\ UNCHANGED <<due, baseline, overlooked>>
    <3>1. saved' = read.image
      BY <2>5 DEF NeedsRecoveryBackup, IsDirty
    <3>2. saved' # disk' => due'
      BY <1>w, <2>1, <2>5, <3>1
    <3> QED
      BY <1>i, <2>1, <3>2 DEF WInv
  <2>6. CASE overlooked' = TRUE
    BY <1>i, <2>1, <2>6 DEF WInv
  <2>7. CASE Adopted(read.image) /\ UNCHANGED due /\ read.stage = "done"
    <3>1. read.image # disk => due
      BY <1>w, <2>7
    <3> QED
      BY <1>a, <2>1, <2>7, <3>1
  <2> QED
    BY <1>12, <2>2, <2>3, <2>4, <2>5, <2>6, <2>7 DEF Reload
<1>13. CASE RevertBegin
  <2>1. UNCHANGED <<disk, due, saved, read, manual, txn, step, raced, overlooked>>
    BY <1>13 DEF RevertBegin
  <2>2. CASE unknown' = TRUE
    BY <1>w, <2>1, <2>2 DEF WInv, ReadOnly
  <2>3. CASE revert' = [stage |-> "done", image |-> disk]
    BY <1>w, <2>1, <2>3 DEF WInv
  <2>4. unknown' = TRUE \/ revert' = [stage |-> "done", image |-> disk]
    BY <1>13 DEF RevertBegin
  <2> QED
    BY <2>2, <2>3, <2>4
<1>14. CASE RevertEnd
  <2>1. /\ Adopted(revert.image) /\ UNCHANGED <<disk, due, read>>
        /\ overlooked' = (revert.image # disk)
    BY <1>14 DEF RevertEnd
  <2> QED
    BY <1>a, <2>1
<1>15. CASE TxnBegin
  <2>1. GuardHeld' /\ read' = Idle
    BY <1>15 DEF TxnBegin, GuardHeld
  <2> QED
    BY <1>i, <2>1 DEF WInv
<1>16. CASE TxnWrite
  BY <1>16, <1>d DEF TxnWrite, SetDisk, TxnEnds, Released
<1>17. CASE TxnVerify
  <2>1. txn.stage # "none" /\ txn'.stage # "none"
    <3>1. txn \in [stage : {"begun", "written", "refused", "verified", "reconcile"},
                   before : Text, base : Text, after : Text]
      BY <1>17, <1>i DEF TypeOK, TxnVerify
    <3> QED
      BY <1>17, <3>1 DEF TxnVerify
  <2> QED
    BY <1>17, <1>w, <2>1 DEF TxnVerify, WInv, ReadOnly, GuardHeld
<1>18. CASE TxnCommit
  <2>1. CASE TxnEnds
    BY <1>d, <2>1 DEF TxnEnds, Released
  <2>2. CASE txn' = [txn EXCEPT !.stage = "refused"] /\ UNCHANGED <<due, saved, unknown, manual, read>>
    <3>1. txn.stage # "none" /\ txn'.stage # "none"
      <4>1. txn \in [stage : {"begun", "written", "refused", "verified", "reconcile"},
                     before : Text, base : Text, after : Text]
        BY <1>18, <1>i DEF TypeOK, TxnCommit
      <4> QED
        BY <1>18, <2>2, <4>1 DEF TxnCommit
    <3> QED
      BY <1>18, <1>w, <2>2, <3>1 DEF TxnCommit, WInv, ReadOnly, GuardHeld
  <2> QED
    BY <1>18, <2>1, <2>2 DEF TxnCommit
<1>19. CASE TxnRollBack
  BY <1>19, <1>d DEF TxnRollBack, SetDisk, TxnEnds, Released
<1>20. CASE TxnReconcile
  BY <1>20, <1>d DEF TxnReconcile, TxnEnds, Released
<1>21. CASE UNCHANGED vars
  BY <1>21, <1>k DEF vars, ReadOnly, GuardHeld, StepHoldsGuard
<1> QED
  BY <1>1, <1>2, <1>3, <1>4, <1>5, <1>6, <1>7, <1>8, <1>9, <1>10, <1>11, <1>12, <1>13, <1>14,
     <1>15, <1>16, <1>17, <1>18, <1>19, <1>20, <1>21 DEF Next

------------------------------------------------------------------------------
(* Theorems *)

\* The strengthening of CursorMatchesUnlessStrayed is an invariant: types, the chain of
\* distinct edits, and VS Code's stacks on both sides of the cursor.
THEOREM DocumentInvariant == Spec => []IInv
<1>1. Init => IInv
  BY InitType, InitSound DEF IInv
<1>2. IInv /\ [Next]_vars => IInv'
  BY TypePreserved, SoundPreserved, StrayedPreserved DEF IInv
<1> QED
  BY <1>1, <1>2, PTL DEF Spec

\* For every limit, stack and number of edits, the history's cursor is at the source
\* unless the source was moved behind it: a backup of both can be written.
THEOREM CursorStaysAtSource == Spec => []CursorMatchesUnlessStrayed
<1>1. IInv => CursorMatchesUnlessStrayed
  BY DEF IInv, Sound, CursorMatchesUnlessStrayed
<1> QED
  BY <1>1, DocumentInvariant, PTL

\* A step that is being redrawn finds its unit as well, unless it is a Redo's and an edit
\* lies on top of it.
LEMMA RedrawFindsItsUnit ==
  ASSUME TypeOK, Sound, step.stage = "redraw"
  PROVE  \/ CanAlign(history, step.unit.id, step.dir)
         \/ step.dir = "redo" /\ \E p \in Position(history, step.unit.id) : p < history.active
<1>1. step.dir \in {"undo", "redo"} /\ StepIsDone
  BY DEF TypeOK, Idle, Sound
<1>2. /\ history.active \in Nat
      /\ DOMAIN history.units = 1 .. Len(history.units) /\ Len(history.units) \in Nat
  BY FitsFacts DEF TypeOK, Fits
<1>3. CASE Position(history, step.unit.id) = {}
  BY <1>3 DEF CanAlign, Contains
<1>4. CASE Position(history, step.unit.id) # {}
  <2>1. PICK p \in Position(history, step.unit.id) : TRUE
    BY <1>4
  <2>2. p \in Nat
    BY <1>2 DEF Position
  <2>3. CASE step.dir = "undo"
    <3>1. history.active + 1 \in Position(history, step.unit.id)
      BY <1>1, <2>1, <2>3 DEF StepIsDone
    <3> QED
      BY <2>3, <3>1 DEF CanAlign, InPlace
  <2>4. CASE step.dir = "redo" /\ p = history.active
    BY <2>1, <2>4 DEF CanAlign, InPlace
  <2>5. CASE step.dir = "redo" /\ p # history.active
    <3>1. p <= history.active
      BY <1>1, <2>1, <2>5 DEF StepIsDone
    <3>2. p < history.active
      BY <1>2, <2>2, <2>5, <3>1
    <3> QED
      BY <2>1, <2>5, <3>2
  <2> QED
    BY <1>1, <2>3, <2>4, <2>5
<1> QED
  BY <1>3, <1>4

\* For every limit, a step finds its unit when it takes its source, and again after the
\* redraw unless an edit lies on top of a Redo.
THEOREM StepsAreInOrder == Spec => []StepsFindTheirUnits
<1>1. IInv => StepsFindTheirUnits
  BY StepFindsItsUnit, RedrawFindsItsUnit DEF IInv, StepsFindTheirUnits
<1> QED
  BY <1>1, DocumentInvariant, PTL

\* Where the saved source is, seen from the cursor, is an invariant.
THEOREM MarkInvariant == Spec => []MInv
<1>1. Init => MInv
  BY InitMarked
<1>2. IInv /\ MInv /\ [Next]_vars => MInv'
  BY MarkPreserved
<1> QED
  BY <1>1, <1>2, DocumentInvariant, PTL DEF Spec

\* For every limit, stack and number of edits, a history at its checkpoint belongs to a
\* saved source.
THEOREM CleanHistoriesAreSaved == Spec => []CleanHistoryIsSaved
<1>1. IInv /\ MInv => CleanHistoryIsSaved
  <2>1. SUFFICES ASSUME IInv, MInv, ~HistoryDirty(history), ~strayed, ~raced
                 PROVE  text = saved
    BY DEF CleanHistoryIsSaved
  <2>2. Fits(history) /\ CursorMatches /\ MarkIsSaved(history, saved)
    BY <2>1 DEF IInv, MInv, TypeOK, Fits, Sound, Marked
  <2>3. /\ history.checkpoint = history.active /\ history.active \in Nat
        /\ DOMAIN history.units = 1 .. Len(history.units) /\ Len(history.units) \in Nat
    BY <2>1, <2>2, FitsFacts DEF HistoryDirty
  <2>4. history.checkpoint # NoCheckpoint /\ Near(history, history.checkpoint)
    BY <2>3 DEF NoCheckpoint, Near, Plain
  <2> QED
    BY <2>2, <2>3, <2>4 DEF MarkIsSaved, CursorMatches, CurrentSource
<1> QED
  BY <1>1, DocumentInvariant, MarkInvariant, PTL

\* For every number of outside changes, reads, steps and transactions, a clean document
\* that does not show the file is about to read it.
THEOREM ChangesAreRead == Spec => []NoChangeIsForgotten
<1>1. Init => WInv
  BY DEF Init, WInv, Idle
<1>2. IInv /\ WInv /\ [Next]_vars => WInv'
  BY WatchPreserved DEF IInv
<1>3. WInv => NoChangeIsForgotten
  BY DEF WInv, NoChangeIsForgotten, NeedsRecoveryBackup, IsDirty
<1> QED
  BY <1>1, <1>2, <1>3, DocumentInvariant, PTL DEF Spec
=============================================================================
