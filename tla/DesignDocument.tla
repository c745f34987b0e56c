----------------------------- MODULE DesignDocument -----------------------------
(***************************************************************************)
(* The custom document of one form (WinFormsDesignDocument and the closures*)
(* of DesignerSession.commit in extension/src/designerEditor.ts): its      *)
(* unsaved generated source, the history of it, the file on disk, VS Code's*)
(* native Undo and Redo, Save, Revert, the reload after an outside change, *)
(* and the edits whose source a journaled transaction writes to the file   *)
(* before the document adopts it.                                          *)
(*                                                                         *)
(* A revision is only ever compared with the one an operation began at:    *)
(* current holds the operations for which it is still the same.  VS Code   *)
(* runs one Save, one Revert and one native step at a time.                *)
(***************************************************************************)
EXTENDS DocumentHistory

CONSTANTS
  MaxStack,   \* bound: the edits VS Code keeps
  MaxGestures \* bound: what the user and other programs do

VARIABLES
  disk,     \* the image of the .Designer.cs file
  due,      \* a watcher event, or a scheduled reload, is waiting
  text,     \* designerText
  saved,    \* savedDesignerText: what this document last saw on disk
  unknown,  \* _baselineUnknown
  manual,   \* _transactionRecoveryRequired
  history,  \* the bounded history
  past, future,   \* VS Code's edits: applied, and undone
  current,  \* operations since whose beginning the revision has not changed
  sameGen,  \* the history's generation is the one of the pending save's token
  step,     \* the native step that runs
  save, read, revert, txn,
  gestures, \* what has been begun
  \* History, read by the properties and by nothing else:
  strayed,  \* the source, what is saved, or VS Code's stack was moved behind the history,
            \* which no read has reset since
  raced,    \* a journaled edit or a step over one ran during a save, another writer came
            \* between a save's comparison and its end, or a step moved a file that this
            \* document had not seen
  overlooked \* the last read that counted found unsaved work and left the file alone, or
             \* was a Revert's and came late

file     == <<disk, due>>
baseline == <<saved, unknown, manual>>
stack    == <<past, future>>
ops      == <<step, save, read, revert, txn>>
ghosts   == <<strayed, raced, overlooked>>
vars     == <<file, text, baseline, history, stack, current, sameGen, ops, gestures, ghosts>>

Idle == [stage |-> "none"]

ReadOnly == unknown \/ manual
IsDirty  == text # saved
NeedsRecoveryBackup == IsDirty \/ HistoryDirty(history)

Used  == {history.units[i].id : i \in DOMAIN history.units}
           \cup {past[i].id : i \in DOMAIN past} \cup {future[i].id : i \in DOMAIN future}
           \cup (IF step.stage = "none" THEN {} ELSE {step.unit.id})
           \cup (IF save.stage = "none" THEN {} ELSE {save.id})
NewId == CHOOSE id \in Id \ Used : TRUE

\* SourceTransactionGuard: the images of a journaled edit, or of a step over one, that
\* has not been adopted yet.
Journaled(unit) == unit.disk # NoImage
StepHoldsGuard  == step.stage \in {"away", "landed"} /\ Journaled(step.unit)
GuardHeld == txn.stage # "none" \/ StepHoldsGuard
Owned == (IF txn.stage = "none" THEN {} ELSE {txn.base, txn.after})
           \cup (IF StepHoldsGuard THEN {step.unit.disk, step.unit.after} ELSE {})

Gesture == gestures < MaxGestures /\ gestures' = gestures + 1

Revised == current' = {}
Enters(entering, leaving) == current' = (current \ leaving) \cup entering
SetDisk(image) == disk' = image /\ due' = TRUE

------------------------------------------------------------------------------
(* The outside world. *)

\* Another program replaces the file.
ForeignWrite ==
  /\ Gesture
  /\ \E image \in Text \ {disk} : SetDisk(image)
  /\ UNCHANGED <<text, baseline, history, stack, current, sameGen, ops, ghosts>>

------------------------------------------------------------------------------
(* Edits. *)

\* applyPreflightedCommit: the source first, the history second.  A history that has lost
\* the source, or to which a linked file does not belong (outside the root, or in a folder
\* "secrets"), throws, and VS Code never hears of the edit.
Applied(after, image) ==
  LET unit == [id |-> NewId, before |-> text, after |-> after, disk |-> image] IN
  /\ text' = after /\ Revised
  /\ \/ /\ CurrentSource(history) = text
        /\ Len(past) < MaxStack /\ Id \ Used # {}
        /\ \E k \in Excess(Record(history, unit)) :
             /\ history' = Shed(Record(history, unit), k)
             /\ sameGen' = (sameGen /\ k = 0)
        /\ past' = Append(past, unit) /\ future' = << >>
        /\ UNCHANGED strayed
     \/ UNCHANGED <<history, sameGen, stack>> /\ strayed' = TRUE

\* commit() of an edit that leaves the file to the next save.
Edit ==
  /\ Gesture /\ ~ReadOnly
  /\ \E after \in Text \ {text} : Applied(after, NoImage)
  /\ UNCHANGED <<file, baseline, ops, raced, overlooked>>

------------------------------------------------------------------------------
(* Native Undo and Redo (the closures of applyPreflightedCommit, and the wrapper of
   fireDocumentEdit around them).  The resources of an edit are moved first, then its
   source, then the canvas is redrawn. *)

From(s) == IF s.dir = "undo" THEN s.unit.after ELSE s.unit.before
To(s)   == IF s.dir = "undo" THEN s.unit.before ELSE s.unit.after

\* The file of a journaled edit before and after the step.
FileFrom(s) == IF s.dir = "undo" THEN s.unit.after ELSE s.unit.disk
FileTo(s)   == IF s.dir = "undo" THEN s.unit.disk ELSE s.unit.after

SourceIsNext ==
  \/ step.stage = "landed"
  \/ step.stage = "away" /\ ~Journaled(step.unit)

\* A step that throws: VS Code drops its edits.
Rejected == step' = Idle /\ past' = << >> /\ future' = << >>

\* Mutant: nothing reads the file after the release.
ReleasedSilently == read' = Idle /\ UNCHANGED due

\* Release of the guard: reads of a transient image are void, and a fresh one is due.
Released == read' = Idle /\ due' = TRUE

BeginStep(s) ==
  \/ /\ text = From(s)
     /\ step' = s
     /\ IF s.dir = "undo"
          THEN past' = SubSeq(past, 1, Len(past) - 1) /\ future' = << s.unit >> \o future
          ELSE past' = Append(past, s.unit) /\ future' = Tail(future)
     /\ IF Journaled(s.unit)
          THEN read' = Idle /\ Enters({"step"}, {"read"})
          ELSE UNCHANGED read /\ Enters({"step"}, {})
     /\ raced' = (raced \/ (Journaled(s.unit) /\ save.stage # "none"))
  \/ /\ text # From(s)
     /\ Rejected /\ UNCHANGED <<current, read, raced>>

Undo ==
  /\ step.stage = "none" /\ Gesture /\ past # << >>
  /\ BeginStep([stage |-> "away", dir |-> "undo", unit |-> past[Len(past)]])
  /\ UNCHANGED <<file, text, baseline, history, sameGen, save, revert, txn, strayed, overlooked>>

Redo ==
  /\ step.stage = "none" /\ Gesture /\ future # << >>
  /\ BeginStep([stage |-> "away", dir |-> "redo", unit |-> future[1]])
  /\ UNCHANGED <<file, text, baseline, history, sameGen, save, revert, txn, strayed, overlooked>>

\* The registration's undo() or redo() moves the file, or fails before or after that.
StepFile ==
  /\ step.stage = "away" /\ Journaled(step.unit)
  /\ \/ /\ disk = FileFrom(step)
        /\ SetDisk(FileTo(step)) /\ step' = [step EXCEPT !.stage = "landed"]
        /\ raced' = (raced \/ disk # saved)
        /\ UNCHANGED <<stack, read, current>>
     \/ /\ \/ UNCHANGED disk
           \/ disk = FileFrom(step) /\ disk' = FileTo(step)
        /\ Rejected /\ Released /\ Enters({}, {"step", "read"}) /\ UNCHANGED raced
  /\ UNCHANGED <<text, baseline, history, sameGen, save, revert, txn, strayed, overlooked, gestures>>

\* moveHistory(): the generation changes when the unit has left the window.
Aligned(id, dir, source) ==
  /\ history' = Align(history, id, dir, source)
  /\ sameGen' = (sameGen /\ Contains(history, id))

\* The source follows, unless the document was revised meanwhile.
StepSource ==
  /\ SourceIsNext
  /\ "step" \in current
  /\ text' = To(step) /\ Revised
  /\ IF Journaled(step.unit)
       THEN saved' = FileTo(step) /\ unknown' = FALSE /\ Released
       ELSE UNCHANGED <<saved, unknown, read, due>>
  /\ \/ /\ CanAlign(history, step.unit.id, step.dir)
        /\ Aligned(step.unit.id, step.dir, To(step))
        /\ step' = [step EXCEPT !.stage = "redraw"] /\ UNCHANGED stack
     \/ /\ ~CanAlign(history, step.unit.id, step.dir)
        /\ Rejected /\ UNCHANGED <<history, sameGen>>
  /\ UNCHANGED <<disk, manual, save, revert, txn, ghosts, gestures>>

\* Resources that could not be moved, or preserveSourceAfterHistoryRace, which moves them
\* back or leaves that to the user.
StepFails ==
  /\ SourceIsNext
  /\ \/ /\ ~Journaled(step.unit)
        /\ \/ UNCHANGED manual
           \/ "step" \notin current /\ manual' = TRUE
        /\ Enters({}, {"step"}) /\ UNCHANGED <<file, read>>
     \/ /\ Journaled(step.unit) /\ "step" \notin current
        /\ \/ disk = FileTo(step) /\ disk' = FileFrom(step) /\ UNCHANGED manual
           \/ manual' = TRUE /\ UNCHANGED disk
        /\ Released /\ Enters({}, {"step", "read"})
  /\ Rejected
  /\ UNCHANGED <<text, saved, unknown, history, sameGen, save, revert, txn, ghosts, gestures>>

\* After the redraw the history is aligned once more; this or the redraw may throw.
StepEnd ==
  /\ step.stage = "redraw"
  /\ \/ /\ CanAlign(history, step.unit.id, step.dir)
        /\ Aligned(step.unit.id, step.dir, text)
        /\ step' = Idle /\ UNCHANGED stack
     \/ Rejected /\ UNCHANGED <<history, sameGen>>
  /\ UNCHANGED <<file, text, baseline, current, save, read, revert, txn, ghosts, gestures>>

------------------------------------------------------------------------------
(* Save: save() and flushToDisk(). *)

SaveBegin ==
  /\ save.stage = "none" /\ Gesture /\ ~ReadOnly
  /\ save' = [stage |-> "begun", snapshot |-> text, id |-> TokenId(history)]
  /\ sameGen' = TRUE /\ raced' = (raced \/ GuardHeld)
  /\ UNCHANGED <<file, text, baseline, history, stack, current, step, read, revert, txn, strayed, overlooked>>

\* The file must still be what this document last saw.
SaveCheck ==
  /\ save.stage = "begun"
  /\ \/ disk = saved /\ save' = [save EXCEPT !.stage = "checked"]
     \/ save' = Idle
  /\ UNCHANGED <<file, text, baseline, history, stack, current, sameGen, step, read, revert, txn, ghosts, gestures>>

\* The file is replaced, or the write rejects before or after.
SaveWrite ==
  /\ save.stage = "checked"
  /\ \/ SetDisk(save.snapshot) /\ save' \in {Idle, [save EXCEPT !.stage = "written"]}
        /\ raced' = (raced \/ disk # saved)
     \/ UNCHANGED <<file, raced>> /\ save' = Idle
  /\ UNCHANGED <<text, baseline, history, stack, current, sameGen, step, read, revert, txn, strayed, overlooked, gestures>>

SaveEnd ==
  /\ save.stage = "written"
  /\ saved' = save.snapshot
  /\ history' = Checkpoint(history, save.snapshot, save.id, sameGen)
  /\ save' = Idle
  /\ raced' = (raced \/ disk # save.snapshot)
  /\ UNCHANGED <<file, text, unknown, manual, stack, current, sameGen, step, read, revert, txn, strayed, overlooked, gestures>>

------------------------------------------------------------------------------
(* The file is adopted: reloadFromDiskIfClean and adoptDiskImage. *)

Adopted(image) ==
  /\ text' = image /\ saved' = image /\ unknown' = FALSE
  /\ history' = Reset(image, TRUE) /\ sameGen' = FALSE
  /\ Revised
  /\ strayed' = FALSE

\* A debounced reload reads the file.  A newer one supersedes the one before.
ReadFile ==
  /\ due
  /\ read' \in {[stage |-> "done", image |-> disk], [stage |-> "failed"]}
  /\ due' = FALSE /\ Enters({"read"}, {})
  /\ UNCHANGED <<disk, text, baseline, history, stack, sameGen, step, save, revert, txn, ghosts, gestures>>

Reload ==
  /\ read.stage # "none" /\ read' = Idle
  /\ \/ /\ "read" \notin current
        /\ due' = TRUE
        /\ UNCHANGED <<text, baseline, history, current, sameGen, strayed, overlooked>>
     \/ /\ "read" \in current /\ read.stage = "failed"
        /\ unknown' = TRUE /\ Enters({}, {"read"})
        /\ UNCHANGED <<due, text, saved, manual, history, sameGen, strayed, overlooked>>
     \/ /\ "read" \in current /\ read.stage = "done"
        /\ \/ read.image \in Owned
           \/ read.image \notin Owned /\ ~NeedsRecoveryBackup /\ read.image = text /\ ~ReadOnly
        /\ Enters({}, {"read"})
        /\ UNCHANGED <<due, text, baseline, history, sameGen, strayed, overlooked>>
     \/ /\ "read" \in current /\ read.stage = "done" /\ read.image \notin Owned
        /\ NeedsRecoveryBackup
        /\ overlooked' = TRUE /\ Enters({}, {"read"})
        /\ UNCHANGED <<due, text, saved, unknown, manual, history, sameGen, strayed>>
     \/ /\ "read" \in current /\ read.stage = "done" /\ read.image \notin Owned
        /\ ~NeedsRecoveryBackup /\ (read.image # text \/ ReadOnly)
        /\ Adopted(read.image) /\ overlooked' = FALSE
        /\ UNCHANGED <<due, manual>>
  /\ UNCHANGED <<disk, stack, step, save, revert, txn, raced, gestures>>

\* File > Revert: VS Code moves to some save point of its own and awaits nothing, the
\* document reads.
RevertBegin ==
  /\ revert.stage = "none" /\ Gesture
  /\ LET all == past \o future IN
       \E n \in 0 .. Len(all) : past' = SubSeq(all, 1, n) /\ future' = << >>
  /\ strayed' = (strayed \/ past' # past)
  /\ \/ revert' = [stage |-> "done", image |-> disk] /\ UNCHANGED unknown
     \/ unknown' = TRUE /\ UNCHANGED revert
  /\ UNCHANGED <<file, text, saved, manual, history, current, sameGen, step, save, read, txn, raced, overlooked>>

RevertEnd ==
  /\ revert.stage = "done"
  /\ Adopted(revert.image) /\ revert' = Idle /\ overlooked' = (revert.image # disk)
  /\ UNCHANGED <<file, manual, stack, step, save, read, txn, raced, gestures>>

------------------------------------------------------------------------------
(* commitResourceSetThroughRunner with the source as a target of its transaction.  The
   runner is abstracted to its outcomes; Transaction has it. *)

TxnEnds == txn' = Idle /\ Released

TxnBegin ==
  /\ txn.stage = "none" /\ Gesture /\ ~ReadOnly
  /\ \E after \in Text \ {text} :
       txn' = [stage |-> "begun", before |-> text, base |-> saved, after |-> after]
  /\ read' = Idle /\ Enters({"txn"}, {"read"})
  /\ raced' = (raced \/ save.stage # "none")
  /\ UNCHANGED <<file, text, baseline, history, stack, sameGen, step, save, revert, strayed, overlooked>>

\* The targets are compared and written; a file that differs aborts the run.
TxnWrite ==
  /\ txn.stage = "begun"
  /\ \/ /\ disk = txn.base
        /\ SetDisk(txn.after) /\ UNCHANGED <<read, current>>
        /\ txn' \in {[txn EXCEPT !.stage = s] : s \in {"written", "refused"}}
     \/ TxnEnds /\ Enters({}, {"txn", "read"}) /\ UNCHANGED disk
  /\ UNCHANGED <<text, baseline, history, stack, sameGen, step, save, revert, ghosts, gestures>>

Preflight == text = txn.before /\ "txn" \in current /\ ~ReadOnly

\* Postconditions and registerUndo; any other gate may refuse as well.
TxnVerify ==
  /\ txn.stage = "written"
  /\ \/ disk = txn.after /\ Preflight /\ txn' = [txn EXCEPT !.stage = "verified"]
     \/ txn' = [txn EXCEPT !.stage = "refused"]
  /\ UNCHANGED <<file, text, baseline, history, stack, current, sameGen, step, save, read, revert, ghosts, gestures>>

\* commit() once the journal is durable.
TxnCommit ==
  /\ txn.stage = "verified"
  /\ \/ /\ Preflight
        /\ Applied(txn.after, txn.base)
        /\ saved' = txn.after /\ unknown' = FALSE
        /\ manual' = (manual \/ past' = past)   \* record() has thrown
        /\ TxnEnds
     \/ /\ txn' = [txn EXCEPT !.stage = "refused"]
        /\ UNCHANGED <<due, text, saved, unknown, manual, history, stack, current, sameGen, read, strayed>>
  /\ UNCHANGED <<disk, step, save, revert, raced, overlooked, gestures>>

\* The runner restores the file it owns, or leaves the decision to the user.
TxnRollBack ==
  /\ txn.stage = "refused"
  /\ \/ /\ disk \in {txn.after, txn.base}
        /\ SetDisk(txn.base) /\ txn' = [txn EXCEPT !.stage = "reconcile"]
        /\ UNCHANGED <<manual, read, current>>
     \/ manual' = TRUE /\ TxnEnds /\ Enters({}, {"txn", "read"}) /\ UNCHANGED disk
  /\ UNCHANGED <<text, saved, unknown, history, stack, sameGen, step, save, revert, ghosts, gestures>>

\* reconcileRolledBackSourceTransaction: a document that shows the image of the edit
\* gets the source from before it.
TxnReconcile ==
  /\ txn.stage = "reconcile"
  /\ \/ /\ disk = txn.base
        /\ saved' = txn.base /\ unknown' = FALSE
        /\ IF text = txn.after THEN text' = txn.before /\ Revised ELSE UNCHANGED text /\ Enters({}, {"txn", "read"})
     \/ UNCHANGED <<text, saved, unknown>> /\ Enters({}, {"txn", "read"})
  /\ TxnEnds
  /\ strayed' = (strayed \/ text' # text \/ saved' # saved)
  /\ UNCHANGED <<disk, manual, history, stack, sameGen, step, save, revert, raced, overlooked, gestures>>

------------------------------------------------------------------------------
Init ==
  /\ disk \in Text /\ due = FALSE
  /\ text = disk /\ saved = disk /\ unknown = FALSE /\ manual = FALSE
  /\ history = Reset(disk, TRUE)
  /\ past = << >> /\ future = << >> /\ current = {} /\ sameGen = FALSE
  /\ step = Idle /\ save = Idle /\ read = Idle /\ revert = Idle /\ txn = Idle
  /\ strayed = FALSE /\ raced = FALSE /\ overlooked = FALSE /\ gestures = 0

Next ==
  \/ ForeignWrite \/ Edit
  \/ Undo \/ Redo \/ StepFile \/ StepSource \/ StepFails \/ StepEnd
  \/ SaveBegin \/ SaveCheck \/ SaveWrite \/ SaveEnd
  \/ ReadFile \/ Reload \/ RevertBegin \/ RevertEnd
  \/ TxnBegin \/ TxnWrite \/ TxnVerify \/ TxnCommit \/ TxnRollBack \/ TxnReconcile

Spec == Init /\ [][Next]_vars

------------------------------------------------------------------------------
(* Properties *)

\* The history's cursor is at the source, so that a backup of both can be written: the
\* code throws "document history does not match the current source" when it is not
\* (documentHistory.ts:190).  A Revert during a journaled edit that is then refused, a failed
\* Revert, and a record() that throws after the source was replaced break it; strayed
\* records them.
CursorMatches == CurrentSource(history) = text

\* Edits, native steps, saves, reads, Reverts and transactions in any order leave the
\* cursor at the source, unless the source was moved behind the history.
CursorMatchesUnlessStrayed == strayed \/ CursorMatches

\* A document aligns its history twice in a step: when it takes the source, and after the
\* redraw (moveHistory in the closure and in fireDocumentEdit).  The first alignment always
\* finds its unit next to the cursor or trimmed.  Only one thing makes the second throw
\* "document history operation order is stale" (documentHistory.ts:146), an edit during the
\* redraw of a Redo; the unit is applied then, below that edit.  (The comment at
\* documentHistory.ts:155-156 would have no successful callback rejected at all.)
StepsFindTheirUnits ==
  ~strayed =>
    /\ SourceIsNext /\ "step" \in current => CanAlign(history, step.unit.id, step.dir)
    /\ step.stage = "redraw" =>
         \/ CanAlign(history, step.unit.id, step.dir)
         \/ step.dir = "redo" /\ \E p \in Position(history, step.unit.id) : p < history.active

\* A history that is at its checkpoint belongs to a source that is saved: whatever edits,
\* steps and trims fall into a save, and however old the edit is that it names, a clean
\* mark never covers unsaved source (checkpoint() and trim()).
CleanHistoryIsSaved == ~HistoryDirty(history) /\ ~strayed /\ ~raced => text = saved

\* A clean document that does not show the file is about to read it: no read that was
\* superseded, discarded or made under a transaction loses a change of another program
\* (scheduleRerender in stillCurrent and in the release of the guard).
NoChangeIsForgotten ==
  text # disk /\ ~NeedsRecoveryBackup /\ ~ReadOnly /\ ~raced
    => due \/ read.stage # "none" \/ revert.stage # "none" \/ GuardHeld \/ overlooked

------------------------------------------------------------------------------
(* The inductive invariant under CursorMatchesUnlessStrayed. *)

TypeOK ==
  /\ disk \in Text /\ text \in Text /\ saved \in Text
  /\ history \in History /\ history.active <= Len(history.units)
  /\ past \in Seq(Unit) /\ future \in Seq(Unit)
  /\ step \in {Idle} \cup
       [stage : {"away", "landed", "redraw"}, dir : {"undo", "redo"}, unit : Unit]
  /\ save \in {Idle} \cup
       [stage : {"begun", "checked", "written"}, snapshot : Text, id : Id \cup {NoEdit}]
  /\ read \in {Idle, [stage |-> "failed"]} \cup [stage : {"done"}, image : Text]
  /\ revert \in {Idle} \cup [stage : {"done"}, image : Text]
  /\ txn \in {Idle} \cup
       [stage : {"begun", "written", "refused", "verified", "reconcile"},
        before : Text, base : Text, after : Text]

\* Every unit begins where the one before it ended, and no two have one name.
Chained(h) ==
  /\ \A i \in DOMAIN h.units : h.units[i].before = Source(h, i - 1)
  /\ \A i, j \in DOMAIN h.units : h.units[i].id = h.units[j].id => i = j

\* A unit of VS Code's that the history retains is the one at position p of it.
At(h, unit, p) == \A i \in DOMAIN h.units : h.units[i].id = unit.id => i = p /\ h.units[i] = unit

\* VS Code moves its stack when a step begins, the history follows with the source.
Moving == step.stage \in {"away", "landed"}
Ahead  == IF ~Moving THEN 0 ELSE IF step.dir = "undo" THEN -1 ELSE 1
StacksAgree ==
  /\ \A i \in DOMAIN past : At(history, past[i], (history.active + Ahead) - (Len(past) - i))
  /\ \A i \in DOMAIN future : At(history, future[i], (history.active + Ahead) + i)

\* A step whose document was not revised finds its unit where it must be.
StepIsNext ==
  /\ text = From(step)
  /\ At(history, step.unit, IF step.dir = "undo" THEN history.active ELSE history.active + 1)

\* After a step its unit is not in front of the cursor a second time.
StepIsDone ==
  \A i \in Position(history, step.unit.id) :
    IF step.dir = "undo" THEN i = history.active + 1 ELSE i <= history.active

Sound ==
  /\ CursorMatches /\ Chained(history)
  /\ (Moving => "step" \in current) => StacksAgree
  /\ Moving /\ "step" \in current => StepIsNext
  /\ step.stage = "redraw" => StepIsDone

IInv == TypeOK /\ (strayed \/ Sound)

------------------------------------------------------------------------------
(* The strengthening of CleanHistoryIsSaved: where the saved source is, seen from the
   cursor. *)

\* No edit between two positions, or between one and the cursor, was journaled.
Plain(h, i, j) == \A m \in DOMAIN h.units : i < m /\ m <= j => ~Journaled(h.units[m])
Near(h, p)     == Plain(h, p, h.active) /\ Plain(h, h.active, p)

\* The marked position has the saved source; where journaled edits lie between it and the
\* cursor, the one nearest to it brings that source back when it is stepped over.
MarkIsSaved(h, source) ==
  LET c == h.checkpoint IN
  c # NoCheckpoint =>
    /\ c <= Len(h.units)
    /\ Near(h, c) => Source(h, c) = source
    /\ \A m \in DOMAIN h.units :
         /\ c < m /\ m <= h.active /\ Journaled(h.units[m]) /\ Plain(h, c, m - 1)
              => h.units[m].disk = Source(h, c)
         /\ h.active < m /\ m <= c /\ Journaled(h.units[m]) /\ Plain(h, m, c)
              => h.units[m].after = Source(h, c)

\* No journaled edit is recorded or stepped over while a save runs.
TokenIsNear ==
  save.stage # "none" => \A p \in Places(history, save.id, sameGen) : Near(history, p)

\* What a journaled step or edit found in the file is what the document last saw there.
StepSawFile ==
  step.stage = "landed" /\ Journaled(step.unit) /\ "step" \in current => saved = FileFrom(step)
TxnSawFile  == txn.stage # "none" /\ "txn" \in current => saved = txn.base

Marked == MarkIsSaved(history, saved) /\ TokenIsNear /\ StepSawFile /\ TxnSawFile

\* A save and a journaled edit, or a step over one, that overlap are noted.
Apart == save.stage # "none" /\ GuardHeld => raced

MInv == Apart /\ (strayed \/ raced \/ Marked)

\* The strengthening of NoChangeIsForgotten: the same of the saved source, whatever the
\* document shows, and of a read that an outside change made old.
WInv ==
  /\ read.stage = "done" /\ read.image # disk => due
  /\ saved # disk /\ ~ReadOnly /\ ~raced
       => due \/ read.stage # "none" \/ revert.stage # "none" \/ GuardHeld \/ overlooked
=============================================================================
