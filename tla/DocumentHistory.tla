---------------------------- MODULE DocumentHistory ----------------------------
(***************************************************************************)
(* The bounded logical history of a designer document                      *)
(* (extension/src/documentHistory.ts), as operators on a record:           *)
(*   base        the source below the oldest retained unit                 *)
(*   units       the retained edits, oldest first                          *)
(*   active      how many of them are applied                              *)
(*   checkpoint  the position that was saved, NoCheckpoint for null        *)
(* Companion code buffers, signatures and byte counts are left out; what   *)
(* the byte limit drops is a choice of the caller.                         *)
(***************************************************************************)
EXTENDS Integers, Sequences

CONSTANTS
  Text,     \* the images a source can have
  Id,       \* names of edits (randomUUID)
  NoImage,
  NoEdit,
  Limit     \* DOCUMENT_HISTORY_LIMIT

ASSUME NamesAssumption == NoImage \notin Text /\ NoEdit \notin Id
ASSUME LimitAssumption == Limit \in Nat

NoCheckpoint == -1

\* disk: the image a journaled edit found in the file and replaced, NoImage when the
\* edit left the file alone.
Unit == [id : Id, before : Text, after : Text, disk : Text \cup {NoImage}]

History == [base : Text, units : Seq(Unit), active : Nat, checkpoint : Nat \cup {NoCheckpoint}]

Source(h, i)     == IF i = 0 THEN h.base ELSE h.units[i].after
CurrentSource(h) == Source(h, h.active)
HistoryDirty(h)  == h.checkpoint # h.active
Position(h, id)  == {i \in DOMAIN h.units : h.units[i].id = id}
Contains(h, id)  == Position(h, id) # {}

\* The edit the next saved checkpoint is named after.
TokenId(h) == IF h.active = 0 THEN NoEdit ELSE h.units[h.active].id

Reset(source, clean) ==
  [base |-> source, units |-> << >>, active |-> 0, checkpoint |-> IF clean THEN 0 ELSE NoCheckpoint]

\* Mutant: the saved position is not moved along with the units.
ShedKeepsCheckpoint(h, k) ==
  [base       |-> Source(h, k),
   units      |-> SubSeq(h.units, k + 1, Len(h.units)),
   active     |-> h.active - k,
   checkpoint |-> h.checkpoint]

\* Mutant: the source under the dropped units is not kept.
ShedKeepsBase(h, k) ==
  [base       |-> h.base,
   units      |-> SubSeq(h.units, k + 1, Len(h.units)),
   active     |-> h.active - k,
   checkpoint |-> IF h.checkpoint < k THEN NoCheckpoint ELSE h.checkpoint - k]

\* trim(): the k oldest units are folded into the base.
Shed(h, k) ==
  [base       |-> Source(h, k),
   units      |-> SubSeq(h.units, k + 1, Len(h.units)),
   active     |-> h.active - k,
   checkpoint |-> IF h.checkpoint < k THEN NoCheckpoint ELSE h.checkpoint - k]

\* record() before trim(): the redo branch goes, and a checkpoint on it.
Record(h, unit) ==
  [base       |-> h.base,
   units      |-> Append(SubSeq(h.units, 1, h.active), unit),
   active     |-> h.active + 1,
   checkpoint |-> IF h.checkpoint > h.active THEN NoCheckpoint ELSE h.checkpoint]

\* How many units trim() may drop: the limit's excess at least, any more for the bytes.
Excess(h) == {k \in 0 .. Len(h.units) : Len(h.units) - k <= Limit}

\* moved(): Undo takes the last applied unit, Redo the first one that is not.
CanMove(h, id, dir) ==
  IF dir = "undo" THEN h.active > 0 /\ h.units[h.active].id = id
                  ELSE h.active < Len(h.units) /\ h.units[h.active + 1].id = id
Moved(h, dir) == [h EXCEPT !.active = IF dir = "undo" THEN @ - 1 ELSE @ + 1]

\* The cursor is already where it must be after a native step.
InPlace(h, id, dir) == (IF dir = "undo" THEN h.active + 1 ELSE h.active) \in Position(h, id)

\* Mutant: the move of a retained unit is left to the native stack.
AlignStays(h, id, dir, source) == IF ~Contains(h, id) THEN Reset(source, FALSE) ELSE h

\* alignAfterNativeMove(): whether it can bring the cursor there, or throws.  A unit
\* outside the window resets the history.
CanAlign(h, id, dir) == ~Contains(h, id) \/ InPlace(h, id, dir) \/ CanMove(h, id, dir)
Align(h, id, dir, source) ==
  IF ~Contains(h, id) THEN Reset(source, FALSE)
  ELSE IF InPlace(h, id, dir) THEN h
  ELSE Moved(h, dir)

\* The place a token names: the one of its edit, or the base of its own generation.
Places(h, id, sameGeneration) ==
  IF id = NoEdit THEN {i \in {0} : sameGeneration} ELSE Position(h, id)

\* checkpoint(): the place the token names, if it still has the saved source.
Checkpoint(h, source, id, sameGeneration) ==
  LET saved == {i \in Places(h, id, sameGeneration) : Source(h, i) = source}
  IN [h EXCEPT !.checkpoint = IF saved = {} THEN NoCheckpoint ELSE CHOOSE i \in saved : TRUE]
=============================================================================
