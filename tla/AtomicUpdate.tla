----------------------------- MODULE AtomicUpdate -----------------------------
(***************************************************************************)
(* What a multi-file transaction promises its caller: all of its targets   *)
(* are written, or none is, or a person is asked.  A verdict is final for  *)
(* the files: only an outside writer, or an undo, changes them after it.   *)
(***************************************************************************)
CONSTANT Target

VARIABLES
  image,    \* each target: "base", "after", "other", or "outside" once someone else wrote it last
  verdict   \* "open", "committed", "reverted" or "manual"

Whole(v) == \A t \in Target : image[t] \in {v, "outside"}

Init == image = [t \in Target |-> "base"] /\ verdict = "open"

\* While no verdict is reached the transaction moves bytes of its own.
Work ==
  /\ verdict = "open" /\ verdict' = "open"
  /\ \E t \in Target, v \in {"base", "after"} : image' = [image EXCEPT ![t] = v]

Commit == verdict = "open" /\ Whole("after") /\ verdict' = "committed" /\ UNCHANGED image
Revert == verdict = "open" /\ Whole("base") /\ verdict' = "reverted" /\ UNCHANGED image
GiveUp == verdict = "open" /\ verdict' = "manual" /\ UNCHANGED image

\* The caller asks for an undo: of a commit, or again of one that needed a person.
Reopen == verdict \in {"committed", "manual"} /\ verdict' = "open" /\ UNCHANGED image

Outside == \E t \in Target : image' = [image EXCEPT ![t] = "outside"] /\ UNCHANGED verdict

Next == Work \/ Commit \/ Revert \/ GiveUp \/ Reopen \/ Outside

Spec == Init /\ [][Next]_<<image, verdict>>
=============================================================================
