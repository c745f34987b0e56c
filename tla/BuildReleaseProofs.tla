-------------------------- MODULE BuildReleaseProofs --------------------------
(* However many builds, tasks, forms and workers there are: the depth counts *)
(* the ends that are owed, the previews are live only when nothing is being  *)
(* released, and no render leaves the host while a build holds the output.   *)
EXTENDS BuildRelease, FiniteSetTheorems, TLAPS

(* A set and its size with one member more. *)
LEMMA OneMore ==
  ASSUME NEW S, NEW T, NEW x, IsFiniteSet(S), x \notin S, T = S \cup {x}
  PROVE  IsFiniteSet(T) /\ Cardinality(T) = Cardinality(S) + 1
BY FS_AddElement

(* A set and its size with one member less. *)
LEMMA OneLess ==
  ASSUME NEW S, NEW T, NEW x, IsFiniteSet(S), x \in S, T = S \ {x}
  PROVE  IsFiniteSet(T) /\ Cardinality(T) = Cardinality(S) - 1
BY FS_RemoveElement

(* Finitely many owners owe an end or wait for a start event, however many there may be. *)
LEMMA Finite ==
  ASSUME DepthIsOwed
  PROVE  /\ IsFiniteSet(Owed) /\ Cardinality(Owed) \in Nat
         /\ IsFiniteSet(Waiting) /\ Cardinality(Waiting) \in Nat
BY FS_CardinalityType DEF DepthIsOwed

(* What a step may do to the phase of one owner and to the two counters.   *)
LEMMA PhaseChange ==
  ASSUME TypeOK, NEW o \in Owners, NEW p, owner' = [owner EXCEPT ![o] = p]
  PROVE  /\ Owed' = {q \in Owners : IF q = o THEN p \in {"pending", "finishing", "releasing",
                                                          "running", "ended"}
                                    ELSE Owes(q)}
         /\ Waiting' = {c \in Commands : IF c = o THEN p = "executing" ELSE owner[c] = "executing"}
BY DEF TypeOK, Owed, Owes, Waiting, Owners

(* Nothing is owed, suspended or released in a new window. *)
LEMMA Initially == Init => IInv
<1> SUFFICES ASSUME Init PROVE IInv
  OBVIOUS
<1> USE BuildAssumption DEF BuildAssumption
<1>1. TypeOK
  <2>1. Done \in [stage : {"rpc", "recycle", "done"}, at : Workers \cup {None},
                  left : SUBSET Workers]
    BY DEF Done
  <2>2. rel \in [Owners -> [stage : {"rpc", "recycle", "done"}, at : Workers \cup {None},
                            left : SUBSET Workers]]
    BY <2>1 DEF Init
  <2>3. 0 \in 0..MaxWaits /\ 0 \in 0..MaxWrites
    OBVIOUS
  <2> QED BY <2>2, <2>3 DEF Init, TypeOK
<1>2. Owed = {} /\ Waiting = {}
  BY DEF Init, Owed, Owes, Waiting, Owners
<1>3. DepthIsOwed
  BY <1>2, FS_EmptySet DEF Init, DepthIsOwed
<1> QED BY <1>1, <1>3 DEF Init, IInv, Done

-------------------------------------------------------------------------------
(* The parts actions share.                                                  *)

Releases == [stage : {"rpc", "recycle", "done"}, at : Workers \cup {None}, left : SUBSET Workers]
Queues == [Workers -> SUBSET (Forms \cup Owners)]
FormsTyped ==
  /\ net48 \in [Forms -> BOOLEAN] /\ suspended \in [Forms -> BOOLEAN]
  /\ render \in [Forms -> {"none", "starting", "prepared"}]
Untold == depth = 0 => \A f \in Forms : ~suspended[f]

(* What beginNet48Task does to the depth and to the forms. *)
LEMMA BeginDoes ==
  ASSUME TypeOK, Begin
  PROVE  depth' = depth + 1 /\ depth' \in Nat /\ FormsTyped' /\ Untold'
BY DEF TypeOK, Begin, FormsTyped, Untold

(* What endNet48Task does to them. *)
LEMMA EndDoes ==
  ASSUME TypeOK, End, depth > 0
  PROVE  depth' = depth - 1 /\ depth' \in Nat /\ FormsTyped' /\ Untold'
<1>1. depth' = depth - 1 /\ depth' \in Nat
  BY DEF TypeOK, End
<1>2. FormsTyped'
  BY DEF TypeOK, End, FormsTyped
<1>3. Untold'
  BY DEF TypeOK, End, Untold
<1> QED BY <1>1, <1>2, <1>3

(* The next worker of a release is the business of its owner alone. *)
LEMMA ReleaseAtDoes ==
  ASSUME TypeOK, NEW o \in Owners, NEW left \in SUBSET Workers, NEW q \in Queues,
         ReleaseAt(o, left, q)
  PROVE  rel' \in [Owners -> Releases] /\ queue' \in Queues
         /\ \A p \in Owners : p # o => rel'[p] = rel[p]
<1>1. CASE rel' = [rel EXCEPT ![o] = Done] /\ queue' = q
  BY <1>1 DEF TypeOK, Releases, Done
<1>2. ASSUME NEW w \in left,
             rel' = [rel EXCEPT ![o] = [stage |-> "rpc", at |-> w, left |-> left \ {w}]],
             queue' = [q EXCEPT ![w] = @ \cup {o}]
      PROVE  rel' \in [Owners -> Releases] /\ queue' \in Queues
             /\ \A p \in Owners : p # o => rel'[p] = rel[p]
  <2>1. [stage |-> "rpc", at |-> w, left |-> left \ {w}] \in Releases
    BY DEF Releases
  <2> QED BY <1>2, <2>1 DEF TypeOK, Releases, Queues
<1> QED BY <1>1, <1>2 DEF ReleaseAt

(* So is a recycle. *)
LEMMA RecycleDoes ==
  ASSUME TypeOK, NEW o \in Owners, Recycle(o)
  PROVE  rel' \in [Owners -> Releases] /\ worker' \in [Workers -> {"up", "killed", "gone"}]
         /\ \A p \in Owners : p # o => rel'[p] = rel[p]
<1>1. [rel[o] EXCEPT !.stage = "recycle"] \in Releases
  BY DEF TypeOK, Releases
<1>2. rel' = [rel EXCEPT ![o] = [rel[o] EXCEPT !.stage = "recycle"]]
  BY DEF Recycle, TypeOK
<1> QED BY <1>1, <1>2 DEF Recycle, TypeOK, Releases

(* What IInv asks of a step, part by part.                                   *)
LEMMA Parts ==
  ASSUME TypeOK', DepthIsOwed', Untold', (build # None => owner[build] = "pending")',
         (\A o \in Owners : Owes(o) \/ rel[o].stage = "done")'
  PROVE  IInv'
BY DEF IInv, Untold

(* A step that begins for o, or takes a reservation instead of beginning.    *)
LEMMA OneOwnerMore ==
  ASSUME TypeOK, DepthIsOwed, NEW o \in Owners, ~Owes(o), NEW p,
         p \in {"pending", "releasing", "running"}, owner' = [owner EXCEPT ![o] = p],
         \/ /\ depth' = depth + 1 /\ reserved' = reserved
            /\ owner[o] = "executing" => reserved = 0
         \/ /\ depth' = depth /\ reserved' = reserved - 1 /\ reserved > 0
  PROVE  DepthIsOwed'
<1> DEFINE owed == Cardinality(Owed)  waiting == Cardinality(Waiting)
<1>n. /\ depth \in Nat /\ reserved \in Nat /\ owed \in Nat /\ waiting \in Nat
      /\ depth = owed + reserved /\ reserved <= waiting
  BY Finite DEF TypeOK, DepthIsOwed
<1>0. /\ Owed' = {q \in Owners : q = o \/ Owes(q)}
      /\ Waiting' = {c \in Commands : c # o /\ owner[c] = "executing"}
  BY PhaseChange
<1>1. Owed' = Owed \cup {o} /\ o \notin Owed
  BY <1>0 DEF Owed
<1>2. Waiting' = Waiting \ {o}
  BY <1>0 DEF Waiting
<1>3. IsFiniteSet(Owed') /\ Cardinality(Owed') = Cardinality(Owed) + 1
  BY <1>1, Finite, OneMore
<1>4. depth' = Cardinality(Owed') + reserved'
  BY <1>3, <1>n
<1>5. CASE owner[o] # "executing"
  <2>1. Waiting' = Waiting
    BY <1>2, <1>5 DEF Waiting
  <2> QED BY <1>3, <1>4, <2>1, <1>n, Finite DEF DepthIsOwed
<1>6. CASE owner[o] = "executing" /\ o \in Commands
  <2>1. o \in Waiting
    BY <1>6 DEF Waiting
  <2>2. /\ IsFiniteSet(Waiting') /\ Cardinality(Waiting') = waiting - 1
        /\ Cardinality(Waiting') \in Nat
    BY <1>2, <2>1, Finite, OneLess, FS_CardinalityType
  <2> QED BY <1>3, <1>4, <1>6, <2>2, <1>n DEF DepthIsOwed
<1>7. CASE owner[o] = "executing" /\ o \notin Commands
  <2>1. Waiting' = Waiting
    BY <1>2, <1>7 DEF Waiting
  <2> QED BY <1>3, <1>4, <1>7, <2>1, <1>n, Finite DEF DepthIsOwed
<1> QED BY <1>5, <1>6, <1>7

(* A step that ends for o. *)
LEMMA OneOwnerLess ==
  ASSUME TypeOK, DepthIsOwed, NEW o \in Owners, Owes(o), owner' = [owner EXCEPT ![o] = "over"],
         depth' = depth - 1, reserved' = reserved
  PROVE  DepthIsOwed'
<1> DEFINE owed == Cardinality(Owed)  waiting == Cardinality(Waiting)
<1>n. /\ depth \in Nat /\ reserved \in Nat /\ owed \in Nat /\ waiting \in Nat
      /\ depth = owed + reserved /\ reserved <= waiting
  BY Finite DEF TypeOK, DepthIsOwed
<1> DEFINE p == "over"
<1> HIDE DEF p
<1>p. p \notin {"pending", "finishing", "releasing", "running", "ended", "executing"}
  BY DEF p
<1>c. owner' = [owner EXCEPT ![o] = p]
  BY DEF p
<1>d. /\ Owed' = {q \in Owners : IF q = o THEN p \in {"pending", "finishing", "releasing",
                                                       "running", "ended"}
                                 ELSE Owes(q)}
      /\ Waiting' = {c \in Commands : IF c = o THEN p = "executing" ELSE owner[c] = "executing"}
  BY <1>c, PhaseChange
<1>0. /\ Owed' = {q \in Owners : q # o /\ Owes(q)}
      /\ Waiting' = {c \in Commands : c # o /\ owner[c] = "executing"}
  BY <1>d, <1>p
<1>1. Owed' = Owed \ {o} /\ o \in Owed
  BY <1>0 DEF Owed
<1>2. Waiting' = Waiting
  BY <1>0 DEF Waiting, Owes
<1>3. IsFiniteSet(Owed') /\ Cardinality(Owed') = Cardinality(Owed) - 1
  BY <1>1, Finite, OneLess
<1> QED BY <1>2, <1>3, <1>n, Finite DEF DepthIsOwed

(* While an end is owed the depth is not zero. *)
LEMMA OwingIsDeep ==
  ASSUME TypeOK, DepthIsOwed, NEW o \in Owners, Owes(o)
  PROVE  depth > 0
<1>1. o \in Owed
  BY DEF Owed
<1>2. Cardinality(Owed \ {o}) = Cardinality(Owed) - 1 /\ Cardinality(Owed \ {o}) \in Nat
  BY <1>1, Finite, OneLess, FS_CardinalityType
<1> QED BY <1>2, Finite DEF TypeOK, DepthIsOwed

(* A step that moves no owner keeps the account. *)
LEMMA CountKept ==
  ASSUME DepthIsOwed, UNCHANGED <<depth, reserved, owner>>
  PROVE  DepthIsOwed' /\ \A o \in Owners : Owes(o)' <=> Owes(o)
BY DEF DepthIsOwed, Owed, Owes, Waiting

-------------------------------------------------------------------------------
(* One lemma per group of actions.                                           *)

(* A write below the output begins a build, or restarts the quiet period of the one there is. *)
LEMMA WriteKeeps == ASSUME IInv, NEW copied \in BOOLEAN, Write(copied) PROVE IInv'
<1>1. CASE build # None /\ UNCHANGED <<build, depth, rel, ownerVars, formVars, queue>>
  <2>1. DepthIsOwed' /\ \A o \in Owners : Owes(o)' <=> Owes(o)
    BY <1>1, CountKept DEF IInv, ownerVars
  <2>2. TypeOK'
    BY <1>1, BuildAssumption
    DEF BuildAssumption, IInv, TypeOK, Write, ownerVars, formVars, engineVars
  <2> QED BY <1>1, <2>1, <2>2, Parts DEF IInv, Untold, ownerVars, formVars
<1>2. ASSUME build = None, NEW b \in Builds, owner[b] = "none", build' = b,
             owner' = [owner EXCEPT ![b] = "pending"], Begin, StartRelease(b),
             UNCHANGED <<call, reserved>>
      PROVE  IInv'
  <2> b \in Owners
    BY DEF Owners
  <2>1. depth' = depth + 1 /\ depth' \in Nat /\ FormsTyped' /\ Untold'
    BY <1>2, BeginDoes DEF IInv
  <2>2. rel' \in [Owners -> Releases] /\ queue' \in Queues
        /\ \A p \in Owners : p # b => rel'[p] = rel[p]
    BY <1>2, ReleaseAtDoes DEF IInv, TypeOK, StartRelease, Queues
  <2>3. TypeOK'
    <3>1. landed' \in BOOLEAN /\ waits' \in 0..MaxWaits /\ writes' \in 0..MaxWrites
      BY BuildAssumption DEF BuildAssumption, IInv, TypeOK, Write
    <3>2. owner' \in [Owners -> {"none", "pending", "finishing", "releasing", "executing",
                                 "running", "ended", "over"}]
      BY <1>2 DEF IInv, TypeOK
    <3> QED BY <1>2, <2>1, <2>2, <3>1, <3>2
        DEF IInv, TypeOK, Write, FormsTyped, Releases, Queues, engineVars
  <2>4. DepthIsOwed'
    <3>1. ~Owes(b)
      BY <1>2 DEF Owes
    <3> QED BY <1>2, <2>1, <3>1, OneOwnerMore DEF IInv
  <2>5. (\A o \in Owners : Owes(o) \/ rel[o].stage = "done")'
    BY <1>2, <2>2 DEF IInv, TypeOK, Owes
  <2>6. (build # None => owner[build] = "pending")'
    BY <1>2 DEF IInv, TypeOK
  <2> QED BY <2>1, <2>3, <2>4, <2>5, <2>6, Parts
<1> QED BY <1>1, <1>2 DEF Write

(* A watched build is replaced, waited for, or over. *)
LEMMA WatchKeeps == ASSUME IInv, Replaced \/ QuietPeriodEnds PROVE IInv'
<1>1. CASE Replaced
  <2>1. DepthIsOwed' /\ \A o \in Owners : Owes(o)' <=> Owes(o)
    BY <1>1, CountKept DEF IInv, ownerVars, Replaced
  <2>2. TypeOK'
    BY <1>1 DEF IInv, TypeOK, Replaced, ownerVars, formVars, engineVars
  <2> QED BY <1>1, <2>1, <2>2, Parts DEF IInv, Untold, ownerVars, formVars, Replaced
<1>2. CASE QuietPeriodEnds /\ ~MayFinish
  <2>0. waits' = waits + 1 /\ UNCHANGED <<owner, build, landed>>
    BY <1>2 DEF QuietPeriodEnds
  <2>1. DepthIsOwed' /\ \A o \in Owners : Owes(o)' <=> Owes(o)
    BY <1>2, <2>0, CountKept DEF IInv, QuietPeriodEnds
  <2>2. TypeOK'
    BY <1>2, <2>0, BuildAssumption
    DEF BuildAssumption, IInv, TypeOK, QuietPeriodEnds, MayFinish, formVars, engineVars
  <2> QED BY <1>2, <2>0, <2>1, <2>2, Parts DEF IInv, Untold, formVars, QuietPeriodEnds
<1>3. CASE QuietPeriodEnds /\ MayFinish
  <2>0. /\ owner' = [owner EXCEPT ![build] = "finishing"]
        /\ build' = None /\ landed' = FALSE /\ waits' = 0
        /\ build \in Owners /\ owner[build] = "pending"
    BY <1>3 DEF QuietPeriodEnds, IInv, TypeOK, Owners
  <2>1. Owed' = Owed /\ Waiting' = Waiting /\ \A o \in Owners : Owes(o)' <=> Owes(o)
    BY <2>0 DEF IInv, TypeOK, Owed, Owes, Waiting, Owners
  <2>2. DepthIsOwed'
    BY <1>3, <2>1 DEF IInv, DepthIsOwed, QuietPeriodEnds
  <2>3. TypeOK'
    <3>1. waits' \in 0..MaxWaits
      BY <2>0, BuildAssumption DEF BuildAssumption
    <3>2. owner' \in [Owners -> {"none", "pending", "finishing", "releasing", "executing",
                                 "running", "ended", "over"}]
      BY <2>0 DEF IInv, TypeOK
    <3> QED BY <1>3, <2>0, <3>1, <3>2
        DEF IInv, TypeOK, QuietPeriodEnds, formVars, engineVars
  <2> QED BY <1>3, <2>0, <2>1, <2>2, <2>3, Parts DEF IInv, Untold, formVars, QuietPeriodEnds
<1> QED BY <1>1, <1>2, <1>3

(* Finish and TaskReleased: an owner whose release has settled ends. *)
LEMMA EndKeeps ==
  ASSUME IInv, NEW o \in Owners, Owes(o), owner[o] # "pending", rel[o].stage = "done",
         owner' = [owner EXCEPT ![o] = "over"], End,
         UNCHANGED <<rel, call, reserved, buildVars, engineVars, queue>>
  PROVE  IInv'
<1>1. depth' = depth - 1 /\ depth' \in Nat /\ FormsTyped' /\ Untold'
  BY OwingIsDeep, EndDoes DEF IInv
<1>2. DepthIsOwed'
  BY <1>1, OneOwnerLess DEF IInv
<1>3. TypeOK'
  BY <1>1 DEF IInv, TypeOK, FormsTyped, buildVars, engineVars
<1>4. (\A p \in Owners : Owes(p) \/ rel[p].stage = "done")'
  BY DEF IInv, TypeOK, Owes
<1>5. (build # None => owner[build] = "pending")'
  BY DEF IInv, TypeOK, buildVars
<1> QED BY <1>1, <1>2, <1>3, <1>4, <1>5, Parts

(* Command, and the start of a task that nobody reserved. *)
LEMMA BeginKeeps ==
  ASSUME IInv, NEW o \in Owners, ~Owes(o), NEW p \in {"releasing", "running"},
         owner[o] = "executing" => reserved = 0,
         owner' = [owner EXCEPT ![o] = p], Begin, StartRelease(o),
         UNCHANGED <<call, reserved, buildVars, engineVars>>
  PROVE  IInv'
<1>1. depth' = depth + 1 /\ depth' \in Nat /\ FormsTyped' /\ Untold'
  BY BeginDoes DEF IInv
<1>2. rel' \in [Owners -> Releases] /\ queue' \in Queues
      /\ \A q \in Owners : q # o => rel'[q] = rel[q]
  BY ReleaseAtDoes DEF IInv, TypeOK, StartRelease, Queues
<1>3. DepthIsOwed'
  BY <1>1, OneOwnerMore DEF IInv
<1>4. TypeOK'
  BY <1>1, <1>2 DEF IInv, TypeOK, FormsTyped, Releases, Queues, buildVars, engineVars
<1>5. (\A q \in Owners : Owes(q) \/ rel[q].stage = "done")'
  BY <1>2 DEF IInv, TypeOK, Owes
<1>6. (build # None => owner[build] = "pending")'
  BY DEF IInv, TypeOK, Owes, Owners, buildVars
<1> QED BY <1>1, <1>3, <1>4, <1>5, <1>6, Parts

(* An owner becomes another that owes as much: Execute is the one that     *)
(* trades its end for a reservation.                                       *)
LEMMA ExecuteKeeps == ASSUME IInv, NEW c \in Commands, Execute(c) PROVE IInv'
<1> c \in Owners
  BY DEF Owners
<1>1. /\ owner' = [owner EXCEPT ![c] = "executing"] /\ reserved' = reserved + 1
      /\ UNCHANGED <<depth, rel, build>> /\ UNCHANGED suspended
      /\ owner[c] = "releasing" /\ rel[c].stage = "done"
  BY DEF Execute, buildVars, formVars
<1>2. DepthIsOwed'
  <2>1. Owed' = Owed \ {c} /\ c \in Owed /\ Waiting' = Waiting \cup {c} /\ c \notin Waiting
    BY <1>1 DEF IInv, TypeOK, Owed, Owes, Waiting, Owners
  <2>2. IsFiniteSet(Owed') /\ Cardinality(Owed') = Cardinality(Owed) - 1
    BY <2>1, Finite, OneLess DEF IInv
  <2>3. IsFiniteSet(Waiting') /\ Cardinality(Waiting') = Cardinality(Waiting) + 1
    BY <2>1, Finite, OneMore DEF IInv
  <2>4. depth \in Nat /\ reserved \in Nat
    BY DEF IInv, TypeOK
  <2> QED BY <1>1, <2>2, <2>3, <2>4, Finite DEF IInv, DepthIsOwed
<1>3. TypeOK'
  BY <1>1 DEF IInv, TypeOK, Execute, buildVars, formVars, engineVars
<1>4. (\A p \in Owners : Owes(p) \/ rel[p].stage = "done")'
  BY <1>1 DEF IInv, TypeOK, Owes
<1>5. (build # None => owner[build] = "pending")'
  BY <1>1 DEF IInv, TypeOK, Owners
<1> QED BY <1>1, <1>2, <1>3, <1>4, <1>5, Parts DEF IInv, Untold

(* A task that has ended still owes its end until its release has settled. *)
LEMMA TaskEndsKeeps ==
  ASSUME IInv, NEW e \in Commands \cup Tasks, TaskEnds(e) PROVE IInv'
<1> e \in Owners
  BY DEF Owners
<1>1. /\ owner' = [owner EXCEPT ![e] = "ended"] /\ owner[e] = "running"
      /\ UNCHANGED <<depth, reserved, rel, build, suspended>>
  BY DEF TaskEnds, buildVars, formVars
<1>2. Owed' = Owed /\ Waiting' = Waiting /\ \A o \in Owners : Owes(o)' <=> Owes(o)
  BY <1>1 DEF IInv, TypeOK, Owed, Owes, Waiting, Owners
<1>3. TypeOK'
  BY <1>1 DEF IInv, TypeOK, TaskEnds, buildVars, formVars, engineVars
<1>4. (build # None => owner[build] = "pending")'
  BY <1>1 DEF IInv, TypeOK, Owners
<1>5. DepthIsOwed'
  BY <1>1, <1>2 DEF IInv, DepthIsOwed
<1> QED BY <1>1, <1>2, <1>3, <1>4, <1>5, Parts DEF IInv, Untold

(* A task takes a reservation, or begins and releases for itself. *)
LEMMA TaskStartsKeeps ==
  ASSUME IInv, NEW e \in Commands \cup Tasks, TaskStarts(e) PROVE IInv'
<1> e \in Owners
  BY DEF Owners
<1>0. /\ owner' = [owner EXCEPT ![e] = "running"] /\ ~Owes(e)
      /\ owner[e] \in {"executing", "none"}
  BY DEF TaskStarts, CanStart, Owes
<1>1. CASE /\ reserved > 0 /\ reserved' = reserved - 1 /\ rel' = [rel EXCEPT ![e] = Done]
           /\ UNCHANGED <<depth, formVars, queue>>
  <2>1. DepthIsOwed'
    BY <1>0, <1>1, OneOwnerMore DEF IInv
  <2>2. rel' \in [Owners -> Releases] /\ \A o \in Owners : o # e => rel'[o] = rel[o]
    <3>1. Done \in Releases
      BY DEF Done, Releases
    <3> QED BY <1>1, <3>1 DEF IInv, TypeOK, Releases
  <2>3. TypeOK'
    <3>1. reserved' \in Nat
      BY <1>1 DEF IInv, TypeOK
    <3> QED BY <1>0, <1>1, <2>2, <3>1
        DEF IInv, TypeOK, TaskStarts, Releases, buildVars, formVars, engineVars
  <2>4. (\A o \in Owners : Owes(o) \/ rel[o].stage = "done")'
    BY <1>0, <2>2 DEF IInv, TypeOK, Owes
  <2>5. (build # None => owner[build] = "pending")'
    BY <1>0 DEF IInv, TypeOK, TaskStarts, Owes, Owners, buildVars
  <2> QED BY <1>1, <2>1, <2>3, <2>4, <2>5, Parts DEF IInv, Untold, formVars
<1>2. CASE reserved = 0 /\ Begin /\ StartRelease(e) /\ UNCHANGED reserved
  BY <1>0, <1>2, BeginKeeps DEF TaskStarts
<1> QED BY <1>1, <1>2 DEF TaskStarts

(* A failed executeTask gives up a reservation, its own or that of another command. *)
LEMMA RejectKeepsIInv == ASSUME IInv, NEW c \in Commands, Reject(c) PROVE IInv'
<1> c \in Owners
  BY DEF Owners
<1> DEFINE next == IF owner[c] = "executing" THEN "over" ELSE owner[c]
<1>0. /\ owner' = [owner EXCEPT ![c] = next] /\ UNCHANGED <<rel, build>>
      /\ next \in {"none", "pending", "finishing", "releasing", "executing", "running",
                   "ended", "over"}
      /\ next = "pending" <=> owner[c] = "pending"
  BY DEF Reject, IInv, TypeOK, buildVars
<1>1. Owed' = Owed /\ Waiting' = Waiting \ {c} /\ \A o \in Owners : Owes(o)' <=> Owes(o)
  BY <1>0 DEF IInv, TypeOK, Owed, Owes, Waiting, Owners
<1>2. reserved \in Nat /\ depth \in Nat /\ depth = Cardinality(Owed) + reserved
      /\ reserved <= Cardinality(Waiting)
  BY DEF IInv, TypeOK, DepthIsOwed
<1>3. /\ IsFiniteSet(Waiting') /\ Cardinality(Waiting') >= Cardinality(Waiting) - 1
      /\ Cardinality(Waiting') \in Nat /\ IsFiniteSet(Owed') /\ Cardinality(Owed) \in Nat
  <2>0. IsFiniteSet(Owed') /\ Cardinality(Owed) \in Nat /\ Cardinality(Waiting) \in Nat
    BY <1>1, Finite DEF IInv
  <2>1. CASE c \in Waiting
    <3>1. IsFiniteSet(Waiting') /\ Cardinality(Waiting') = Cardinality(Waiting) - 1
      BY <1>1, <2>1, Finite, OneLess DEF IInv
    <3>2. Cardinality(Waiting') \in Nat
      BY <3>1, FS_CardinalityType
    <3> QED BY <2>0, <3>1, <3>2
  <2>2. CASE c \notin Waiting
    <3>1. Waiting' = Waiting
      BY <1>1, <2>2
    <3> QED BY <2>0, <3>1, Finite DEF IInv
  <2> QED BY <2>1, <2>2
<1>4. call' \in [Commands -> {"none", "pending", "rejected"}]
  BY DEF Reject, IInv, TypeOK
<1>5. (\A o \in Owners : Owes(o) \/ rel[o].stage = "done")'
  BY <1>0, <1>1 DEF IInv
<1>6. (build # None => owner[build] = "pending")'
  BY <1>0 DEF IInv, TypeOK, Owners
<1>7. CASE reserved > 0 /\ reserved' = reserved - 1 /\ End
  <2>1. depth' = depth - 1 /\ depth' \in Nat /\ FormsTyped' /\ Untold'
    BY <1>2, <1>3, <1>7, EndDoes DEF IInv
  <2>2. DepthIsOwed'
    <3>1. depth' = Cardinality(Owed') + reserved'
      BY <1>1, <1>2, <1>3, <1>7, <2>1
    <3>2. reserved' <= Cardinality(Waiting')
      BY <1>2, <1>3, <1>7, FS_CardinalityType, Finite DEF IInv
    <3> QED BY <1>3, <3>1, <3>2 DEF DepthIsOwed
  <2>3. reserved' \in Nat
    BY <1>2, <1>7
  <2>4. TypeOK'
    BY <1>0, <1>4, <2>1, <2>3 DEF IInv, TypeOK, Reject, FormsTyped, buildVars, engineVars
  <2> QED BY <1>5, <1>6, <2>1, <2>2, <2>4, Parts
<1>8. CASE reserved = 0 /\ UNCHANGED <<depth, reserved, formVars>>
  <2>1. DepthIsOwed'
    BY <1>1, <1>2, <1>3, <1>8 DEF DepthIsOwed
  <2>2. TypeOK'
    BY <1>0, <1>4, <1>8 DEF IInv, TypeOK, Reject, formVars, buildVars, engineVars
  <2> QED BY <1>5, <1>6, <1>8, <2>1, <2>2, Parts DEF IInv, Untold, formVars
<1> QED BY <1>7, <1>8 DEF Reject

(* A step of the engine or of a form: it begins and ends nothing.          *)
LEMMA Elsewhere ==
  ASSUME IInv, TypeOK', UNCHANGED <<depth, reserved, owner, build>>,
         \A o \in Owners : rel[o].stage = "done" => rel'[o].stage = "done",
         Untold'
  PROVE  IInv'
<1>1. DepthIsOwed' /\ \A o \in Owners : Owes(o)' <=> Owes(o)
  BY CountKept DEF IInv
<1> QED BY <1>1, Parts DEF IInv

(* The steps of a release. *)
LEMMA ReleaseStepKeeps ==
  ASSUME IInv, NEW o \in Owners,
         ReleaseTimesOut(o) \/ RecycleOver(o) \/ \E w \in Workers : RunRelease(w, o)
  PROVE  IInv'
<1>1. CASE ReleaseTimesOut(o)
  <2>1. rel' \in [Owners -> Releases] /\ worker' \in [Workers -> {"up", "killed", "gone"}]
        /\ \A p \in Owners : p # o => rel'[p] = rel[p]
    BY <1>1, RecycleDoes DEF IInv, ReleaseTimesOut
  <2>2. TypeOK'
    BY <1>1, <2>1 DEF IInv, TypeOK, ReleaseTimesOut, Releases, ownerVars, buildVars, formVars
  <2> QED BY <1>1, <2>1, <2>2, Elsewhere
      DEF IInv, Untold, ReleaseTimesOut, ownerVars, buildVars, formVars
<1>2. CASE RecycleOver(o)
  <2>1. rel' \in [Owners -> Releases] /\ queue' \in Queues
        /\ \A p \in Owners : p # o => rel'[p] = rel[p]
    <3>1. rel[o].left \in SUBSET Workers /\ queue \in Queues
      BY DEF IInv, TypeOK, Queues
    <3> QED BY <1>2, <3>1, ReleaseAtDoes DEF IInv, RecycleOver
  <2>2. TypeOK'
    BY <1>2, <2>1
    DEF IInv, TypeOK, RecycleOver, Releases, Queues, ownerVars, buildVars, formVars, engineVars
  <2> QED BY <1>2, <2>1, <2>2, Elsewhere
      DEF IInv, Untold, RecycleOver, ownerVars, buildVars, formVars
<1>3. ASSUME NEW w \in Workers, RunRelease(w, o) PROVE IInv'
  <2> DEFINE q == [queue EXCEPT ![w] = @ \ {o}]
             heard == rel[o].stage = "rpc" /\ rel[o].at = w
  <2>0. q \in Queues /\ rel[o].left \in SUBSET Workers /\ rel \in [Owners -> Releases]
    BY DEF IInv, TypeOK, Queues, Releases
  <2>1. /\ rel' \in [Owners -> Releases] /\ queue' \in Queues
        /\ pinned' \in [Workers -> BOOLEAN] /\ worker' \in [Workers -> {"up", "killed", "gone"}]
        /\ \A p \in Owners : (p = o /\ heard) \/ rel'[p] = rel[p]
    <3>1. CASE /\ pinned' = [pinned EXCEPT ![w] = FALSE] /\ UNCHANGED worker
               /\ heard /\ ReleaseAt(o, rel[o].left, q)
      <4>1. rel' \in [Owners -> Releases] /\ queue' \in Queues
            /\ \A p \in Owners : p # o => rel'[p] = rel[p]
        BY <2>0, <3>1, ReleaseAtDoes DEF IInv
      <4> QED BY <3>1, <4>1 DEF IInv, TypeOK
    <3>2. CASE /\ pinned' = [pinned EXCEPT ![w] = FALSE] /\ UNCHANGED worker
               /\ queue' = q /\ UNCHANGED rel
      BY <2>0, <3>2 DEF IInv, TypeOK
    <3>3. CASE UNCHANGED pinned /\ queue' = q /\ heard /\ Recycle(o)
      <4>1. rel' \in [Owners -> Releases] /\ worker' \in [Workers -> {"up", "killed", "gone"}]
            /\ \A p \in Owners : p # o => rel'[p] = rel[p]
        BY <3>3, RecycleDoes DEF IInv
      <4> QED BY <2>0, <3>3, <4>1 DEF IInv, TypeOK
    <3>4. CASE UNCHANGED pinned /\ queue' = q /\ UNCHANGED <<worker, rel>>
      BY <2>0, <3>4 DEF IInv, TypeOK
    <3> QED BY <1>3, <3>1, <3>2, <3>3, <3>4 DEF RunRelease
  <2>2. TypeOK'
    BY <1>3, <2>1
    DEF IInv, TypeOK, RunRelease, Releases, Queues, ownerVars, buildVars, formVars
  <2>3. \A p \in Owners : rel[p].stage = "done" => rel'[p].stage = "done"
    BY <2>1
  <2> QED BY <1>3, <2>2, <2>3, Elsewhere
      DEF IInv, Untold, RunRelease, ownerVars, buildVars, formVars
<1> QED BY <1>1, <1>2, <1>3

(* The steps of a worker. *)
LEMMA WorkerKeeps ==
  ASSUME IInv, NEW w \in Workers,
         Exit(w) \/ StartWorker(w) \/ \E f \in Forms : RunRender(w, f)
  PROVE  IInv'
<1>1. CASE Exit(w)
  <2>1. rel' \in [Owners -> Releases]
    <3>1. \A o \in Owners : rel[o] \in Releases /\ [rel[o] EXCEPT !.stage = "recycle"] \in Releases
      BY DEF IInv, TypeOK, Releases
    <3> QED BY <1>1, <3>1 DEF Exit
  <2>2. TypeOK'
    BY <1>1, <2>1 DEF IInv, TypeOK, Exit, Releases, ownerVars, buildVars, formVars
  <2>3. \A o \in Owners : rel[o].stage = "done" => rel'[o].stage = "done"
    BY <1>1 DEF Exit
  <2> QED BY <1>1, <2>2, <2>3, Elsewhere DEF IInv, Untold, Exit, ownerVars, buildVars, formVars
<1>2. CASE StartWorker(w)
  <2>1. TypeOK'
    BY <1>2 DEF IInv, TypeOK, StartWorker, ownerVars, buildVars, formVars
  <2> QED BY <1>2, <2>1, Elsewhere DEF IInv, Untold, StartWorker, ownerVars, buildVars, formVars
<1>3. ASSUME NEW f \in Forms, RunRender(w, f) PROVE IInv'
  <2>1. TypeOK'
    BY <1>3 DEF IInv, TypeOK, RunRender, ownerVars, buildVars, formVars
  <2> QED BY <1>3, <2>1, Elsewhere DEF IInv, Untold, RunRender, ownerVars, buildVars, formVars
<1> QED BY <1>1, <1>2, <1>3

(* A render goes to the queue of its worker. *)
LEMMA SendRenderDoes ==
  ASSUME IInv, NEW f \in Forms, SendRender(f) PROVE queue' \in Queues
BY BuildAssumption DEF BuildAssumption, IInv, TypeOK, SendRender, Queues

(* The steps of a form. *)
LEMMA FormKeeps ==
  ASSUME IInv, NEW f \in Forms, Refresh(f) \/ Route(f) \/ Send(f) \/ LiveUpdate(f)
  PROVE  IInv'
<1>1. CASE Refresh(f)
  <2>1. TypeOK'
    BY <1>1 DEF IInv, TypeOK, Refresh, ownerVars, buildVars, engineVars
  <2> QED BY <1>1, <2>1, Elsewhere DEF IInv, Untold, Refresh, ownerVars, buildVars
<1>2. ASSUME Route(f), NEW k \in BOOLEAN, net48' = [net48 EXCEPT ![f] = k],
             \/ /\ ~Admitted /\ Suspend(f)
                /\ render' = [render EXCEPT ![f] = "none"]
             \/ /\ suspended' = [suspended EXCEPT ![f] = @ /\ (k \/ ~net48[f])]
                /\ render' = [render EXCEPT ![f] = "prepared"]
      PROVE  IInv'
  <2>1. FormsTyped'
    BY <1>2 DEF IInv, TypeOK, FormsTyped, Suspend
  <2>2. TypeOK'
    BY <1>2, <2>1 DEF IInv, TypeOK, Route, FormsTyped, ownerVars, buildVars, engineVars
  <2>3. Untold'
    BY <1>2 DEF IInv, TypeOK, Untold, Route, Suspend, Admitted
  <2> QED BY <1>2, <2>2, <2>3, Elsewhere DEF Route, ownerVars, buildVars
<1>3. CASE Send(f)
  <2>1. queue' \in Queues
    BY <1>3, SendRenderDoes DEF IInv, TypeOK, Send, Queues
  <2>2. suspended' \in [Forms -> BOOLEAN] /\ Untold'
    BY <1>3 DEF IInv, TypeOK, Untold, Send, Suspend, Admitted
  <2>3. TypeOK'
    BY <1>3, <2>1, <2>2 DEF IInv, TypeOK, Send, Queues, ownerVars, buildVars, engineVars
  <2> QED BY <1>3, <2>2, <2>3, Elsewhere DEF Send, ownerVars, buildVars
<1>4. CASE LiveUpdate(f)
  <2>1. queue' \in Queues
    BY <1>4, SendRenderDoes DEF LiveUpdate
  <2>2. TypeOK'
    BY <1>4, <2>1 DEF IInv, TypeOK, LiveUpdate, Queues, ownerVars, buildVars, formVars, engineVars
  <2> QED BY <1>4, <2>2, Elsewhere DEF IInv, Untold, LiveUpdate, ownerVars, buildVars, formVars
<1> QED BY <1>1, <1>2, <1>3, <1>4 DEF Route

(* Every step keeps the account. *)
LEMMA StepKeeps == IInv /\ [Next]_vars => IInv'
<1> SUFFICES ASSUME IInv, [Next]_vars PROVE IInv'
  OBVIOUS
<1>1. ASSUME NEW b \in Builds, Finish(b) PROVE IInv'
  BY <1>1, EndKeeps DEF Finish, ReleaseAwaited, Owes, Owners
<1>2. ASSUME NEW e \in Commands \cup Tasks, TaskReleased(e) PROVE IInv'
  BY <1>2, EndKeeps DEF TaskReleased, Owes, Owners
<1>3. ASSUME NEW c \in Commands, Command(c) PROVE IInv'
  BY <1>3, BeginKeeps DEF Command, Owes, Owners
<1>4. CASE UNCHANGED vars
  <2>1. TypeOK'
    BY <1>4 DEF IInv, TypeOK, vars, ownerVars, buildVars, formVars, engineVars
  <2> QED BY <1>4, <2>1, Elsewhere DEF IInv, Untold, vars, ownerVars, buildVars, formVars
<1> QED BY <1>1, <1>2, <1>3, <1>4, WriteKeeps, WatchKeeps, ExecuteKeeps, RejectKeepsIInv,
           TaskStartsKeeps, TaskEndsKeeps, ReleaseStepKeeps, WorkerKeeps, FormKeeps DEF Next

-------------------------------------------------------------------------------
(* The depth of a window is what is owed and the previews are live only when *)
(* every release has settled (externalBuild.ts:95-101).                      *)
THEOREM OutputAccounting == Spec => []IInv
<1> QED BY Initially, StepKeeps, PTL DEF Spec

(* net48TaskDepth counts the owners that have not given it back.             *)
THEOREM DepthCountsOwners == Spec => []DepthIsOwed
<1>1. IInv => DepthIsOwed
  BY DEF IInv
<1> QED BY <1>1, OutputAccounting, PTL

(* The previews are live only when no release is in flight.                  *)
THEOREM ReleasedBeforeLive == Spec => []LiveOnlyWhenReleased
<1>1. IInv => LiveOnlyWhenReleased
  BY OwingIsDeep DEF IInv, LiveOnlyWhenReleased
<1> QED BY <1>1, OutputAccounting, PTL

(* No request that loads the output is sent while a build holds it           *)
(* (designerEditor.ts:6892-6903, extension.ts:2068-2072).                    *)
LEMMA OnlySendsRender ==
  ASSUME IInv, [Next]_vars, NEW w \in Workers, (queue'[w] \ queue[w]) \cap Forms # {}
  PROVE  depth = 0
<1> USE BuildAssumption DEF BuildAssumption
<1>r. ASSUME NEW o \in Owners, NEW left, NEW q, q \in [Workers -> SUBSET (Forms \cup Owners)],
             q[w] \subseteq queue[w], ReleaseAt(o, left, q)
      PROVE  FALSE
  BY <1>r DEF ReleaseAt, IInv, TypeOK
<1>q. queue \in [Workers -> SUBSET (Forms \cup Owners)]
  BY DEF IInv, TypeOK
<1>1. ASSUME NEW copied \in BOOLEAN, Write(copied) PROVE FALSE
  BY <1>1, <1>r, <1>q DEF Write, StartRelease, Owners
<1>2. ASSUME NEW e \in Commands \cup Tasks, TaskStarts(e) PROVE FALSE
  BY <1>2, <1>r, <1>q DEF TaskStarts, StartRelease, Owners
<1>3. ASSUME NEW c \in Commands, Command(c) PROVE FALSE
  BY <1>3, <1>r, <1>q DEF Command, StartRelease, Owners
<1>4. ASSUME NEW o \in Owners, RecycleOver(o) PROVE FALSE
  BY <1>4, <1>r, <1>q DEF RecycleOver
<1>5. ASSUME NEW v \in Workers, NEW o \in Owners, RunRelease(v, o) PROVE FALSE
  <2> DEFINE q == [queue EXCEPT ![v] = @ \ {o}]
  <2>1. q \in [Workers -> SUBSET (Forms \cup Owners)] /\ q[w] \subseteq queue[w]
    BY <1>q
  <2>2. queue' # q
    BY <2>1
  <2> QED BY <1>5, <1>r, <2>1, <2>2 DEF RunRelease
<1>6. ASSUME NEW f \in Forms, Send(f) \/ LiveUpdate(f) PROVE depth = 0
  BY <1>6 DEF Send, LiveUpdate, Admitted
<1>7. ASSUME NEW v \in Workers, Exit(v) \/ \E f \in Forms : RunRender(v, f) PROVE FALSE
  BY <1>7, <1>q DEF Exit, RunRender
<1>8. queue' # queue
  OBVIOUS
<1> QED BY <1>1, <1>2, <1>3, <1>4, <1>5, <1>6, <1>7, <1>8
        DEF Next, vars, Replaced, QuietPeriodEnds, Finish, Execute, Reject, TaskEnds,
            TaskReleased, ReleaseTimesOut, StartWorker, Refresh, Route

(* No render is sent while an owner of the output has not ended.             *)
THEOREM BuildsAreLeftAlone == Spec => NoRenderDuringABuild
<1>1. IInv /\ [Next]_vars =>
        [\A w \in Workers : (queue'[w] \ queue[w]) \cap Forms # {} => Owed = {} /\ reserved = 0]_vars
  <2> SUFFICES ASSUME IInv, [Next]_vars, NEW w \in Workers,
                      (queue'[w] \ queue[w]) \cap Forms # {}
               PROVE  Owed = {} /\ reserved = 0
    OBVIOUS
  <2>1. depth = 0
    BY OnlySendsRender
  <2>2. Owed = {}
    BY <2>1, OwingIsDeep DEF IInv, Owed
  <2>3. reserved = 0
    BY <2>1, Finite DEF IInv, TypeOK, DepthIsOwed
  <2> QED BY <2>2, <2>3
<1> QED BY <1>1, OutputAccounting, PTL DEF Spec, NoRenderDuringABuild
===============================================================================
