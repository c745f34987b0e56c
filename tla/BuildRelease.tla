---------------------------- MODULE BuildRelease ----------------------------
(***************************************************************************)
(* Handing the .NET Framework build output back while a build owns it.     *)
(*                                                                         *)
(* A net48 worker loads the user's assemblies in place and pins the output *)
(* directory. A build is noticed in three ways, each an owner of the       *)
(* output until it ends: a write below obj or the output                   *)
(* (ExternalBuildRelease), a VS Code task that starts, and the contributed *)
(* command, which releases before it executes its task and reserves the    *)
(* start event of the task for itself. Owners are counted in               *)
(* net48TaskDepth; while it is positive the previews are view-only.        *)
(*                                                                         *)
(* Every task here has the same coordination key, the case in which one    *)
(* task can take the reservation of another. The requests a worker has     *)
(* received run in any order: the engine starts each on the thread pool.   *)
(***************************************************************************)
EXTENDS Integers, FiniteSets

CONSTANTS
  Forms,     \* open designers, named also as the render each of them sends
  Workers,   \* net48 worker processes, one for each project
  Home,      \* the worker a form renders on
  Builds,    \* builds noticed by their writes
  Commands,  \* runs of the contributed build and test commands
  Tasks,     \* tasks started by anyone else
  None,
  MaxWaits,  \* extra quiet periods before a build is given up
  MaxWrites  \* bound: writes the watchers report

Owners == Builds \cup Commands \cup Tasks

ASSUME BuildAssumption ==
  /\ Home \in [Forms -> Workers]
  /\ MaxWaits \in Nat /\ MaxWrites \in Nat
  /\ Builds \cap (Commands \cup Tasks) = {} /\ Commands \cap Tasks = {}
  /\ Forms \cap Owners = {} /\ None \notin Owners \cup Workers

VARIABLES
  depth,      \* net48TaskDepth
  reserved,   \* preReleasedTaskKeys of the one key
  owner,      \* how far each owner is
  call,       \* whether a command's executeTask is still awaited
  rel,        \* the release each owner started: the worker it is at, the ones left
  build,      \* ExternalBuildRelease.pending: the build whose writes are watched
  landed,     \* copySeen, or an output that differs from the snapshot
  waits,
  writes,
  net48,      \* engineKind of a form
  suspended,  \* buildTaskName of a form is set
  render,     \* the current render of a form
  worker,     \* "up", "killed" (signalled, still holding its files) or "gone"
  pinned,     \* a worker has the output loaded
  queue       \* the requests a worker has received and not run

ownerVars == <<owner, call, reserved>>
buildVars == <<build, landed, waits, writes>>
formVars == <<net48, suspended, render>>
engineVars == <<worker, pinned>>
vars == <<depth, rel, ownerVars, buildVars, formVars, engineVars, queue>>

Done == [stage |-> "done", at |-> None, left |-> {}]

(* An owner for which an end is still owed. *)
Owes(o) == owner[o] \in {"pending", "finishing", "releasing", "running", "ended"}
Owed == {o \in Owners : Owes(o)}

Init ==
  /\ depth = 0 /\ reserved = 0
  /\ owner = [o \in Owners |-> "none"] /\ call = [c \in Commands |-> "none"]
  /\ rel = [o \in Owners |-> Done]
  /\ build = None /\ landed = FALSE /\ waits = 0 /\ writes = 0
  /\ net48 = [f \in Forms |-> TRUE] /\ suspended = [f \in Forms |-> FALSE]
  /\ render = [f \in Forms |-> "starting"]
  /\ worker = [w \in Workers |-> "up"] /\ pinned = [w \in Workers |-> FALSE]
  /\ queue = [w \in Workers |-> {}]

(* beginNet48Task: the first owner supersedes the renders of the net48     *)
(* forms and makes their pictures view-only.                               *)
Begin ==
  LET first == {f \in Forms : depth = 0 /\ net48[f]} IN
  /\ depth' = depth + 1
  /\ suspended' = [f \in Forms |-> f \in first \/ suspended[f]]
  /\ render' = [f \in Forms |-> IF f \in first THEN "none" ELSE render[f]]
  /\ UNCHANGED net48

EndAtOnce ==
  /\ depth' = 0
  /\ suspended' = [f \in Forms |-> FALSE]
  /\ render' = [f \in Forms |-> IF net48[f] THEN "starting" ELSE render[f]]
  /\ UNCHANGED net48

(* endNet48Task: the last owner lets every form render again. *)
End ==
  LET d == IF depth > 0 THEN depth - 1 ELSE 0 IN
  /\ depth' = d
  /\ suspended' = [f \in Forms |-> d # 0 /\ suspended[f]]
  /\ render' = [f \in Forms |-> IF d = 0 /\ net48[f] THEN "starting" ELSE render[f]]
  /\ UNCHANGED net48

(* The next worker of a release among `left`, q being what the workers     *)
(* have received: one that has exited is passed over, one that runs is     *)
(* asked to release what it has loaded.                                    *)
ReleaseAt(o, left, q) ==
  LET up == {w \in left : worker[w] = "up"} IN
  \/ up = {} /\ rel' = [rel EXCEPT ![o] = Done] /\ queue' = q
  \/ \E w \in up :
       /\ rel' = [rel EXCEPT ![o] = [stage |-> "rpc", at |-> w, left |-> left \ {w}]]
       /\ queue' = [q EXCEPT ![w] = @ \cup {o}]

(* releaseNet48ForTask up to its first await. *)
StartRelease(o) == ReleaseAt(o, Workers, queue)

-----------------------------------------------------------------------------
(* Builds noticed by their writes (ExternalBuildRelease).                  *)

(* onWrite: the first write of a build begins and releases; every write    *)
(* restarts the quiet period. `copied`: an assembly reached the output.    *)
Write(copied) ==
  /\ writes < MaxWrites /\ writes' = writes + 1
  /\ \E f \in Forms : net48[f]
  /\ landed' = (landed \/ copied) /\ waits' = 0
  /\ \/ build # None /\ UNCHANGED <<build, depth, rel, ownerVars, formVars, queue>>
     \/ /\ build = None
        /\ \E b \in Builds :
             /\ owner[b] = "none" /\ build' = b
             /\ owner' = [owner EXCEPT ![b] = "pending"]
             /\ Begin /\ StartRelease(b)
        /\ UNCHANGED <<call, reserved>>
  /\ UNCHANGED engineVars

(* The output is replaced without an event that names it. *)
Replaced ==
  /\ build # None /\ landed' = TRUE
  /\ UNCHANGED <<depth, rel, ownerVars, build, waits, writes, formVars, engineVars, queue>>

(* finish up to its await, at the end of a quiet period: the build is over *)
(* when the output changed, or when it has been waited for long enough.    *)
MayFinish == landed \/ waits >= MaxWaits

QuietPeriodEnds ==
  /\ build # None
  /\ \/ /\ ~MayFinish /\ waits' = waits + 1
        /\ UNCHANGED <<owner, build, landed>>
     \/ /\ MayFinish
        /\ owner' = [owner EXCEPT ![build] = "finishing"]
        /\ build' = None /\ landed' = FALSE /\ waits' = 0
  /\ UNCHANGED <<depth, rel, call, reserved, writes, formVars, engineVars, queue>>

(* The rest of finish. *)
NeverAwaited(b) == TRUE
ReleaseAwaited(b) == rel[b].stage = "done"
Finish(b) ==
  /\ owner[b] = "finishing" /\ ReleaseAwaited(b)
  /\ owner' = [owner EXCEPT ![b] = "over"] /\ End
  /\ UNCHANGED <<rel, call, reserved, buildVars, engineVars, queue>>

-----------------------------------------------------------------------------
(* Tasks.                                                                  *)

(* runCoordinatedTask up to the await of its release. *)
Command(c) ==
  /\ owner[c] = "none" /\ owner' = [owner EXCEPT ![c] = "releasing"]
  /\ Begin /\ StartRelease(c)
  /\ UNCHANGED <<call, reserved, buildVars, engineVars>>

(* The release has settled: the start event is reserved, the task executed. *)
Execute(c) ==
  /\ owner[c] = "releasing" /\ rel[c].stage = "done"
  /\ owner' = [owner EXCEPT ![c] = "executing"]
  /\ call' = [call EXCEPT ![c] = "pending"] /\ reserved' = reserved + 1
  /\ UNCHANGED <<depth, rel, buildVars, formVars, engineVars, queue>>

RejectKeeps(c) ==
  /\ call[c] = "pending" /\ owner[c] = "executing"
  /\ call' = [call EXCEPT ![c] = "rejected"] /\ owner' = [owner EXCEPT ![c] = "over"]
  /\ UNCHANGED <<depth, rel, reserved, buildVars, formVars, engineVars, queue>>

(* executeTask fails, before its task started or after: a reservation that *)
(* is still there is given up with the end it stands for. A failure that   *)
(* has neither to undo changes nothing.                                    *)
Reject(c) ==
  /\ call[c] = "pending" /\ (owner[c] = "executing" \/ reserved > 0)
  /\ call' = [call EXCEPT ![c] = "rejected"]
  /\ owner' = [owner EXCEPT ![c] = IF @ = "executing" THEN "over" ELSE @]
  /\ \/ reserved > 0 /\ reserved' = reserved - 1 /\ End
     \/ reserved = 0 /\ UNCHANGED <<depth, reserved, formVars>>
  /\ UNCHANGED <<rel, buildVars, engineVars, queue>>

(* onDidStartTask: a reservation stands for the begin and the release. *)
CanStart(e) == owner[e] = IF e \in Commands THEN "executing" ELSE "none"

TaskStarts(e) ==
  /\ CanStart(e) /\ owner' = [owner EXCEPT ![e] = "running"]
  /\ \/ /\ reserved > 0 /\ reserved' = reserved - 1
        /\ rel' = [rel EXCEPT ![e] = Done]
        /\ UNCHANGED <<depth, formVars, queue>>
     \/ reserved = 0 /\ Begin /\ StartRelease(e) /\ UNCHANGED reserved
  /\ UNCHANGED <<call, buildVars, engineVars>>

(* onDidEndTask, and what it leaves for when the release has settled. *)
TaskEnds(e) ==
  /\ owner[e] = "running" /\ owner' = [owner EXCEPT ![e] = "ended"]
  /\ UNCHANGED <<depth, rel, call, reserved, buildVars, formVars, engineVars, queue>>

TaskReleased(e) ==
  /\ owner[e] = "ended" /\ rel[e].stage = "done"
  /\ owner' = [owner EXCEPT ![e] = "over"] /\ End
  /\ UNCHANGED <<rel, call, reserved, buildVars, engineVars, queue>>

-----------------------------------------------------------------------------
(* The release of an owner and the workers it visits.                      *)

(* recycleNet48Engine: what is still running is signalled. *)
Recycle(o) ==
  LET w == rel[o].at IN
  /\ worker' = [worker EXCEPT ![w] = IF @ = "up" THEN "killed" ELSE @]
  /\ rel' = [rel EXCEPT ![o].stage = "recycle"]

(* The worker runs a release: it unloads everything, or a domain refuses.  *)
(* A request whose caller has given up still runs.                         *)
RunRelease(w, o) ==
  /\ worker[w] = "up" /\ o \in queue[w]
  /\ LET heard == rel[o].stage = "rpc" /\ rel[o].at = w
         q == [queue EXCEPT ![w] = @ \ {o}]
     IN \/ /\ pinned' = [pinned EXCEPT ![w] = FALSE] /\ UNCHANGED worker
           /\ IF heard THEN ReleaseAt(o, rel[o].left, q) ELSE queue' = q /\ UNCHANGED rel
        \/ /\ pinned[w] /\ UNCHANGED pinned /\ queue' = q
           /\ IF heard THEN Recycle(o) ELSE UNCHANGED <<worker, rel>>
  /\ UNCHANGED <<depth, ownerVars, buildVars, formVars>>

ReleaseTimesOut(o) ==
  /\ rel[o].stage = "rpc" /\ Recycle(o)
  /\ UNCHANGED <<depth, ownerVars, buildVars, formVars, pinned, queue>>

(* A recycle ends with the exit of its process, or gives up on it: either  *)
(* way the release goes on.                                                *)
RecycleOver(o) ==
  /\ rel[o].stage = "recycle" /\ ReleaseAt(o, rel[o].left, queue)
  /\ UNCHANGED <<depth, ownerVars, buildVars, formVars, engineVars>>

(* A worker exits, signalled or not, and what it held goes with it. *)
Exit(w) ==
  /\ worker[w] # "gone" /\ worker' = [worker EXCEPT ![w] = "gone"]
  /\ pinned' = [pinned EXCEPT ![w] = FALSE] /\ queue' = [queue EXCEPT ![w] = {}]
  /\ rel' = [o \in Owners |-> IF rel[o].stage = "rpc" /\ rel[o].at = w
                              THEN [rel[o] EXCEPT !.stage = "recycle"] ELSE rel[o]]
  /\ UNCHANGED <<depth, ownerVars, buildVars, formVars>>

StartWorker(w) ==
  /\ worker[w] = "gone" /\ worker' = [worker EXCEPT ![w] = "up"]
  /\ UNCHANGED <<depth, rel, ownerVars, buildVars, formVars, pinned, queue>>

-----------------------------------------------------------------------------
(* Forms.                                                                  *)

(* The last gate of a render and the admission of the engine call. *)
Admitted == depth = 0

SendRender(f) ==
  LET w == Home[f] IN
  queue' = IF worker[w] = "up" THEN [queue EXCEPT ![w] = @ \cup {f}] ELSE queue

(* fullRender starts for a change of the form. *)
Refresh(f) ==
  /\ render[f] = "none" /\ render' = [render EXCEPT ![f] = "starting"]
  /\ UNCHANGED <<depth, rel, ownerVars, buildVars, net48, suspended, engineVars, queue>>

Suspend(f) == suspended' = [suspended EXCEPT ![f] = TRUE]

(* fullRender routes the form to an engine; a build keeps a net48 form     *)
(* view-only, and no longer governs a form that left net48.                *)
Route(f) ==
  /\ render[f] = "starting"
  /\ \E k \in BOOLEAN :
       /\ net48' = [net48 EXCEPT ![f] = k]
       /\ \/ /\ k /\ ~Admitted /\ Suspend(f)
             /\ render' = [render EXCEPT ![f] = "none"]
          \/ /\ ~(k /\ ~Admitted)
             /\ suspended' = [suspended EXCEPT ![f] = @ /\ (k \/ ~net48[f])]
             /\ render' = [render EXCEPT ![f] = "prepared"]
  /\ UNCHANGED <<depth, rel, ownerVars, buildVars, engineVars, queue>>

(* The rest of fullRender, after the awaits that prepare the request. *)
Send(f) ==
  /\ render[f] = "prepared" /\ render' = [render EXCEPT ![f] = "none"]
  /\ \/ net48[f] /\ ~Admitted /\ Suspend(f) /\ UNCHANGED queue
     \/ net48[f] /\ Admitted /\ SendRender(f) /\ UNCHANGED suspended
     \/ ~net48[f] /\ UNCHANGED <<suspended, queue>>
  /\ UNCHANGED <<depth, rel, ownerVars, buildVars, net48, engineVars>>

(* live48 and the describes: gate and request in one step. *)
LiveUpdate(f) ==
  /\ net48[f] /\ Admitted /\ SendRender(f)
  /\ UNCHANGED <<depth, rel, ownerVars, buildVars, formVars, engineVars>>

(* A worker runs a render and loads the output for it. *)
RunRender(w, f) ==
  /\ worker[w] = "up" /\ f \in queue[w]
  /\ queue' = [queue EXCEPT ![w] = @ \ {f}] /\ pinned' = [pinned EXCEPT ![w] = TRUE]
  /\ UNCHANGED <<depth, rel, ownerVars, buildVars, formVars, worker>>

Next ==
  \/ \E copied \in BOOLEAN : Write(copied)
  \/ Replaced \/ QuietPeriodEnds
  \/ \E b \in Builds : Finish(b)
  \/ \E c \in Commands : Command(c) \/ Execute(c) \/ Reject(c)
  \/ \E e \in Commands \cup Tasks : TaskStarts(e) \/ TaskEnds(e) \/ TaskReleased(e)
  \/ \E o \in Owners : ReleaseTimesOut(o) \/ RecycleOver(o)
  \/ \E w \in Workers : Exit(w) \/ StartWorker(w)
  \/ \E w \in Workers, o \in Owners : RunRelease(w, o)
  \/ \E w \in Workers, f \in Forms : RunRender(w, f)
  \/ \E f \in Forms : Refresh(f) \/ Route(f) \/ Send(f) \/ LiveUpdate(f)

(* Timers fire, an awaited promise that settled is acted upon, a call to   *)
(* executeTask settles and an executed task starts and ends.               *)
Fairness ==
  /\ WF_vars(QuietPeriodEnds)
  /\ \A b \in Builds : WF_vars(Finish(b))
  /\ \A c \in Commands : WF_vars(Execute(c)) /\ WF_vars(TaskStarts(c))
  /\ \A e \in Commands \cup Tasks : WF_vars(TaskEnds(e)) /\ WF_vars(TaskReleased(e))
  /\ \A o \in Owners : WF_vars(ReleaseTimesOut(o)) /\ WF_vars(RecycleOver(o))
  /\ \A f \in Forms : WF_vars(Route(f)) /\ WF_vars(Send(f))

Spec == Init /\ [][Next]_vars
FairSpec == Spec /\ Fairness

-----------------------------------------------------------------------------
TypeOK ==
  /\ depth \in Nat /\ reserved \in Nat
  /\ owner \in [Owners -> {"none", "pending", "finishing", "releasing", "executing",
                           "running", "ended", "over"}]
  /\ call \in [Commands -> {"none", "pending", "rejected"}]
  /\ rel \in [Owners -> [stage : {"rpc", "recycle", "done"},
                         at : Workers \cup {None}, left : SUBSET Workers]]
  /\ build \in Builds \cup {None} /\ landed \in BOOLEAN
  /\ waits \in 0..MaxWaits /\ writes \in 0..MaxWrites
  /\ net48 \in [Forms -> BOOLEAN] /\ suspended \in [Forms -> BOOLEAN]
  /\ render \in [Forms -> {"none", "starting", "prepared"}]
  /\ worker \in [Workers -> {"up", "killed", "gone"}]
  /\ pinned \in [Workers -> BOOLEAN] /\ queue \in [Workers -> SUBSET (Forms \cup Owners)]

Waiting == {c \in Commands : owner[c] = "executing"}

(* net48TaskDepth counts the ends that are still owed: one for each build  *)
(* and task that has begun and not ended, one for each reservation, however *)
(* tasks of one key take each other's reservations and fail, and no        *)
(* reservation outlives the commands that wait for a start event           *)
(* (designerEditor.ts:874-888, extension.ts:951-966, 2307-2320).           *)
DepthIsOwed ==
  /\ IsFiniteSet(Owed) /\ IsFiniteSet(Waiting)
  /\ depth = Cardinality(Owed) + reserved
  /\ reserved <= Cardinality(Waiting)

(* The previews are live only when no release is in flight: "no re-render  *)
(* can recreate a domain while the unload is still in flight", also when   *)
(* builds and tasks overlap (externalBuild.ts:97-98, 157-163,              *)
(* extension.ts:966).                                                      *)
LiveOnlyWhenReleased ==
  depth = 0 => (\A o \in Owners : rel[o].stage = "done") /\ (\A f \in Forms : ~suspended[f])

(* What DepthIsOwed and LiveOnlyWhenReleased rest on: the watched build is *)
(* the pending one, and a release in flight belongs to an owner whose end  *)
(* is owed, since every end waits for it (externalBuild.ts:129-134,        *)
(* 149-163, extension.ts:966, 2308).                                       *)
IInv ==
  /\ TypeOK /\ DepthIsOwed
  /\ build # None => owner[build] = "pending"
  /\ \A o \in Owners : Owes(o) \/ rel[o].stage = "done"
  /\ depth = 0 => \A f \in Forms : ~suspended[f]

(* While a build or a task that has begun has not ended, no request that   *)
(* loads the output leaves the host, not even one that passed its gates    *)
(* before an await (designerEditor.ts:6892-6903, extension.ts:2068-2072).  *)
NoRenderDuringABuild ==
  [][\A w \in Workers : (queue'[w] \ queue[w]) \cap Forms # {} => Owed = {} /\ reserved = 0]_vars

(* A view-only preview becomes live and is rendered again: the wait for a  *)
(* build is bounded, and every way a task ends gives its depth back        *)
(* (externalBuild.ts:101, designerEditor.ts:883-888).                      *)
PreviewsComeBack == \A f \in Forms : suspended[f] ~> (~suspended[f] /\ render[f] = "none")
=============================================================================
