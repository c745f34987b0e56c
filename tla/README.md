# A TLA+ model of the WinForms designer extension

The extension edits Windows Forms source in VS Code. An edit goes through a webview, an extension host in Node, and
one or more .NET engine processes that render and rewrite the form. This directory holds TLA+ modules of the parts of
`extension/src` where order, failure and crashes decide whether a user's files and processes survive, the TLC runs
that check them and the TLAPS proofs about them. Paths below are relative to the repository; `.ts` files without a
directory are in `extension/src`.

    cd tla
    tlc -workers 2 -config MC_EngineHost.cfg MC_EngineHost      # one run; PROJECT.json lists them all
    tlapm EngineHostProofs.tla                                  # one proof module

## 1. Inventory

**Transaction runner** (`transactionRunner.ts`, `resourceTransactionCoordinator.ts`, `atomicFile.ts`,
`transactionJournal.ts`). State: the target files, a journal file per transaction, a record in memory
(`state`, `appliedTargets`, `attemptedTargets`, `uncertainWrite`), an `undo` the caller may keep. Operations:
`runPatchSetTransaction`, `compensateTargets`, `undo()`, `redo()`. Hard: another program writes the same files; a
write rejects after, before or around the replacement; a journal write fails after every target was written; the host dies
at any await. Correct when all targets are written, or none is, or a person is asked, and the answer stays true.

**Startup recovery** (`transactionRecovery.ts`). State: what the journals and files on disk say. Operations:
classify, roll back, discard, hand over to the user. Hard: it can die and run again over half-restored targets,
and bytes that match do not tell who wrote them. Correct when it restores only what a receipt proves, ends,
and never takes a half-made transaction for a clean one.

**Host commit** (`designerEditor.ts`, `mutationOperation.ts`, `transactionRecovery.ts`). One edit has a resource half on
disk and a source half in an unsaved buffer. State: both halves, the saved file, VS Code's hot-exit backup, the
journals, the durable receipt, the native history. Operations: run, commit, confirm, Undo, Redo, save, backup,
retry, startup, open, reconcile. Hard: the buffer survives a crash only through a backup that may be older than
the resource. Correct when the halves agree whenever the document is writable, and a receipt is never revised.

**Worker supervisor** (`workerSupervisor.ts`, `engineRecovery.ts`). State per key: generation, state, worker, start
promise, quarantine; per request: where it awaits. Operations: prepare, request, recycle, crash, dispose, usage
watch. Hard: each await races a deadline and a cancellation, and the slot may belong to another generation
afterwards. Correct when no worker is orphaned, a generation has one start, late replies cannot win and every request ends.

**Engine startup and registry** (`extension.ts`, `engineStartup.ts`, `engineRegistry.ts`, `engineAdmission.ts`,
`engineLifecycle.ts`, leases in `engineTransport.ts` and `engineRequestContext.ts`). State: two registries keyed by
project, the spawned children, the recycles in flight, the blocked processes, the leases of each workflow. Operations:
`getEngine`, the shared start, eviction, net48 recycle, stop, `deactivate()`. Hard: every await of `getEngine` may
return to another world; a signal is not an exit; a net48 process pins the user's build output. Correct when no process is
lost, the budget holds, nothing replaces a net48 process that may live, and each call is answered.

**Runtime protocol, and the client that speaks it** (`engine/RuntimeProtocol.cs`, compiled into both engines;
`sendRequest` of `engineTransport.ts`). State: the requests in flight, a generation and version per document, 256 records of
mutations, 64 cancellations, a semaphore of one; on the other side a generation per document. Operations: `ExecuteAsync`, `Cancel`,
the cancellation of the RPC, `sendRequest`. Hard: every request runs on a thread of its own, a reply may be
lost and its command sent again, and two sources number the requests. Correct when a mutation runs once, a
request that was called off does not run, nothing current is taken for stale, the limits neither burst nor wear out.

**Build output release** (`externalBuild.ts`, the task events in `extension.ts`, `net48TaskDepth` and the gates in
`designerEditor.ts`, `DomainManager.cs`). State: the watched build, a reservation per task key, the depth, the release each owner has
begun, the pinned outputs. Operations: writes below the output, quiet periods, the contributed command, task starts and ends, renders.
Hard: builds, tasks and renders overlap in every order, and a release takes several awaits. Correct when no preview
loads an output a build owns, and the previews come back once.

**Rollback preparation** (`rollbackPreparation.ts`, the admission in `mutationOperation.ts`, the command in `extension.ts`).
State: the frozen flag, the operations in flight, the ledger and the journals, an epoch, a generation per notice.
Operations: admit, settle, prepare, refuse, resume. Hard: Undo, Redo and Revert cannot be refused, and an older notice may
be answered last. Correct when a `ready` answer means that nothing runs and nothing is undecided, and a freeze can be lifted.

**Document and its history** (`WinFormsDesignDocument` and the closures of `commit` in `designerEditor.ts`,
`documentHistory.ts`, `sourceTransactionGuard.ts`). State: the unsaved source, what was last seen on disk, a bounded history with a
cursor and a saved position, the reads in flight, the images a journaled edit owns; beside it, VS Code's own stack of edits.
Operations: edit, journaled edit, native Undo and Redo, save, Revert, reload. Hard: each awaits, VS Code's stack is longer
than the history and moves before the code is asked, and other programs write the file. Correct when the history stays at the
source, a clean mark means saved source, and a change on disk is shown or reported.

**Not modelled yet, with state worth modelling.** The *recovery timeline* (replay of a recovered history), *guards* of companion
buffers (`companionChangeGuard.ts`), *operation ledger* (the eviction and leases of `mutationOperation.ts`), *adapter runtime*, and
the application domains of the net48 engine.

**Not modelled, and not meant to be.** Rendering, Roslyn rewriting, the webview's DOM handlers, presentation, project
discovery, scaffolding and the headless tools compute on data or write files one after the other; their
tests reach them better than a model checker. Tests, docs and samples are read as documentation. PROJECT.json lists every component.

How the parts interact: the editor asks `getEngine` for a worker inside a workflow scope; the engine's transport wraps
that process in a supervisor; the reply becomes a patch set that the host commit runs as a transaction; the transaction's
journal is what startup recovery and the reopened document later reconcile with the source. What the transport sends is
numbered and named for the engine's router. A build takes the workers away from all of these until it is over, and a
rollback preparation stops them all for good.

## 2. Modules

| Module | What it is |
|---|---|
| `Journal` | journal states, transition table, recovery classification (`transactionJournal.ts`) |
| `Transaction` | the run, its compensation and `undo()`, one action per await (`transactionRunner.ts`) |
| `TransactionRecovery` | adds the crash, the restart and `rollbackIncompleteJournal`; states the properties |
| `TransactionInvariant` | the inductive invariant, await by await |
| `AtomicUpdate` | the abstract promise: committed, reverted or manual, for every target at once |
| `TransactionRefinement` | the mapping from files, journal and answer to `AtomicUpdate` |
| `TransactionProofs` | the theorems about the five above |
| `HostCommit` | the two halves of one edit, over `Journal`; the run itself is abstracted to its outcomes |
| `HostCommitInvariant`, `HostCommitProofs` | its inductive invariant, and its theorems |
| `WorkerSupervisor`, `WorkerSupervisorProofs` | one slot of the supervisor, and its theorems |
| `EngineHost`, `EngineHostProofs` | every process the extension owns, and its theorems |
| `RuntimeProtocol` | the router of the engine, for any client |
| `EngineRequests`, `EngineRequestsProofs` | `sendRequest` composed with the router, and the theorems about both |
| `BuildRelease`, `BuildReleaseProofs` | the owners of the build output, the releases, the forms and the workers; theorems |
| `RollbackFreeze`, `RollbackFreezeProofs` | a rollback preparation against operations that run; theorems |
| `DocumentHistory` | the bounded history of a document, as operators on a record (`documentHistory.ts`) |
| `DesignDocument`, `DesignDocumentProofs` | the document: source, file, history, VS Code's stack, and the operations on them; theorems |
| `MC_*` | the instances TLC checks (`RollbackFreeze` needs no module for its own) |

`TransactionRecovery` composes the run with its recovery over shared files. `HostCommit` stands above: a transaction
is there a few steps whose outcomes are those `AtomicUpdate` allows. `EngineHost` sees the supervisor of a process
only as the flag `disposed`; what happens inside is `WorkerSupervisor`. `DesignDocument` has the generated source where `HostCommit` has
one edit of a resource; its journaled edit sees a transaction as the outcomes `AtomicUpdate` allows. `EngineRequests` extends `RuntimeProtocol` and replaces its
arbitrary client by the extension's; `HostIsAClient` proves that what holds for any client holds for this one. `BuildRelease` has
its own, coarser workers: what matters there is whether a process runs, was signalled, and holds the output.

### Correspondence

*Transaction, TransactionRecovery.* `pc` is the await the code is at and `i` the index of the loop it is in. A file is one of
three images: `base` (the captured bytes), `after` (those to write), `other`. `jState` and `jApplied` are the journal on disk,
`state` and `applied` the record in memory. `Crash` forgets the memory and leaves the disk. A write has three results: it lands, it does not,
or it is not known (`uncertain`). `owner`, `fresh`, `wrote`, `disturbed` are history variables that
only properties read. Path checks and text decoding are abstracted away with the images.

*HostCommit.* `res`, `disk`, `buffer`, `backup` are the four places the edit can be; `Source` tells whether another edit
came in between (`rival`) or after (`later`). `journal[run]` is the journal of each run: the first edit, each Redo and
each compensation of a history race has one of its own. `manual` is `transactionRecoveryRequired`, which makes the document read-only.
No outside program writes files here; `Transaction` has that.

*WorkerSupervisor.* Node runs one event with the continuations it releases before the next. `req[r].won` is the
branch of the race that has settled and whose continuation has not run; events wait for `Quiet`, which says there is
none. `Resume` is the rest of `request()` after an await.

*EngineHost.* A member of `Procs` is one process with its startup, handle and supervisor; `Requests` are workflow scopes
(`withEngineRequestContext`). `getEngine` is split at its awaits: `idleWait`, `recycleWait`, `cleanupWait`, `admissionWait`,
`budgetWait` and `consumer` (in `SharedEngineStartup.acquire`); between two of them the code runs
without interruption and so does the action. The publication of a worker and its hand-over to each consumer are separate actions, because a
cancellation or another call may run in between. `signalled` is `proc.killed`; `proc` is the
fact of an exit, which may come at any time, or never. `recycled` is the only history variable.

*RuntimeProtocol, EngineRequests.* `pc[r]` is the statement of `ExecuteAsync` the thread of request `r` is at; the locks of
the code make each action one step. `Register` publishes the cancellation source, so `Cancel` is split in two: what it finds
(`picked`) and what it signals (`CancelSource`). `records` is the dictionary and its order queue together. `runs` counts the invocations of a command
since its record was last evicted, and only the property reads it. The eviction by size drops any number of the oldest records. Whether a `Refuse`
for a bad envelope or a full limit happens is a choice where the contents decide. A recorded `stale` or `cancelled` is replayed like any other outcome, as in the code.

*BuildRelease.* `owner[o]` is how far a build, command or task is, `rel[o]` the release it has begun: `rpc` at a worker, `recycle`
of it, or done. `depth` is `net48TaskDepth`, `reserved` the counter of `preReleasedTaskKeys` for the one key all tasks have.
`render[f]` splits `fullRender` at the awaits between its two gates. A worker runs what it has received in any order.

*RollbackFreeze.* `prep.stage` is the await `prepareRollback` is at, `durable[o]` what an operation has left: an open
record, one that needs a decision, or a journal. `certified` is a history variable: a `ready` answer that nothing has called off. A notice
is answered once, by its button or by closing it. `Throws` is the catch around all of it, which answers `blocked` from any stage.

*DocumentHistory, DesignDocument.* A source is one of a few images. `text`, `saved`, `unknown`, `manual` are `designerText`,
`savedDesignerText` and the two read-only flags. `history` is the record of `DocumentHistory`, where `units` and `active` are those of the code. `past` and `future` are VS Code's stack:
the code never sees it, only the calls of its closures. A unit with `disk` other than `NoImage` is one whose source went to the file in
a transaction. A save, a read, a Revert, a step and a transaction are records with a `stage`, one for
each await. `current` is the set of those for which the revision they noted is still the document's, `sameGen` the same of the history's generation.
`due` stands for the watcher event, the debounce and `scheduleRerender` at once. Three history variables bound what the properties claim:
- `strayed`: the source or VS Code's stack was moved behind the history's back (also by an edit whose `record()` throws after the source was
  replaced), and nothing has been read since.
- `raced`: a journaled edit or a step over one overlapped a save, another writer came between a save's comparison and its end, or a step over a
  journaled edit found the file at an image that is not the one last seen on it (see the disagreements below).
- `overlooked`: the last read that counted found unsaved work, which the code reports and keeps, or a Revert adopted an image that had been replaced.

## 3. What the runs check

| Run | Instance | Question and answer |
|---|---|---|
| `transaction_recovery` | 3 targets | The properties of the transaction, its refinement of `AtomicUpdate` and its termination, under failures of every operation, outside writes and crashes at every await: all hold |
| `host_commit` | 3 journals | Outside a native Undo the halves agree, saved source keeps its resource, a refusal leaves nothing, a receipt is final: all hold |
| `history_splits` | 2 journals | "The two halves never split" when a history step fails: violated |
| `restored_source_splits` | 2 journals | Ambiguity after a crash in a native Undo is surfaced: violated |
| `worker_supervisor` | 3 requests, 2 starts | No orphan, one start per generation, no late `ok`, every admitted request answered: all hold |
| `quarantine_lifted` | 1 request, 2 starts | Quarantine is honoured until time or its owner ends it: violated |
| `engine_host` | 2 net48 projects, 3 processes, 2 workflows, budget 2 | No process is lost or started beside one that may pin an output; the block neither lifts early nor latches: all hold |
| `engine_budget` | a net48 and a modern project, 1 process each, budget 1, idle timer and stop command | The budget is kept, an eviction spares workers in use, every call is answered, a shutdown leaves no child unsignalled: all hold |
| `engine_requests` | 2 requests, 1 document, 2 versions, 1 record and 1 cancellation kept | A mutation runs once, a command names its content, a request called off never runs, only what was overtaken is stale, all are answered: all hold |
| `build_release` | 1 form, 1 worker, a build, a command and a task | The depth is what is owed, live means released, no render during a build, the previews come back: all hold |
| `rollback_freeze` | 2 operations, an Undo, a worker, 3 preparations or cancellations | Ready means quiet, a refusal restores the admission, a freeze has a way back, a preparation answers: all hold |
| `design_document` | 2 images, a history of 2, a stack of 3, 5 gestures | The cursor is at the source, steps find their units (at the second alignment but for an edit over a Redo), clean means saved, no change on disk is forgotten: all hold, within `strayed`, `raced` and `overlooked` |

**Bounds, and why they suffice.** Three targets give the loops a first, a middle and a last element, so a prefix
and a suffix can both be non-empty. Three journals are the longest chain one edit makes
of its kinds: the edit, a redo, and a compensation. In the supervisor three requests let two share a place while one is
refused (`MaxPending` 2), and two starts give a late one beside that of the next generation; `WorkerSupervisorProofs` covers any number.
`MaxStarts`, `MaxGeneration`, `MaxRuns` and the set `Procs` bound what the program would do without end; each appears
in a guard and is named where it is declared. In `EngineHost` a process is never reused, so `Procs` bounds the spawns; two of one project are
needed for a replacement beside a predecessor, one of another project for blocking and evicting across projects. `Call`
admits no more calls for a project than it can still spawn, or a call would wait for a process the bound forbids.
Symmetry is used only in `engine_host`, which has no liveness. In `engine_requests` two requests are enough for each of the others'
effects on one: overtaking, repeating, cancelling, filling the record and the limit; a second payload only adds commands. `build_release` has one owner of each kind, the
least in which a task takes the reservation of a command while a build is pending; two builds were checked for safety (2.2
million states), not for liveness. `MaxWrites` 2 makes a build restart its quiet period, `MaxWaits` 1 makes it give up. Three generations in
`rollback_freeze` are a preparation, what calls it off, and a newer one beside the older notice.
 In `design_document` a gesture
is anything the user or another program begins, and what it has begun runs to its end for free. Five are two edits, two steps
and a save or a write among them; three edits overflow the history of two while VS Code keeps all three, so steps cross the trimmed edge. Two images are the least that
differ, and the most that coincide by accident (an edit and its opposite, a write of an older image); a third image with four gestures and a history of one was checked as well
(1.0 million states). The images are exchanged by symmetry; the run has no liveness.

**Deadlock.** The supervisor and the host may really stop: all requests are done and the slot disposed, or all
scopes are closed. So may the router when all requests are answered, and a build when nothing is
left to write, and a document when its gestures are used up. These runs say `CHECK_DEADLOCK FALSE`. The transaction and the commit runs check it.

**Fairness.** *Transaction:* weak fairness of the run's and the recovery's steps: file operations settle. Not of crashes,
undos, outside writers or restarts. *WorkerSupervisor:* weak fairness of `Resume` (the event loop runs continuations) and
`Deadline` (a timer fires); no worker is assumed to answer. *EngineHost:* continuations run, timers fire (`Expire`,
`BudgetWaitOver`, `CleanupTimesOut`, `RecycleReturns` after its two waits) and a start resolves or rejects, which
`ENGINE_START_DEADLINE_EXCEEDED` (`engineTransport.ts:206-208`) guarantees; no process is assumed to exit. *EngineRequests:* threads run
and deadlines fire; no method is assumed to return. *BuildRelease:* timers fire and awaited promises are acted upon; of the environment, that an
executed task starts and ends, which VS Code owes; no worker is assumed to answer or exit, no render to be drawn. *RollbackFreeze:* the steps of the
preparation, whose waits are bounded by timers, and the user answering a modal question; no operation is assumed to settle.

### Disagreements found

- `history_splits`: a native Undo whose rollback restored the resource and then could not persist its journal throws; the
  source keeps the edit and the document stays writable, against the comment at `designerEditor.ts:5898-5900`.
- `restored_source_splits`: startup retires the journal of an Undo that was in progress, and the document then opens a
  backup that still has the edit. Assumes VS Code keeps a backup until it is replaced, or the document is saved or clean.
- `quarantine_lifted`: a request of an earlier generation recycles the slot when it loses its start race. It is a
  defect of the class; today's two adapters start or dispose in a way that hides it.

Without a run of their own (TLC finds the first two on the models here when the properties are stated without their exceptions):

- *Landed bytes without a receipt.* The host dies between the write of a target and its receipt. `transactionRunner.ts:365-366` says startup recovery "must identify the
  landed bytes from the durable before/after images, not trust the list", `transactionJournal.ts:130-131` that "durable byte images, not that advisory list, decide", and
  `extension.ts:537-539` that recovery compares every target with these images. The code trusts the list: a target that has the after image without a receipt is treated as another
  program's (`transactionRecovery.ts:151-160`), recovery gives up (`:190`), keeps the bytes and asks the user. `RestoresOnlyReceipted` and `ManualHasCause` state what the code
  does; they do not confirm those three comments. One target is enough: its write lands, the host dies, and the restarted host ends in `manual` although nobody else wrote.
- *An edit during the redraw of a Redo.* `fireDocumentEdit` aligns the history a second time when the canvas is redrawn (`designerEditor.ts:1876`). When an edit was recorded
  meanwhile, the unit is no longer at the cursor, `alignAfterNativeMove` throws "operation order is stale", and VS Code drops its stack although the Redo succeeded, against
  `documentHistory.ts:155-156` ("rather than reject after a successful callback"). Four gestures: Edit, Undo, Redo, Edit. After an Undo the same edit cuts the unit off, so the second alignment
  finds it gone and resets the history to the source: nothing throws, but the new edit is no longer retained. `StepsFindTheirUnits` allows
  exactly this one case at the second alignment, and none at the first.
- *A history that refuses an edit.* `record()` throws for a linked file outside the root, or in a folder `secrets` (`documentHistory.ts:113-118`), when the source, the
  revision and the baseline have been replaced already (`designerEditor.ts:5856-5876`): the document shows an edit that neither history knows. `strayed` marks it.

Seen while modelling: a task is executed after a release that gave up (`extension.ts:2308`, where a comment calls it a hard
barrier; the recycle's `false` at `:2440-2443` is ignored). Of the document, and marked by `strayed` and `raced`: a Revert during a journaled edit adopts the
transient image, and the refused run then sets the source back without the history (`designerEditor.ts:10230-10234`), so a backup throws at `documentHistory.ts:190`. After a Revert that failed,
VS Code stands at its save point while the source does not; an Undo of an earlier edit that ends in the same image passes the comparison at `designerEditor.ts:5902` and then
throws "operation order is stale" with the source already moved. A save that began before a journaled edit was committed and compares after it writes the older source over it.

One more came out of a proof that failed, of `CleanHistoryIsSaved`, and lies beyond the five gestures of its run. A native step over a journaled edit compares the file with
the edit's own image only (`designerEditor.ts:5914-5921`), not with what the document last saw on disk. A journaled edit, a plain edit, a save and an Undo; another program then restores
the image of the journaled edit, which the dirty document reports and leaves; an Undo over the journaled edit now passes the comparison and moves the file, and two Redos
bring the history to the checkpoint of a save that the file no longer has: the document counts as clean, with source that is saved nowhere. `raced` marks such a step.

## 4. What is proved

Every invariant and every action property of a passing run, and the refinement, is a theorem: for every number of targets, runs, requests, starts, projects, processes, forms,
builds and commands, from the named assumptions on the constants and nothing else. No set of them is assumed to be finite: that finitely many processes live, and that finitely
many owners of the output owe an end, are parts of the invariants.

*TransactionProofs.* `TypeCorrect`, `WriteAheadHolds`, `CatchCanRollBackHolds` (no run checks it separately), `NoForeignOverwriteHolds`,
`RestoresOnlyReceiptedHolds`, `AnswersAreDurable`. None is inductive: that a write-ahead journal covers a file depends on what the loops have left behind and on which state
the memory is allowed to be in. `IInv` says it await by await: nothing is written before
`applying` (`NothingYet`), where journal and memory may stand (`JournalAhead`), receipts name only landed writes (`Receipts`), the
forward loop leaves `after` behind and the backward loop `base` (`LoopProgress`), and what the durable journal means for whoever
reads it (`JournalSpeaksTrue`). `TypeOKStep`, `JournalStep` and `TargetsStep` prove one group of conjuncts each, action by action.
`ManualDecisionsHaveCause` needs a third part, `Cause`: until something fails, or someone else writes or the host dies (`Undisturbed`), every target the code visits is as the
code left it, so that no comparison finds a conflict and no loop ends before its time (`CauseStep`).

`Refinement`: the transaction implements `AtomicUpdate`. `VerdictMeans` derives from `IInv` that a
verdict speaks of all targets; `VerdictStep` and `ImageStep` say how a step changes each; together they give the abstract step or a stutter.

*HostCommitProofs.* `HostInvariant`, `HalvesStayTogether`, `SavedSourcesAreKept`, `RefusedLeavesNothing`, `OutcomesAreFinal`. That both halves agree at rest says nothing of the
moments between, nor of what a crash leaves. `HInv` (in `HostCommitInvariant`) says which journal is in force at each await (`JournalAt`: all others are settled) and what
the native history claims (`HistoryStep`); its core is `Together`, which holds wherever the code is and also while the host is dead: at most one journal has still to be acted upon; when
there is none, the resource has the edit exactly when the source the document would open with has it (`Restored`: the backup, or the file); and while a journal would be
rolled back, no source has the edit. `Recovered` is the order in which startup and the reopened document settle the journals. A crash then needs
no argument of its own. `Startup` and `Reconcile`, which have a dozen outcomes, are first reduced to what they leave behind (`StartupSettles`,
`ReconcileSettles`). As in the run, the properties exempt a native Undo in between (`undone`) and a recovery that said it failed (`degraded`); `JournalAt` and `HistoryStep` do not.

*WorkerSupervisorProofs.* `SupervisorInvariant`, `NoWorkerIsOrphaned`, `StartupIsShared`, `LateRepliesCannotWin`. `SlotInv` ties worker and
start of the slot to its generation and makes every other start an earlier one; `RequestHolds` says that a request of
the current generation holds the slot's start or worker. The slot's transformations are lemmas of their own, and each action cites the ones it makes.

*EngineHostProofs.* `TypeCorrect`, `RecycledStaysBlocked`, `NoNet48StartWhileBlocked`, `BudgetHolds`, `ShutdownHolds`. The strengthening is `IInv`: a recycled process was spawned, so a
spawn cannot be of one. `NoNet48StartWhileBlocked` is the argument the code's comments make: only `Start` spawns, it
asks for an empty block, and the block is the set of recycled processes that live.

`EveryProcessIsOwned`, `Net48ProcessesAreUnique` and `UsersAreSpared` rest on `OInv`: the registry and the startups name the same process of a project (`RegistriesAgree`);
a startup that is pending is the one its project names and has a consumer, unless it was abandoned (`StartupsAgree`); whatever was abandoned, rejected or recycled has been
told to go (`TornDownIsSignalled`); and a living net48 process is recycled or the one its project names (`Net48IsNamed`), which leaves room for no second one, since a start
asks for an empty block and an empty slot. The worker an eviction takes is never one a call is about to be handed: a published startup keeps its reservation while it has a
consumer (`ConsumersAgree`).

*EngineRequestsProofs.* `RouterInvariant`, `MutationsRunOnce`, `CancelledStaysOut` for any client; `HostIsAClient`,
`NothingIsStaleBeforeItsTime` and `CommandsNameTheirContent` for the extension. `AtMostOnce` rests on `RunsAreRecorded`: what has run is on record or running, and what is running is not on record. This is
kept because the dispatch is exclusive and the record is read and written inside it. `NumberingHolds` adds that the router has never seen a
generation the host has not given, and that the newest of a document carries the version the host gave it. `NamingHolds` says of every request and
every record how its command id was made: from the operation, the payload and the version, or, outside a host operation, from the request itself; the theorem
covers both, the run has requests of operations only.

*BuildReleaseProofs.* `OutputAccounting`, `DepthCountsOwners`, `ReleasedBeforeLive`, `BuildsAreLeftAlone`, for any number of forms, workers,
builds, commands and tasks. The lemmas `OneOwnerMore` and `OneOwnerLess` say what a change of one owner does to the number of those that owe an end;
`BeginKeeps` and `EndKeeps` pair them with the change of the depth; `RejectKeepsIInv` is the one delicate case, where a reservation is given up for a command whose task
has already run on another's.

*RollbackFreezeProofs.* `PreparationInvariant`, `ReadyStaysQuiet`, `FreezeIsOffered`, `RefusalRestores`. While the epoch is the one the
preparation noted, admission has stayed frozen, so what a stage found is still true in the next (`Frozen`, `Settling`, `Inspecting`).

*DesignDocumentProofs.* `DocumentInvariant`, `CursorStaysAtSource`, `StepsAreInOrder`, for any images, limit and length of the stacks. That the cursor
is at the source is not inductive: an Undo sets the source to what its closure remembers and the cursor to wherever the unit is. `Sound` adds why these agree. The units form a chain
of distinct edits (`Chained`); a unit of VS Code's that the history retains is at the position its place in the stack says, shifted by one while a step is under way (`StacksAgree`); and a step whose document was not
revised finds its unit next to the cursor (`StepIsNext`). A step that is being redrawn has its unit behind the cursor after an Undo, at or
below it after a Redo (`StepIsDone`), whatever was recorded or trimmed meanwhile: `StepsAreInOrder` follows for both alignments. Lemmas say what `Record`, `Shed` and `Align` do to a chain.
`CleanHistoriesAreSaved` adds `MInv`: as long as no journaled edit lies between the cursor and the checkpoint, the checkpoint has the saved source; where one does, stepping back
over the nearest of them brings that source to the file (`MarkIsSaved`). `ChangesAreRead` adds `WInv`: when the file is not what the document last saw of it, a read is on its
way or due, and a read that an outside change made old will be made again.

Only model-checked: the six liveness properties (`Settles`, `RequestsSettle`, `CallsSettle`, `RequestsAnswered`, `PreviewsComeBack`, `PreparationAnswers`). They need
fairness, and so ENABLED, which the prover does not do; what they would need besides is a measure that decreases through several actors' steps. The three
properties that are violated (section 3) have no theorem, of course. `WorkerSupervisorProofs`, `RollbackFreezeProofs` and `BuildReleaseProofs` prove the safety of their runs
in full; no module uses recursion or folds.

## 5. What the models leave out

- *Transaction:* corrupt journals and unknown schema versions; path authorization; several transactions at once.
- *HostCommit:* the replay of a recovered history, Revert, Save As, companion buffers, receipts of several operations, the fallback
  index of backups (`takeHotExitBackup`), an outcome `aborted` of the run (in `Transaction`), and outside writers.
  A journal whose verdict startup could not write is exempted (`degraded`): only the startup message tells the user.
- *DesignDocument:* companion buffers, the byte-order mark, a missing file, the gates of rendering (they only refuse more), resources of an edit, Save As, hot exit, a
  recovered history. Assumed of VS Code: it drops the edits of a document when a step rejects (the comment at `designerEditor.ts:1847-1848` says so), cuts them at a
  Revert it does not await, and runs one step, one save and one Revert at a time. One journaled source edit runs at a time. What the byte limit trims is any number of units.
  Assumed of the watcher: every replacement of the file delivers an event. `designerEditor.ts:1268-1269` names events that never come; then only the comparison before a save
  stands between the document and the other program's bytes, and `NoChangeIsForgotten` does not hold. A commit that only moves resources (the same source before and after) also records a unit and
  makes the history dirty; it is left out with the resources. The redraw between the adoption of the restored source and the release of the guard
  (`designerEditor.ts:10229-10240`) is folded into one step.
- *WorkerSupervisor:* several slots, refusals before a request is counted, workers without a usage query.
- *EngineHost:* callers without a workflow scope; background admission; the limits of 32 waiting callers; two
  stops at once; and the recovery a crash schedules. A call that takes a published worker before the
  startup's own consumers are served can see it disposed when the last of them is cancelled: the hazard is listed, no promise of the code covers it.
- *RuntimeProtocol:* a result that cannot be serialized after its mutation ran (`RuntimeProtocol.cs:306`), which leaves no record; a late `Cancel` of a request that is
  over, which may evict another's token (`:187-188`); and the moment between the release of the dispatch and the lowering of `_pending` (`:321-331`).
- *EngineRequests:* the negotiation, what an envelope contains, requests without an operation. `_documents` is never evicted by the
  code: after 1024 documents the router refuses every request of a new one.
- *BuildRelease:* a release visits the workers that run when it comes to them, not a list taken at its start (`extension.ts:2077`); what the watchers take for a build, tasks of different keys, the manual release commands. A render sent before a build may run after the
  release, since requests run on the thread pool: the model has it, and no property excludes it.
- *RollbackFreeze:* a preparation that is not interactive, the bound on the records, records of another schema, openings and saves apart from other operations.

## 6. Plan

Done: the transaction and its recovery, the host commit, the supervisor, the engine host, the requests and their router, the build
release, the rollback preparation, the document and its history.

1. `DesignDocument`: the backup and the replay of a recovered history, composed with the resources of `HostCommit`; companion buffers.
2. `HostCommit` implements `AtomicUpdate` over its two halves outside a native Undo: `HInv` has what the mapping needs.
3. The decreasing measures behind `CallsSettle` and `Settles`, as invariants: which step each waiting party waits for, and that it cannot be waiting for itself.
4. The ledger of `mutationOperation.ts` with leases and eviction, and the sessions of `adapterRuntime.ts`.
