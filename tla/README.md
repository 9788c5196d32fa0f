# AgencyCLI: specifications, model checking and proofs

TLA+ models of the parts of AgencyCLI that have to be right when several agents,
timers and processes are at work on one source tree: file locks, journaled
commits, the verify loop, the dispatch of an editing agent, subagents behind a
limit and batches of them, the task runner with its checkpoints, the event bus,
the turn loop of a chat, and MCP servers. TLC checks each model on small instances; TLAPS proves the
most important invariants for every value of the constants.

All paths below are relative to `src/packages/`.

## 1. The system

AgencyCLI is a pnpm monorepo in TypeScript. A command (CLI or TUI) runs *chat
turns*; a turn calls tools, one of which dispatches *subagents*; a plan in
Markdown is run by the *task runner*, which dispatches one agent per task. One
process is one event loop: a synchronous stretch of code is atomic, and every
`await`, timer and callback is a point where something else may run. Several
processes may work on one tree; what they share is the file system (`.agency/`)
and a SQLite database.

| part | state it keeps | operations | hard because of |
|---|---|---|---|
| **LockManager** `workspace/src/lock-manager.ts` | lock, queue and auto-release timer per file | acquireLock, releaseLock, forceRelease, two kinds of timer | timeouts that race releases, leases that lapse, locks owned by agent ids |
| **Mutation journal** `workspace/src/mutation-journal.ts` | one journal file per commit in `.agency/mutations` | commitMutationsAtomic, rollback, recoverPendingMutations | a crash between or inside any two writes, writes that throw, other processes |
| **StagingEngine** `workspace/src/staging-engine.ts` | transactions in memory, a shadow copy per verification | start, stage, verify, commit, discard | commands that run long, originals that become stale |
| **Verify loop** `core/src/task/verify-loop.ts` | round, last failure, repetition count | attempt, verify, give up | when exactly to give up; what is fed back |
| **Orchestrator** `core/src/agents/orchestrator.ts` | the shared lock manager and staging engine, a semaphore | dispatchAgent, dispatchAgentsParallel | everything above at once, cancellation and deadlines |
| **MCP servers** `core/src/mcp/client.ts` | the active clients, a child process each | initialize, shut down, list tools | children that hang or exit, initializations that overlap |
| **Workspace isolation** `core/src/agents/workspace-isolation.ts` | temporary clones | clone, detect changes, merge | merging against a root that has changed |
| **Task runner** `core/src/task/runner.ts` | nodes of the plan, leases, active promises | runPlan: schedule, attempt, gate, retry, finish | concurrency, crashes, resumes, lost leases |
| **Checkpoints** `core/src/task/checkpoint.ts` | `.agency/tasks/<id>.json` | save (temporary file and rename), load, migrate, abort | other processes; what a compacted checkpoint no longer says |
| **Startup** `core/src/runtime/bootstrap.ts` | resume counters in `.agency/resume` | recover journals, resume crashed tasks | taking a live run for a dead one |
| **Convergence engine** `core/src/task/convergence-engine.ts` | mutation graph, scores | causal rollback, stagnation | contents recorded too late |
| **Event bus and journal** `core/src/events/` | bounded priority queues, dedup window, sequence counter, SQLite mirror | publish, drain, attach, replay | shedding, dedup, restarts, two processes on one database |
| **Session run coordinator** `core/src/runtime/session-run-coordinator.ts` | active execution, pending run and wake, promises | run, wake | the window before an execution that has been scheduled starts |
| **Chat turn loop** `core/src/chat/` | history, circuit breaker, loop mitigation | one model call and its tool calls per round | stuck loops, cancellation, retries |
| **Providers** `providers/src/` | rate limiter buckets, model catalog | request, stream | check-then-wait limits, retries |
| **Governance** `governance/src/` | costs, provider health | admit, record, trip | concurrent spending, recovery probes |
| **Memory** `memory/src/` | episodes, graph, vectors in SQLite; CRDT merges | write queue, lifecycle, GC | concurrent writers, merge order |

They interact as follows. `runPlan` calls `dispatchAgent` for a task, then the
gate. `dispatchAgent` runs a chat turn, parses the edits in its answer, and for
each file calls the *lock manager* and the *staging engine*; `runVerifyLoop`
verifies the transaction in a shadow copy and asks the model again; a transaction
that passes is committed through the *mutation journal*. The *turn loop* of a chat
runs the tools a model asks for; two of them dispatch subagents, `dispatch_parallel`
through `dispatchAgentsParallel`, which gives each a copy of the project and merges
what the successful ones changed. Every dispatch passes the semaphore of the process,
also one that a subagent makes while it holds a slot itself. `bootstrap` sweeps
journals and resumes checkpoints before anything else. Everything publishes on
the *event bus*.

What makes each modelled part correct:

- locks: one holder per file, first come first served, no lost wakeup, every
  request answered, no timer of an earlier lease;
- commits: all files or none, whatever crashes or fails, and durable once reported;
- verify loop: gives up exactly when stuck;
- dispatch: one writer per file, originals still current at the commit, every
  lock given back, no deadlock between dispatches;
- task runner: dependencies first, done means done, a checkpoint that says done leaves
  nothing behind, nothing repeated after a resume, every run ends;
- subagents: no more at once than allowed, no slot or wakeup lost, events that tell
  the truth; a batch merges only what succeeded, and returns;
- event bus: what is queued is accounted for, never left without a drain, delivered in
  order and without starving a class; a durable row is not overwritten;
- chat turns: stop when told to, spend only iterations they have earned, synthesize
  what they dispatched, end;
- MCP servers: no process without somebody who will stop it, no hang.

## 2. The modules

A definition carries the name of the code it models, or names it in its comment;
`PROJECT.json` (`map`) gives the lines. Definitions called "Faulty variant" are
plausible bugs, next to what they vary: they belong to no specification, and
replacing the definition that follows by the variant must break the property
they are listed with (`mutants`). Every module has a `TypeOK`
(`VerifyLoop` prefixes its general names with `Loop`, so that it can be extended
beside another module); it is proved, and is no part of a run.

| module | models | composed of |
|---|---|---|
| `LockManager` | LockManager, one action per branch of acquireLock, per release path and per timer | |
| `LockService` | abstract: what a lock service promises, without queues or timers | `LockManager` has the refinement mapping (`Service`) |
| `MutationJournal` | commits, rollbacks, startup recovery, crashes, failing writes | |
| `AtomicStore` | abstract: several files change at once or not at all | `MutationJournal` has the refinement mapping (`Store`) |
| `VerifyLoop` | runVerifyLoop | `MCTaskRunner` has an instance of it beside that of `TaskRunner` |
| `EditDispatch` | the editing branch of dispatchAgentImpl | the actions of `LockManager` |
| `TaskRunner` | runPlan, its tasks, leases and checkpoints | |
| `SubagentSlots` | dispatchAgent and the frame of dispatchAgentImpl: semaphore, nesting, deadlines, aborts, events | |
| `ParallelDispatch` | dispatchAgentsParallel and workspace-isolation.ts | `SubagentSlots`, which it refines |
| `EventBus` | the event bus and its durable journal, crashes, a second process | |
| `ChatTurn` | the turn loop, circuit breaker, loop mitigation, delegation cycle | |
| `McpServers` | initializeMcpServers, shutdownMcpServers and their clients | |
| `LockManagerProofs`, `MutationJournalProofs`, `EditDispatchProofs`, `TaskRunnerProofs`, `ParallelDispatchProofs`, `EventBusProofs`, `ChatTurnProofs`, `McpServersProofs` | theorems | the module each is named for; `EditDispatchProofs` also, by INSTANCE, the theorems of `LockManagerProofs`; `TaskRunnerProofs` also those of `VerifyLoop`, of the same package; `ParallelDispatchProofs` also those of `SubagentSlots` |
| `MC*` | instances for TLC | |

**LockManager.** `locks`, `queues` and `lockTimers` are the three maps of the
class; `waitTimers` are the timers armed for queued requests; `armed` the
auto-release timers that are still to fire, whether the map knows them or not
(`setLock` cancels none); `promise` is what each caller has been told. `lapsed` is history: the grants a caller still believes
in after its lease expired or was forced away. Methods are synchronous, so each is
one action; the three branches of `acquireLock` are three actions; a timer may fire
at any time after it was armed, which includes every timeout value. Clients and
worker ids are different things, because the code compares agent ids: two
dispatches of one agent are the same owner. In the code a lapsed timer's
`releaseLock` returns early for another holder, but would end a later lease of the
same one; `LeaseTimerIsTheHolders` says that no such timer is left.

**MutationJournal.** `disk` is the tree, `journal` the directory
`.agency/mutations`, `work` and `left` the transaction a process has in memory and
how far it is. Every write is a step, and a crash may follow or interrupt each one,
leaving the file `Torn`. The journal itself is written by a rename, hence whole; writing
it may fail (`BeginFails`), and then nothing has been touched.
`Faults` selects which faults an instance has, since some of them break the promise
(see 5). `tree` is history: what the commits that returned have left. The order of
a transaction's files does not matter (each occurs once), so they are a set.

**VerifyLoop.** The loop's local variables, one action per await and per exit. It is
checked as a scenario of the run `runner`.

**EditDispatch.** The content of a file is the set of dispatches whose edits are in
it, which is all that staleness and lost updates can tell. `acquired` is
`acquiredLocks`, `staged` and `original` the transaction. Locking uses the actions
of `LockManager` themselves, with dispatches as clients. `Fail` stands for
everything that throws. The model of the loop is the part of `VerifyLoop` that
matters here, a bounded number of rounds. `overruns` never changes: it says whether
a lock may be held beyond its time in this behaviour, so that what holds of kept
leases can be stated next to what holds of all.

**TaskRunner.** `nodes`, `current` and `status` are the checkpoint in the memory of
each run, `saved` the file. The scheduler's loop body between two awaits is one
action (`Schedule`, with its four outcomes). A function that it starts runs up to its
first await at once and may have failed by then, while the loop over the ready nodes
(`runner.ts:649-967`) goes on and starts the others too (`StartEach`). From there on
the function of a task is a process of its own with a step per await; it goes on after
the scheduler has thrown, as in the code. `Save` is part of every action that saves. `Die` ends a process at any point,
`AbortCheckpoint` is `agency task abort` in another process. `COLLAPSED` stands for
a node that the compaction has replaced by a milestone. `passed`, `recorded` and
`overlapped` (a run has started while another was alive) are history.

**SubagentSlots.** `subagentActive` and `subagentWaitQueue` are the module's
variables, `stage` the place of each dispatch in the code, `chain` the dispatches it
was made under (`AGENCY_DELEGATION_CHAIN`), `aborted` the state of its signal,
`shown` what the last `subagent:*` event said, `inFlight` the capability registry.
Each way to return or throw is an action (`Reject`, `SkillsRootMissing`, `RoutingFails`,
`Finish`, `CutShort`), and all of them pass the `finally` of `dispatchAgent` (`Settle`).
Between the start event (`Announce`) and the `try` whose catch publishes an error lies
`resolveSkillsRoot`: it succeeds (`Prepare`) or throws with no event, and the stage is
then `stuck`. The
flags are those of the hardened profile: the cap is on and there are deadlines. The
limits on depth and cycles read the environment of the process and are modelled as
the error they throw.

**ParallelDispatch.** `semaphore`, `queue`, `member` are the batch's; its dispatches
are steps of `SubagentSlots`, which it extends (names with `Batch` are its own). A file is the set of those whose edits are in
it. `Changed` compares a copy with the project *as it is now*, as the code does, so
`EditOutside` (the user, another program) may produce false changes. All members
acquire before one releases, because creating the promises is one stretch of code up
to the first await and the events before it resolve in order. `Skip` is the exhausted
cost budget. `Merge` includes the copy that fails half way.

**EventBus.** `queues`, `bytes`, `counter`, `age` (the dedup cache), `journal` and
`draining` are the fields of the class, `rows` the SQLite table. A drain pass is
synchronous, but its callbacks may publish, so deliveries are steps. `Crash` starts
the next run of the process on the same rows; `OtherAttach`, `OtherAppend` and
`OtherLeave` are another process on the same database. Numbers stand for rows.
`TurnSpec` adds a history of who waits for whom (`waited`).

**ChatTurn.** The variables are the locals of the streaming loop, the fields of the
breaker and the phase of the delegation cycle, which alone outlives a turn. One
completion is one action: it fails, is retried, is cut off, looks unfinished,
answers, or asks for a batch. `Execute` starts all calls of a batch, each ends on its
own (`FinishTool`, `FinishDispatch`), and mitigation follows (`Unmitigated` to
`ResumeAborts`), ending in `GoOn`; a call that throws fails the turn (`CallThrows`). A
call is a name with its arguments; whether it succeeds is open. Only the first
`dispatch_parallel` of a batch is awaited (`turn-loop.ts:250`); another one goes through
executeTool and its limit of 30 seconds (`FinishOtherDispatch`). Dispatches that were
given up or left run on: `background` counts them, and `FinishInBackground` lets each
report at any time, also between turns and in later ones. `told`, `reported` (the turn
during whose batch the last report came in, 0 when it came at another time) and `launched`
are history.

**McpServers.** A call of `initializeMcpServers` is a process with a control point
per await; the client it makes for a server is the pair of the two. `active` is
`activeMcpClients`, `child` and `known` the child process and `this.process`. A
child may fail, answer, hang, exit at any time and ignore SIGTERM. `overlap` says
whether a call may begin before another has returned, as in the terminal interface.

## 3. The runs

Deadlock is checked for the locks and the journal, where something can always happen; elsewhere a
process may come to rest when its work is done, and the `.cfg` says so.

| run | instance | shows |
|---|---|---|
| `locks` | 3 agents, 2 files | exclusion, FIFO, no lost wakeup, timers, refinement of `LockService`, every call answered |
| `journal_crash` | 1 process, 2 files, crashes and failing writes | atomic, durable, refinement of `AtomicStore` |
| `journal_faults` | every fault and edits by others | what is under way is on disk |
| `dispatch` | leases hold: 2 agents, 2 files, 2 rounds; `overruns`: 3 dispatches of 2 agents, 1 file, 1 round, leases lapse | one writer per file, current originals, no deadlock; locks are given back |
| `runner` | a diamond of 4 tasks from task 2, 3 runs, 2 attempts, lost leases; `overlapping`: 5 plans with cycles and dangling dependencies, 2 runs that may overlap; `loop`: the verify loop, 3 kinds of failure, 5 rounds | the safety of a run and of its resumes, a done checkpoint leaves nothing behind, every run ends; the loop gives up exactly when stuck |
| `runner_compacted` | the diamond, with compaction after 2 tasks | **violated**, see 5 |
| `event_bus` | `load`: an event of each class, full queues; `restart`: two runs and another process on the journal | memory is bounded and accounted for, order, turns of the classes, no lost drain, rows survive |
| `parallel_dispatch` | `slots`: 3 members, 2 nested dispatches, 2 slots; `merge`: 2 members, 2 files, edits from outside | width, slots, events, refinement of `SubagentSlots`; what is merged; batches return unless a router hangs |
| `subagents_stuck` | 3 dispatches, 2 slots | **violated**, see 5 |
| `chat_turn` | `breaker`: one turn of 3 calls that read and write; `delegation`: two turns that also dispatch | stops when told, budget, synthesis, every turn ends |
| `mcp` | 2 calls, overlapping or not, 2 servers | no server out of hand, clean slate, every call returns |
| `mcp_tools` | 1 call, 1 server | **violated**, see 5 |

Where a run joins two instances (`overruns`, `overlapping`, `scenario`), the initial state
picks one and its variable never changes: each instance is bounded where its question
allows, and the module it instantiates is the same.

Runs of a plan are alike, so the instance starts them in the order of their numbers
(`InOrder`). Of the members of a batch, the third does not delegate in `slots`, and in
`merge` the skills pack is always found.

*Bounds and why they are enough.* Three clients are the least with a holder and two
in the queue, which order, loss and duplication need; two files the least for a
cycle of waiting. Two files make a transaction that can be half done, and two
transactions one after the other can leave a stale journal. The 5 rounds of the
verify loop exceed twice its no-progress limit, so a count that is not reset shows.
Two rounds of a dispatch are a first one and a correction, which keeps locks and
renews the transaction. Four tasks in a diamond have both kinds of order, and two
that run together; three runs are a first, a resume and a resume of the resume;
two attempts are a failure and a retry. Three members and two nested dispatches are
more than the two slots at both levels, so members wait for slots that wait for
nested ones; the merge needs two writers and an outsider on two files, hence a file
in conflict next to one that is not. The bus has an event of each class of size 1 and
a limit of 3, so three events are enough for every kind of shedding, and a memory
journal of 5 drops its oldest fifth. A turn has `Threshold` 4 (6 in the code),
`ReflectAt` 1, `PauseAt` 2 (3 and 5), `BaseLoops` 2 (25), one continuation in a row
and two in all (3 and 8), one retry of a kind (3), a history of 5 (50): the order of
these limits is that of the code, but for the breaker's threshold, which is above
`PauseAt` in both and is reached by repeats. Batches have up to 2 calls. Two calls on
two servers are a connection and a reload. `MaxTx`, `MaxRounds`, `MaxAttempts` and
`Runs` are the bounds of counters; `CompactAt` is 10 in the code and a parameter.

*Fairness.* Only what the event loop owes. A timer that is armed once and never
pushed back fires (`RequestTimesOut`); the auto-release timer of a lock is not
among them, since refreshing postpones it. A dispatch and a task go on when they
can: chat turns, commands and tasks have deadlines and a settled promise resumes
its awaiter (`DispatchStep`, `TaskStep`, `SchedulerStep`). A subagent passes the
setup before its router, which awaits next to nothing, its task ends, at the latest by its
deadline, and a member that is admitted enters (`Proceed`, `BatchSettle`, `Enter`). Routing has
no fairness: `orchestrator.ts:664` and `670` await processes without a timeout, so
`BatchesReturn` holds for batches in which no routing hangs for ever, and says so. Waiting
for a slot has none either, it has to follow.
A completion ends, by the timeout of its request if need be, so does a call, and a
paused turn is resumed or aborted by its timer (`Complete`, `FinishCall`,
`Mitigate`). An MCP request has a timeout and so has the wait for a child that was
told to stop (`InitStep`); no child has to answer, exit or heed a signal. Nobody has to acquire,
to release, to start a run, to crash or to abort.

## 4. The proofs

TLAPS proves, for every value of the constants, all invariants, action properties
and refinements the runs check. Only liveness is left to TLC.

| theorem | property | argument |
|---|---|---|
| `LockManagerProofs!TypeCorrect`, `LeaseTimers`, `NoLostWakeup` | `TypeOK`, `LeaseTimerIsTheHolders`, `NobodyWaitsForAFreeFile` | inductive together with the types |
| `LockManagerProofs!QueuesHoldThePendingRequests` | `PendingRequestsAreQueued` | inductive; needs that removing from and appending to an injective queue leaves one with the expected members |
| `LockManagerProofs!MutualExclusion` | `HoldersAreExclusive` | for an injective `WorkerOf`; by `OwnershipStays`, since a request that is granted must have been pending, hence not granted before |
| `LockManagerProofs!GrantsInOrder`, `ServiceIsImplemented` | `GrantsAreFifo`, `ImplementsLockService` | an action property and the refinement of `LockService`; both go by what handing a file over can do (`Handover`) |
| `MutationJournalProofs!TypeCorrect` | `TypeOK` | with where journals are filed (`WellFormed`); any processes, any faults |
| `MutationJournalProofs!WorkStaysJournaled` | `WorkIsJournaled` | one process, any faults; inductive with `JournalsAreFiled` |
| `MutationJournalProofs!WriteAhead`, `AtomicCommit` | `DamageIsJournaled`, `AtRestTheTreeIsWhole` | one process, clean faults; see below |
| `MutationJournalProofs!StoreIsImplemented` | `ImplementsAtomicStore` | the refinement: what recovery would make of the disk (`Recovered`) is the store, and it is `tree` |
| `EditDispatchProofs!TypeCorrect`, `ManagerIsImplemented` | `TypeOK` | every step is a step of the lock manager or leaves it alone |
| `EditDispatchProofs!WritersAreExclusive` | `OneWriterPerFile` | by the lock manager's theorems and `HoldInv`; see below |
| `EditDispatchProofs!OriginalsStay` | `OriginalsAreCurrent` | by `StageInv`: what is staged is held; see below |
| `TaskRunnerProofs!TypeCorrect` | `TypeOK` | inductive; that currentTask exists needs that sets of numbers have least elements |
| `TaskRunnerProofs!DependenciesComeFirst`, `DoneIsDone` | `DependenciesFirst`, `DoneMeansDone` | see below |
| `TaskRunnerProofs!NothingIsLeftBehind` | `DoneCheckpointsLeaveNothing` | inductive, with the invariant of the task runner; see below |
| `TaskRunnerProofs!CompletedOnce` | `AloneNothingIsRepeated` | for fewer tasks than `CompactAt`; see below |
| `TaskRunnerProofs!LoopTypeCorrect`, `GivesUpInTime` | `LoopTypeOK`, `GivesUpExactlyWhenStuck` | of `VerifyLoop`, for any limits; the count is the length of the run of equal failures the history ends with (`EndsWithRun`) |
| `ParallelDispatchProofs!WidthHolds`, `NoWakeupIsLost`, `EventsTellTheTruth`, `TypeCorrect` | `WidthIsBounded`, `NoSlotIdles`, `ShownAsItIs` and the types | of `SubagentSlots`, inductive together; see below |
| `ParallelDispatchProofs!SlotsAreImplemented` | `ImplementsSlots` | the refinement: initial states map to initial states, steps to steps or stutters |
| `ParallelDispatchProofs!BatchWidthHolds` | `BatchWidthIsBounded` | by `BatchInv`: the batch's queue, and where a member is against the stage of its dispatch |
| `ParallelDispatchProofs!OnlySuccessesAreMerged`, `ConflictsHaveReasons` | `MergesOnlySuccesses`, `ConflictsAreReal` | the first from the merge alone; the second by `ConflictInv`, and since a success stays one |
| `EventBusProofs!TypeCorrect`, `NoEventIsStranded`, `DeliveriesAreInOrder` | `TypeOK`, `NothingStranded`, `DeliveryInOrder` | inductive together; what appending to and taking from an ordered queue leaves |
| `EventBusProofs!DurableRowsSurvive` | `RowsSurvive` | an action property; see below |
| `EventBusProofs!NoClassStarves` | `ClassesTakeTurns` | for any quotas, by `TurnInv`; see below |
| `EventBusProofs!MemoryStaysBounded` | `MemoryIsBounded` | for a memory journal of five or more, by `MemInv`; see below |
| `ChatTurnProofs!TypeCorrect` | `TypeOK` | inductive |
| `ChatTurnProofs!ExtensionsAreEarned` | `LoopsAreEarned` | by `BudgetInv`; see below |
| `ChatTurnProofs!NoReportIsDropped`, `TurnsStopWhenTold` | `ReportsAreSynthesized`, `StopsWhenTold` | by `SynthesisInv` and `ToldInv`; see below |
| `McpServersProofs!TypeCorrect` | `TypeOK` | with what a call's current client is (`CurrentIsAClient`) |
| `McpServersProofs!ServersAreInHand`, `SlateIsClean` | `RunningServersAreInHand`, `CleanSlate` | see below |

*The invariant of the journal.* `AtRestTheTreeIsWhole` is not inductive: it says
nothing of the middle of a commit. `IInv` adds that there is at most one journal and
that its originals are what the tree should hold (`JournalsAreOriginals`), and for
every phase of the process what it knows of the disk (`Phase`): while applying, the
files still to be written are untouched and the others hold their new contents;
while undoing or restoring, the files that are done are whole again; at rest there
is no journal. Then a crash only ever moves from a phase whose damage is in the
journal to the startup that finds it. The theorems assume one process on the tree
(`OneProcess`) and faults that do not tear a file outside a crash (`CleanFaults`);
TLC shows why (see 5). The same invariant gives the refinement (`RecoveredIsTree`):
to anyone who looks through recovery, a commit of many writes is one step. Lock
theorems assume what the `ASSUME`s of `LockManager` say, and exclusion that no two
clients share a worker id.

*The dispatches.* The theorems of `LockManagerProofs` are used by INSTANCE, with
dispatches for clients: every step of `EditDispatch` is a step of the manager, so
they hold of it (`ManagerHolds`). `HoldInv` says that a dispatch notes only locks it was
granted, and that the only dispatch of its agent owns what it was granted while the
lease lasts; `StageInv` that what is staged is locked. A dispatch that commits therefore writes
files nobody else has staged. Both properties name their exceptions in the state
(`lapsed`, `overruns`, `Alone`) and not by assumptions on the constants.

*The invariant of the task runner.* `IInv` adds to the two properties that whatever
is settled, in the checkpoint or in the memory of a run, has passed its gate or was
skipped (`SettledHavePassed`), that what is at work is not settled
(`WorkIsUnsettled`), and that a run without a process has no functions. It holds for
runs that overlap, for every plan and with compaction. `DoneInv` adds, for what
a checkpoint says, that only a run that has returned, or died after it, is done, and that
each task was settled when it was saved so. That nothing recorded is
repeated needs more: every recorded task is completed in the checkpoint and in the
run that works (`RecordsAreKept`), and at most one run is alive (`OneRunAtATime`):
an invariant until `overlapped` holds. Neither condition is for convenience:
`runner_compacted` shows what happens with enough tasks to compact, and a run that
overlaps another saves what it knows over it. The actions are grouped in the proof by what they do to nodes (`TaskMoves`, `Saves`).

*The slots.* The heart is one lemma about `Settle`: handing the slot of a dispatch
that ends to the head of the queue exchanges one member of `Holding` for another, so
the cardinality stays, and takes one element from an injective queue. The theorem of
the refinement then carries the three invariants over to batches, where the proofs
about the batch use them: a release of the batch's own semaphore comes with a
settling dispatch, and only a member that is inside has one.

*The event bus.* `NumbersContinueRows` says where the numbers of a process are to
continue: unless two processes have had the journal at once, or a process could not
read it when it attached, no row has a number beyond the counter. Both exceptions are
in `RowsSurvive` and both are real (`shared`, `sink = "unread"`): rows are INSERTed OR
REPLACEd. For the turns of the classes `LongestWait` bounds what a class has waited
for by where the round is: the classes after it since its last delivery, and those
before it in this round. For the memory `MemInv` has the byte counter equal the sizes
of what is queued. Those are defined by a recursive function; its existence, and what
appending and taking away do to it, are proved from the least counterexample
(`Counting`, `SumsExist`, `SizesAddUp`), since no theorem with an operator parameter
can be used. With `MaxJournal` below five a fifth of it is nothing, and the memory
journal would outgrow its limit by one; it is 10 000 in the code.

*The chat turn.* `BudgetInv`: a turn that goes on is below its budget, which is below
the ceiling and at most `BaseLoops` for each file written up to the last extension.
`SynthesisInv`: a request made while the cycle awaits the synthesis of a report that came
in during a batch of this turn is that synthesis. Turns count from 1, so a report marked 0
is of none, and what runs in the background may change the phase of the cycle at any time. `ToldInv`: a turn that was told to stop remembers it
(`trippedReason`), and makes one more request at most, for a synthesis.

*The MCP servers.* If calls do not overlap at most one is under way (`Alone`), a child
that runs is known to its client (`RunningIsKnown`), what a call waits for has been
told (`StoppingIsTold`), and what a sweep has come to does not run
(`VisitedIsStopped`): when no entry is left, nothing of an earlier call runs. The proof
goes by the single call under way, since every other one is uncalled or returned.

*Only model-checked:* liveness under fairness (`EveryRequestIsAnswered`,
`ActiveDispatchesEnd`, `LocksAreGivenBack`, `RunsEnd`, `BatchesReturn`,
`TurnsEnd`, `InitializationEnds`), which is beyond the prover, as is `ENABLED`. That
actors do not wait for each other for ever is thus checked on the instances of
section 3 only.

## 5. Where the code and what is said of it differ

Three of these are runs that TLC must find violated.

- *A resume repeats completed tasks* (`runner_compacted`). Compaction drops
  completed nodes, and the next resume knows them by number only (`runner.ts:534`).
- *A server with tools is shut down* (`mcp_tools`). `client.ts:235` registers a tool
  without metadata, which `tooling/src/tool-registry.ts:42-44` refuses by throwing, so
  the catch gives the server up. Only servers without tools stay connected.
- *A dispatch without a skills pack stays shown as running* (`subagents_stuck`).
  `resolveSkillsRoot` (`orchestrator.ts:649`) throws after the start event of 633 and
  before the `try` of 663; the comment at 678-681 says that a worker must not be left so.

The models have these too, and the property next to them says so or excepts them:

- A failed write may tear a file for good: the rollback covers the files written
  before the one that threw, and the journal is deleted (`mutation-journal.ts:129-135`).
- A lock lapses under its holder: the 15 seconds of `orchestrator.ts:933` are also the
  lease, and verification runs a build under it.
- A correction without edits succeeds: the failure "no edits produced"
  (`orchestrator.ts:964`) is unreachable, and an empty transaction passes.
- A second process rolls back a live commit; a journal that cannot be deleted undoes
  its own commit; an abort is overwritten by the live run; a startup resumes a live
  run; `isRepeatedFailure` is true for every second round (`verify-loop.ts:79`).
- After a task that fails before its first await the loop starts further tasks of the same
  pass (`runner.ts:649-967`), and a run may return while a task waits for its retry, since a
  FAILED node counts as over (`runner.ts:636`). Neither makes a checkpoint say done.
- A router that hangs keeps its batch from returning: the deadline's timer
  (`orchestrator.ts:589-595`) only aborts a controller that nobody checks there.
- A second `dispatch_parallel` of a batch is given up after 30 seconds
  (`tool-registry.ts:115-137`), runs on and reports later. When the report comes between
  batches it may be left waiting, or be marked complete by an answer that has not seen it.
  The description of the tool says that the runtime waits for all its subagents.
- A batch compares copies with the project as it is at the merge: an outside edit is
  overwritten by a single winner, and is a false conflict of two
  (`workspace-isolation.ts:79`). A merge that fails half way leaves what it copied.
- An event is remembered and numbered before it is shed, so its retry within the
  window is refused (`event-bus.ts:169`). Two processes on one journal replace each
  other's rows (`event-journal.ts:80`).
- `dispatch_subagent` starts before a synthesis turn blocks it (`turn-loop.ts:237`); a
  turn that ends in its synthesis without an answer leaves the report to the next
  turn; the breaker looks for repeats of the last call of a batch only
  (`circuit-breaker.ts:74`); results of dispatches are not recorded in it.
- Initializations that overlap leave an MCP client that nobody stops
  (`client.ts:203`), and SIGKILL is never sent (`client.ts:82`: `killed` says that a
  signal was sent).

## 6. What is not modelled

- The legacy, non-journaled commit, and the shadow copy of a verification (I/O).
- Of the orchestrator: routing, prompts, reports, cost accounting; dispatches without
  the concurrency cap; a batch within a batch; the limits on depth and cycles beyond
  the error they throw.
- Of the task runner: convergence scores, stagnation, causal rollback (whose
  contents are read too late, `runner.ts:851`), the run manifest, log retention,
  migration of old checkpoints, checksums. A run has a process of its own, so the
  lease manager, which is keyed by node id only (`runner.ts:225`), is not shared
  between runs; memory pressure; a dispatch that never settles.
- Of the chat: the tools, history compaction, calls carried over a cut-off, the
  semantic-loop test (it changes nothing once three failures are reached), rollback on
  resume, and the loop without streaming (`chat/orchestrator.ts`), which is a copy.
- Of the event bus: subscribers, spilling to disk, replay, `clear` and `detach`. Of MCP:
  `callTool`, which no registered tool reaches.
- The session run coordinator and the waiting requests of the approval engine: only
  tests use them.
- The rate limiter (`providers/src/rate-limiter.ts`): it checks a budget, waits and
  reserves nothing (206), so concurrent requests pass one check; there is no bound it
  keeps to state. Governance: counters updated in one stretch of code.
- Memory: SQL over one connection. Recovery engine: synchronous copies of files.
- User interfaces, adapters of providers, model catalogs, skills, templates,
  benchmarks, heuristics, telemetry: most of the repository's lines. They keep no state
  whose interleavings matter here, or only format, score and forward.

## 7. Plan

Done: the modules above, in the order of their importance. What would come next:

1. The non-streaming loop as a second implementation of `ChatTurn`'s specification.
2. Variants for the liveness properties: a measure each fair step decreases, as an
   action property that can be proved.
3. Causal rollback over the mutations a run records.
