----------------------------- MODULE TaskRunner -----------------------------
(***************************************************************************)
(* Runs of a plan and its checkpoint                                       *)
(* (packages/core/src/task/runner.ts, runPlan, and task/checkpoint.ts).    *)
(*                                                                         *)
(* A run loads the checkpoint or starts afresh, and schedules the tasks of *)
(* the plan as their dependencies are met.  Each task is an asynchronous   *)
(* function of its own that dispatches an agent, runs the gate, and tries  *)
(* again; the scheduler waits for any of them to settle.  Every await is a *)
(* point where others run; what lies between two awaits is one action.     *)
(* Runs share nothing but the checkpoint file: each has its own process.   *)
(***************************************************************************)
EXTENDS Naturals, FiniteSets, FiniteSetsExt

CONSTANTS
  Tasks,           \* the numbers of the plan's tasks
  Plans,           \* the plans: the numbers, of tasks or dangling, that each
                   \* task depends on; only the first may have none
  From,            \* --from: the first task that is not skipped
  Runs,            \* bound: the calls of runPlan on the checkpoint
  MaxAttempts,     \* opts.maxAttempts
  MaxConcurrency,  \* 3 in the code
  CompactAt,       \* completed tasks that are collapsed on resume, 10 in the code
  LeasesExpire     \* whether a stalled event loop lets a lease expire

ASSUME TasksAssumption    == Tasks \subseteq Nat /\ IsFiniteSet(Tasks)
ASSUME PlansAssumption    ==
  Plans \subseteq {d \in [Tasks -> SUBSET Nat] :
                     \A t \in Tasks : d[t] = {} => \A u \in Tasks : t <= u}
ASSUME FromAssumption     == From \in Nat
ASSUME AttemptsAssumption == MaxAttempts \in Nat \ {0}
ASSUME LeasesAssumption   == LeasesExpire \in BOOLEAN

\* The states of a node; "COLLAPSED" is one that DagCompactor has replaced by
\* its milestone.  QUEUED, PAUSED and ABORTED are never seen between awaits.
NodeStates == {"PENDING", "RUNNING", "VERIFYING", "RECOVERING", "COMPLETED",
               "FAILED", "SKIPPED", "COLLAPSED"}

VARIABLES
  deps,      \* the plan
  saved,     \* the checkpoint file: its status ("none" before there is one),
             \* currentTask and nodes
  nodes,     \* nodes[r][t]: the state of a node in a run's memory
  current,   \* current[r]: cp.currentTask in a run's memory
  status,    \* status[r]: cp.status in a run's memory
  runPc,     \* where the scheduler of each run is
  taskPc,    \* taskPc[r][t]: where the function of task t is
  attempts,  \* attempts[r][t]: its attempts
  raced,     \* raced[r]: the tasks whose promises the scheduler awaits
  failed,    \* failed[r]: hasFailed
  passed,    \* history: the tasks that completed in some run
  recorded,  \* history: the tasks some checkpoint said were completed
  overlapped \* history: whether a run has started while another was alive

cp == <<nodes, current, status>>
memory == <<cp, runPc, taskPc, attempts, raced, failed>>
vars == <<deps, saved, memory, passed, recorded, overlapped>>

AtWork == {"starting", "recovering", "dispatching", "verifying"}
Active(r) == {t \in Tasks : taskPc[r][t] \in AtWork \union {"completing", "failing"}}

Settled == {"COMPLETED", "SKIPPED", "COLLAPSED"}

Init ==
  /\ deps \in Plans
  /\ saved    = [status |-> "none", current |-> From, nodes |-> [t \in Tasks |-> "PENDING"]]
  /\ nodes    = [r \in Runs |-> [t \in Tasks |-> "PENDING"]]
  /\ current  = [r \in Runs |-> From]
  /\ status   = [r \in Runs |-> "running"]
  /\ runPc    = [r \in Runs |-> "unused"]
  /\ taskPc   = [r \in Runs |-> [t \in Tasks |-> "idle"]]
  /\ attempts = [r \in Runs |-> [t \in Tasks |-> 0]]
  /\ raced    = [r \in Runs |-> {}]
  /\ failed   = [r \in Runs |-> FALSE]
  /\ passed   = {}
  /\ recorded = {}
  /\ overlapped = FALSE

-----------------------------------------------------------------------------
(* The checkpoint.                                                         *)

\* saveCheckpointRobust of run r with nodes ns: currentTask, cur so far, moves
\* to the first task that is not settled, and the file is replaced whole.
Save(r, ns, cur, st) ==
  LET unsettled == {t \in Tasks : ns[t] \notin Settled}
      next      == IF unsettled = {} THEN cur ELSE Min(unsettled)
  IN  /\ nodes'    = [nodes EXCEPT ![r] = ns]
      /\ current'  = [current EXCEPT ![r] = next]
      /\ status'   = [status EXCEPT ![r] = st]
      /\ saved'    = [status |-> st, current |-> next, nodes |-> ns]
      /\ recorded' = recorded \union {t \in Tasks : ns[t] = "COMPLETED"}

\* Faulty variant: every task of the checkpoint is pending again.
RestoredPending ==
  [t \in Tasks |-> IF t < From THEN "SKIPPED" ELSE "PENDING"]

\* The nodes of a run: those of the plan, overridden by the checkpoint's.
RestoredNodes ==
  IF saved.status = "none"
  THEN [t \in Tasks |-> IF t < From THEN "SKIPPED" ELSE "PENDING"]
  ELSE [t \in Tasks |->
          CASE saved.nodes[t] = "COLLAPSED" ->
                 IF t < saved.current THEN "SKIPPED" ELSE "PENDING"
            [] saved.nodes[t] \in {"COMPLETED", "SKIPPED"} -> saved.nodes[t]
            [] OTHER -> "PENDING"]

\* DagCompactor.compact: many completed tasks become one milestone, which the
\* tasks that depend on them depend on instead.
Compact(ns) ==
  IF Cardinality({t \in Tasks : ns[t] = "COMPLETED"}) < CompactAt
  THEN ns
  ELSE [t \in Tasks |-> IF ns[t] = "COMPLETED" THEN "COLLAPSED" ELSE ns[t]]

\* detectDagCycle: some tasks all depend on one another.
HasCycle(ns) ==
  \E S \in SUBSET {t \in Tasks : ns[t] # "COLLAPSED"} :
    S # {} /\ \A t \in S : deps[t] \cap S # {}

Alive(r) == runPc[r] \notin {"unused", "dead"}

\* A run starts on a checkpoint that is not over.  Nothing keeps it from
\* starting while another is alive.
MayStart(r) ==
  /\ runPc[r] = "unused"
  /\ saved.status \in {"none", "running"}
  /\ overlapped' = (overlapped \/ \E q \in Runs : Alive(q))

\* runPlan up to its loop, for a new plan or with the id of the checkpoint
\* (agency task resume, or autoResumeRecoverableTasks at startup).
StartRun(r) ==
  /\ MayStart(r)
  /\ LET ns == Compact(RestoredNodes) IN
       /\ ~ HasCycle(ns)
       /\ Save(r, ns, saved.current, "running")
  /\ runPc' = [runPc EXCEPT ![r] = "scheduling"]
  /\ UNCHANGED <<deps, taskPc, attempts, raced, failed, passed>>

\* PlanCycleError, before anything is saved.
StartRunOnCycle(r) ==
  /\ MayStart(r)
  /\ HasCycle(Compact(RestoredNodes))
  /\ runPc' = [runPc EXCEPT ![r] = "threw"]
  /\ UNCHANGED <<deps, saved, cp, taskPc, attempts, raced, failed,
                 passed, recorded>>

-----------------------------------------------------------------------------
(* One iteration of the scheduler's loop, from one await to the next.      *)

\* checkExpired: what the nodes are once the leases of E have expired.
Expire(r, E) ==
  [t \in Tasks |->
     IF t \in E /\ nodes[r][t] = "RUNNING" THEN "FAILED" ELSE nodes[r][t]]

ExpiredSets(r) == IF LeasesExpire THEN SUBSET Active(r) ELSE {{}}

\* Faulty variant: a dependency that failed is met as well.
MetWhenOver(ns, t) ==
  \A d \in deps[t] : d \in Tasks /\ ns[d] \in Settled \union {"FAILED"}

\* Faulty variant: a dependency that is no task is met.
MetWhenDangling(ns, t) == \A d \in deps[t] \intersect Tasks : ns[d] \in Settled

\* areDependenciesMet.
Met(ns, t) == \A d \in deps[t] : d \in Tasks /\ ns[d] \in Settled

Ready(ns) == {t \in Tasks : ns[t] = "PENDING" /\ Met(ns, t)}

\* The first n of a set of tasks.
FirstOf(S, n) == {t \in S : Cardinality({u \in S : u < t}) < n}

\* The check of hasFailed.
GoesOn(r) == ~ failed[r]

\* Faulty variant: no task is left to start.
AllStarted(r) == \A t \in Tasks : nodes[r][t] # "PENDING"

\* allDone counts what has failed, also what is about to be tried again.
AllDone(r) == \A t \in Tasks : nodes[r][t] \in Settled \union {"FAILED"}

\* A task failed or lost its lease: save twice and throw.
Abandon(r) ==
  \E E \in ExpiredSets(r) :
    LET ns == Expire(r, E) IN
      /\ ~ GoesOn(r) \/ ns # nodes[r]
      /\ Save(r, ns, current[r], "running")
      /\ failed' = [failed EXCEPT ![r] = TRUE]
      /\ runPc'  = [runPc EXCEPT ![r] = "threw"]
      /\ UNCHANGED <<deps, taskPc, attempts, raced, passed, overlapped>>

\* Faulty variant: nothing has failed if no function of a task gave up.
FinalStatusByFlag(r) == IF failed[r] THEN "running" ELSE "done"

\* The status of the run that returns.
FinalStatus(r) == IF \E t \in Tasks : nodes[r][t] = "FAILED" THEN "running" ELSE "done"

\* Nothing is left to do, not counting what has failed: the run returns.
Finish(r) ==
  /\ GoesOn(r)
  /\ AllDone(r)
  /\ Save(r, nodes[r], current[r], FinalStatus(r))
  /\ runPc' = [runPc EXCEPT ![r] = "returned"]
  /\ UNCHANGED <<deps, taskPc, attempts, raced, failed, passed, overlapped>>

\* Faulty variant: an empty race is awaited.
DeadlockUnseen(r) == FALSE

\* Pending tasks whose dependencies can never be met: throw.
Deadlocked(r) ==
  /\ GoesOn(r)
  /\ \E t \in Tasks : nodes[r][t] = "PENDING"
  /\ Active(r) = {}
  /\ Ready(nodes[r]) = {}
  /\ Save(r, nodes[r], current[r], "running")
  /\ runPc' = [runPc EXCEPT ![r] = "threw"]
  /\ UNCHANGED <<deps, taskPc, attempts, raced, failed, passed, overlapped>>

\* The nodes once the tasks of S are started and those of F of them have failed.
Started(ns, S, F) ==
  [t \in Tasks |-> IF t \in F THEN "FAILED" ELSE IF t \in S THEN "RUNNING" ELSE ns[t]]

\* The loop over the ready tasks S that fit.  The function of a task runs up to
\* its first await, unless it fails before: those of F do, and get as far as
\* ends says, onTaskFailure or the end of their functions.  The loop does not
\* look at hasFailed and starts the others as well, and races the promises of
\* those that are over, too.  (The file may say RUNNING of some that failed; a
\* restart makes no difference.)
StartEach(r, S) ==
  /\ \E F \in SUBSET S : \E ends \in [F -> {"failing", "settled", "rejected"}] :
       /\ IF S = {}
          THEN UNCHANGED <<saved, cp, recorded>>
          ELSE Save(r, Started(nodes[r], S, F), current[r], "running")
       /\ taskPc' = [taskPc EXCEPT ![r] =
            [t \in Tasks |-> IF t \in F THEN ends[t]
                             ELSE IF t \in S THEN "starting"
                             ELSE taskPc[r][t]]]
       /\ failed' = [failed EXCEPT ![r] = F # {}]
  /\ attempts' = [attempts EXCEPT ![r] =
       [t \in Tasks |-> IF t \in S THEN 1 ELSE attempts[r][t]]]
  /\ raced' = [raced EXCEPT ![r] = Active(r) \union S]

\* Ready tasks are started, one at a time under memory pressure, and the
\* scheduler awaits the first promise to settle.
StartTasks(r) ==
  /\ GoesOn(r)
  /\ ~ AllDone(r)
  /\ \E n \in {1, MaxConcurrency} :
       LET free   == IF n > Cardinality(Active(r)) THEN n - Cardinality(Active(r)) ELSE 0
           starts == FirstOf(Ready(nodes[r]), free)
       IN  /\ Active(r) \union starts # {}
           /\ StartEach(r, starts)
  /\ runPc' = [runPc EXCEPT ![r] = "racing"]
  /\ UNCHANGED <<deps, passed, overlapped>>

Schedule(r) ==
  /\ runPc[r] = "scheduling"
  /\ Abandon(r) \/ Finish(r) \/ Deadlocked(r) \/ StartTasks(r)

\* A promise of the race has been fulfilled.
Wake(r) ==
  /\ runPc[r] = "racing"
  /\ \E t \in raced[r] : taskPc[r][t] = "settled"
  /\ runPc' = [runPc EXCEPT ![r] = "scheduling"]
  /\ raced' = [raced EXCEPT ![r] = {}]
  /\ UNCHANGED <<deps, saved, cp, taskPc, attempts, failed, passed, recorded, overlapped>>

\* A promise of the race was rejected: save and throw.
WakeRejected(r) ==
  /\ runPc[r] = "racing"
  /\ \E t \in raced[r] : taskPc[r][t] = "rejected"
  /\ Save(r, nodes[r], current[r], "running")
  /\ runPc' = [runPc EXCEPT ![r] = "threw"]
  /\ UNCHANGED <<deps, taskPc, attempts, raced, failed, passed, overlapped>>

-----------------------------------------------------------------------------
(* The function of a task.  It goes on when the scheduler has thrown.      *)

TaskGoto(r, t, label) == taskPc' = [taskPc EXCEPT ![r][t] = label]
SetNode(r, t, state)  == nodes' = [nodes EXCEPT ![r][t] = state]

\* onTaskStart returns.  A retry is announced, the first attempt dispatched.
TaskStarted(r, t) ==
  /\ taskPc[r][t] = "starting"
  /\ IF attempts[r][t] = 1
     THEN TaskGoto(r, t, "dispatching") /\ UNCHANGED nodes
     ELSE TaskGoto(r, t, "recovering") /\ SetNode(r, t, "RECOVERING")
  /\ UNCHANGED <<deps, saved, current, status, runPc, attempts, raced, failed,
                 passed, recorded, overlapped>>

TaskRecovered(r, t) ==
  /\ taskPc[r][t] = "recovering"
  /\ SetNode(r, t, "RUNNING")
  /\ TaskGoto(r, t, "dispatching")
  /\ UNCHANGED <<deps, saved, current, status, runPc, attempts, raced, failed,
                 passed, recorded, overlapped>>

\* The catch block: the node has failed, and so has the run.
TaskCatches(r, t) ==
  /\ SetNode(r, t, "FAILED")
  /\ failed' = [failed EXCEPT ![r] = TRUE]
  /\ TaskGoto(r, t, "failing")

\* The agent's edits are in; a node that lost its lease is not RUNNING, and
\* its transition to VERIFYING throws.
Dispatched(r, t) ==
  /\ taskPc[r][t] = "dispatching"
  /\ \/ /\ nodes[r][t] = "RUNNING"
        /\ SetNode(r, t, "VERIFYING")
        /\ TaskGoto(r, t, "verifying")
        /\ UNCHANGED failed
     \/ /\ nodes[r][t] # "RUNNING"
        /\ TaskCatches(r, t)
  /\ UNCHANGED <<deps, saved, current, status, runPc, attempts, raced, passed,
                 recorded, overlapped>>

MayRetry(r, t) == attempts[r][t] < MaxAttempts

\* The agent, or the gate, reports a failure: try again, or give up.
AttemptFails(r, t) ==
  /\ taskPc[r][t] \in {"dispatching", "verifying"}
  /\ \/ /\ MayRetry(r, t)
        /\ attempts' = [attempts EXCEPT ![r][t] = @ + 1]
        /\ SetNode(r, t, "FAILED")
        /\ TaskGoto(r, t, "starting")
        /\ UNCHANGED failed
     \/ /\ ~ MayRetry(r, t)
        /\ TaskCatches(r, t)
        /\ UNCHANGED attempts
  /\ UNCHANGED <<deps, saved, current, status, runPc, raced, passed, recorded,
                 overlapped>>

\* Anything else throws: a timeout, a callback, the dispatch, stagnation.
TaskThrows(r, t) ==
  /\ taskPc[r][t] \in AtWork
  /\ TaskCatches(r, t)
  /\ UNCHANGED <<deps, saved, current, status, runPc, attempts, raced, passed,
                 recorded, overlapped>>

\* The gate passes.
GatePasses(r, t) ==
  /\ taskPc[r][t] = "verifying"
  /\ SetNode(r, t, "COMPLETED")
  /\ passed' = passed \union {t}
  /\ TaskGoto(r, t, "completing")
  /\ UNCHANGED <<deps, saved, current, status, runPc, attempts, raced, failed,
                 recorded, overlapped>>

\* The finally block, after onTaskComplete or onTaskFailure: save, settle.
\* onTaskComplete may throw: COMPLETED to FAILED is no transition, and the
\* promise is rejected; so it is when onTaskFailure throws.
TaskSettles(r, t) ==
  /\ taskPc[r][t] \in {"completing", "failing"}
  /\ Save(r, nodes[r], current[r], status[r])
  /\ \E end \in {"settled", "rejected"} : TaskGoto(r, t, end)
  /\ UNCHANGED <<deps, runPc, attempts, raced, failed, passed, overlapped>>

-----------------------------------------------------------------------------
(* The environment.                                                        *)

\* The process of a run dies or exits, and its memory is gone.
Die(r) ==
  /\ runPc[r] \notin {"unused", "dead"}
  /\ nodes'    = [nodes EXCEPT ![r] = [t \in Tasks |-> "PENDING"]]
  /\ taskPc'   = [taskPc EXCEPT ![r] = [t \in Tasks |-> "idle"]]
  /\ attempts' = [attempts EXCEPT ![r] = [t \in Tasks |-> 0]]
  /\ raced'    = [raced EXCEPT ![r] = {}]
  /\ failed'   = [failed EXCEPT ![r] = FALSE]
  /\ runPc'    = [runPc EXCEPT ![r] = "dead"]
  /\ UNCHANGED <<deps, saved, current, status, passed, recorded, overlapped>>

\* agency task abort: abortCheckpoint in a process of its own.
AbortCheckpoint ==
  /\ saved.status \notin {"none", "done"}
  /\ saved' = [saved EXCEPT !.status = "aborted"]
  /\ UNCHANGED <<deps, memory, passed, recorded, overlapped>>

-----------------------------------------------------------------------------
SchedulerStep(r) == Schedule(r) \/ Wake(r) \/ WakeRejected(r)

TaskStep(r, t) ==
  \/ TaskStarted(r, t) \/ TaskRecovered(r, t) \/ Dispatched(r, t)
  \/ AttemptFails(r, t) \/ TaskThrows(r, t) \/ GatePasses(r, t)
  \/ TaskSettles(r, t)

Next ==
  \/ \E r \in Runs : StartRun(r) \/ StartRunOnCycle(r) \/ SchedulerStep(r) \/ Die(r)
  \/ \E r \in Runs, t \in Tasks : TaskStep(r, t)
  \/ AbortCheckpoint

Spec == Init /\ [][Next]_vars

\* The event loop runs what is ready; agents, gates and callbacks return (each
\* task has a time limit).  Nobody has to start a run, kill or abort one.
FairSpec ==
  /\ Spec
  /\ \A r \in Runs : WF_vars(SchedulerStep(r))
  /\ \A r \in Runs, t \in Tasks : WF_vars(TaskStep(r, t))

-----------------------------------------------------------------------------
(* Properties.                                                             *)

RunStates  == {"unused", "scheduling", "racing", "returned", "threw", "dead"}
TaskStates == AtWork \union {"idle", "completing", "failing", "settled", "rejected"}
Checkpoints ==
  [status : {"none", "running", "done", "aborted"}, current : Nat, nodes : [Tasks -> NodeStates]]

\* Every variable has its type.
TypeOK ==
  /\ saved    \in Checkpoints
  /\ nodes    \in [Runs -> [Tasks -> NodeStates]]
  /\ current  \in [Runs -> Nat]
  /\ status   \in [Runs -> {"running", "done"}]
  /\ runPc    \in [Runs -> RunStates]
  /\ taskPc   \in [Runs -> [Tasks -> TaskStates]]
  /\ attempts \in [Runs -> [Tasks -> 0 .. MaxAttempts]]
  /\ raced    \in [Runs -> SUBSET Tasks]
  /\ failed   \in [Runs -> BOOLEAN]
  /\ passed   \subseteq Tasks
  /\ recorded \subseteq Tasks
  /\ overlapped \in BOOLEAN

\* A task is at work only after every task it depends on has passed its gate,
\* in this run or an earlier one, or was skipped by --from: through retries,
\* crashes, resumes, aborts, compaction and runs that overlap.
DependenciesFirst ==
  \A r \in Runs, t \in Tasks :
    taskPc[r][t] \in AtWork =>
      \A d \in deps[t] : d \in passed \/ d < From

\* A run returns as done only if every task of the plan has passed its gate or
\* was skipped by --from, and nothing of the run is still at work.
DoneMeansDone ==
  \A r \in Runs :
    runPc[r] = "returned" /\ status[r] = "done" =>
      /\ \A t \in Tasks : t \in passed \/ t < From
      /\ \A t \in Tasks : taskPc[r][t] \notin AtWork

\* Resuming goes on from the last checkpoint, as the README and the test
\* "resumes from checkpoint after simulated crash" say: what a checkpoint has
\* ever said to be completed is not done again.
CompletedTasksAreNotRepeated ==
  \A r \in Runs, t \in Tasks : taskPc[r][t] \in AtWork => t \notin recorded

\* The same as long as no run has started while another was alive: with fewer
\* tasks than DagCompactor collapses, only two processes on one checkpoint make
\* a run repeat what was done.
AloneNothingIsRepeated == ~ overlapped => CompletedTasksAreNotRepeated

\* A checkpoint that says done, which nobody resumes, leaves nothing behind:
\* every task of it is settled, and has passed its gate or was skipped by
\* --from, although runs that failed, tasks they left at work and other
\* processes save the same file.
DoneCheckpointsLeaveNothing ==
  saved.status = "done" =>
    \A t \in Tasks : saved.nodes[t] \in Settled /\ (t \in passed \/ t < From)

\* Every run comes to an end, whatever fails and whichever dependencies can
\* never be met.
RunsEnd ==
  \A r \in Runs :
    runPc[r] \in {"scheduling", "racing"} ~> runPc[r] \in {"returned", "threw", "dead"}

=============================================================================
