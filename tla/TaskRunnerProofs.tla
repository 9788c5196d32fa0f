-------------------------- MODULE TaskRunnerProofs --------------------------
(***************************************************************************)
(* Proofs about runs of a plan, for every plan and any number of runs, and *)
(* about the loop in which a task is verified (at the end), which is of    *)
(* packages/core/src/task too, for any limits and kinds of failure.        *)
(***************************************************************************)
EXTENDS TaskRunner, VerifyLoop, SequenceTheorems, FiniteSetTheorems,
        WellFoundedInduction, TLAPS

\* A set of numbers that is not empty has a least element: currentTask exists.
LEMMA MinExists ==
  ASSUME NEW S \in SUBSET Nat, S # {}
  PROVE  Min(S) \in S
<1> DEFINE R == OpToRel(<, Nat)
<1>1. PICK x \in S : \A y \in S : ~ (<<y, x>> \in R)
  <2>1. IsWellFoundedOn(R, Nat)
    BY NatLessThanWellFounded
  <2> HIDE DEF R
  <2>2. QED
    BY <2>1, WFMin
<1>2. ASSUME NEW y \in S
      PROVE  x <= y
  <2>1. ~ (<<y, x>> \in R)
    BY <1>1
  <2>2. <<y, x>> \in R <=> y < x
    BY DEF OpToRel
  <2>3. x \in Nat /\ y \in Nat
    OBVIOUS
  <2> HIDE DEF R
  <2>4. QED
    BY <2>1, <2>2, <2>3
<1>3. QED
  BY <1>2 DEF Min

-----------------------------------------------------------------------------
(* Types.                                                                  *)

\* What a save does to the checkpoint and to the memory of the run.
LEMMA SaveFacts ==
  ASSUME TypeOK,
         NEW r \in Runs, NEW ns \in [Tasks -> NodeStates], NEW cur \in Nat,
         NEW st \in {"running", "done"}, Save(r, ns, cur, st)
  PROVE  /\ saved' \in Checkpoints
         /\ saved'.nodes = ns
         /\ saved'.status = st
         /\ nodes' = [nodes EXCEPT ![r] = ns]
         /\ nodes' \in [Runs -> [Tasks -> NodeStates]]
         /\ current' \in [Runs -> Nat]
         /\ status' = [status EXCEPT ![r] = st]
         /\ status' \in [Runs -> {"running", "done"}]
         /\ recorded' = recorded \union {t \in Tasks : ns[t] = "COMPLETED"}
         /\ recorded' \subseteq Tasks
<1> DEFINE unsettled == {t \in Tasks : ns[t] \notin Settled}
           next      == IF unsettled = {} THEN cur ELSE Min(unsettled)
<1>1. next \in Nat
  <2>1. unsettled \in SUBSET Nat
    BY TasksAssumption
  <2> HIDE DEF unsettled
  <2>2. CASE unsettled = {}
    BY <2>2
  <2>3. CASE unsettled # {}
    BY <2>1, <2>3, MinExists
  <2>4. QED
    BY <2>2, <2>3
<1>2. /\ nodes'    = [nodes EXCEPT ![r] = ns]
      /\ current'  = [current EXCEPT ![r] = next]
      /\ status'   = [status EXCEPT ![r] = st]
      /\ saved'    = [status |-> st, current |-> next, nodes |-> ns]
      /\ recorded' = recorded \union {t \in Tasks : ns[t] = "COMPLETED"}
  BY DEF Save
<1> HIDE DEF next
<1>3. saved' \in Checkpoints
  BY <1>1, <1>2 DEF Checkpoints
<1>4. QED
  BY <1>1, <1>2, <1>3 DEF TypeOK

\* The nodes a run starts with, before and after compaction.
LEMMA RestoredType ==
  ASSUME TypeOK
  PROVE  /\ RestoredNodes \in [Tasks -> NodeStates]
         /\ Compact(RestoredNodes) \in [Tasks -> NodeStates]
<1>1. RestoredNodes \in [Tasks -> NodeStates]
  BY DEF TypeOK, Checkpoints, RestoredNodes, NodeStates
<1>2. Compact(RestoredNodes) \in [Tasks -> NodeStates]
  BY <1>1 DEF Compact, NodeStates
<1>3. QED
  BY <1>1, <1>2

LEMMA ExpireType ==
  ASSUME TypeOK, NEW r \in Runs, NEW E
  PROVE  Expire(r, E) \in [Tasks -> NodeStates]
BY DEF TypeOK, Expire, NodeStates

\* What an action of a task's function, other than its last, does: it sets the
\* state of the node and where the function is.
TaskMoves(r, t, state, label) ==
  /\ taskPc[r][t] \in AtWork
  /\ nodes'  = [nodes EXCEPT ![r][t] = state]
  /\ taskPc' = [taskPc EXCEPT ![r][t] = label]
  /\ label \in AtWork => state \notin Settled \/ state = nodes[r][t]
  /\ state \in Settled => t \in passed' \/ state = nodes[r][t]
  /\ passed' \in {passed, passed \union {t}}
  /\ failed' \in {failed, [failed EXCEPT ![r] = TRUE]}
  /\ UNCHANGED <<deps, saved, current, status, runPc, raced, recorded, overlapped>>

WorkingStep(r, t) ==
  \/ TaskStarted(r, t) \/ TaskRecovered(r, t) \/ Dispatched(r, t)
  \/ AttemptFails(r, t) \/ TaskThrows(r, t) \/ GatePasses(r, t)

LEMMA WorkingStepsMove ==
  ASSUME TypeOK, NEW r \in Runs, NEW t \in Tasks, WorkingStep(r, t)
  PROVE  \E state \in NodeStates, label \in TaskStates \ {"idle"} :
           TaskMoves(r, t, state, label)
<1> USE DEF TaskMoves, AtWork, Settled, NodeStates, TaskStates, TaskGoto, SetNode
<1>1. CASE TaskStarted(r, t)
  <2>1. CASE attempts[r][t] = 1
    <3>1. nodes[r][t] \in NodeStates /\ nodes = [nodes EXCEPT ![r][t] = nodes[r][t]]
      BY DEF TypeOK
    <3>2. TaskMoves(r, t, nodes[r][t], "dispatching")
      BY <1>1, <2>1, <3>1 DEF TaskStarted
    <3>3. QED
      BY <3>1, <3>2
  <2>2. CASE attempts[r][t] # 1
    <3>1. TaskMoves(r, t, "RECOVERING", "recovering")
      BY <1>1, <2>2 DEF TaskStarted
    <3>2. QED
      BY <3>1
  <2>3. QED
    BY <2>1, <2>2
<1>2. CASE TaskRecovered(r, t)
  <2>1. TaskMoves(r, t, "RUNNING", "dispatching")
    BY <1>2 DEF TaskRecovered
  <2>2. QED
    BY <2>1
<1>3. CASE Dispatched(r, t)
  <2>1. TaskMoves(r, t, "VERIFYING", "verifying") \/ TaskMoves(r, t, "FAILED", "failing")
    BY <1>3 DEF Dispatched, TaskCatches
  <2>2. QED
    BY <2>1
<1>4. CASE AttemptFails(r, t)
  <2>1. TaskMoves(r, t, "FAILED", "starting") \/ TaskMoves(r, t, "FAILED", "failing")
    BY <1>4 DEF AttemptFails, TaskCatches
  <2>2. QED
    BY <2>1
<1>5. CASE TaskThrows(r, t)
  <2>1. TaskMoves(r, t, "FAILED", "failing")
    BY <1>5 DEF TaskThrows, TaskCatches
  <2>2. QED
    BY <2>1
<1>6. CASE GatePasses(r, t)
  <2>1. TaskMoves(r, t, "COMPLETED", "completing")
    BY <1>6 DEF GatePasses
  <2>2. QED
    BY <2>1
<1>7. QED
  BY <1>1, <1>2, <1>3, <1>4, <1>5, <1>6 DEF WorkingStep

LEMMA InitType == Init => TypeOK
<1> SUFFICES ASSUME Init PROVE TypeOK
  OBVIOUS
<1>1. overlapped \in BOOLEAN
  BY DEF Init
<1>2. QED
  BY <1>1, FromAssumption, AttemptsAssumption
  DEF Init, TypeOK, Checkpoints, NodeStates, RunStates, TaskStates, AtWork

LEMMA OverlappedType ==
  ASSUME TypeOK, [Next]_vars
  PROVE  overlapped' \in BOOLEAN
<1>0. overlapped \in BOOLEAN
  BY DEF TypeOK
<1>1. CASE overlapped' = overlapped
  BY <1>0, <1>1
<1>2. ASSUME NEW r \in Runs, MayStart(r)
      PROVE  overlapped' \in BOOLEAN
  BY <1>2 DEF MayStart
<1>3. overlapped' = overlapped \/ \E r \in Runs : MayStart(r)
  <2>1. ASSUME NEW r \in Runs, SchedulerStep(r) \/ Die(r)
        PROVE  overlapped' = overlapped
    BY <2>1 DEF SchedulerStep, Schedule, Abandon, Finish, Deadlocked, StartTasks, Wake,
                WakeRejected, Die
  <2>2. ASSUME NEW r \in Runs, NEW t \in Tasks, TaskStep(r, t)
        PROVE  overlapped' = overlapped
    BY <2>2 DEF TaskStep, TaskStarted, TaskRecovered, Dispatched, AttemptFails, TaskThrows,
                GatePasses, TaskSettles
  <2>3. ASSUME NEW r \in Runs, StartRun(r) \/ StartRunOnCycle(r)
        PROVE  MayStart(r)
    BY <2>3 DEF StartRun, StartRunOnCycle
  <2>4. CASE AbortCheckpoint \/ UNCHANGED vars
    BY <2>4 DEF AbortCheckpoint, vars
  <2>5. QED
    BY <2>1, <2>2, <2>3, <2>4 DEF Next
<1>4. QED
  BY <1>1, <1>2, <1>3

\* The tasks a scheduler starts were ready.
LEMMA TasksThatStart ==
  ASSUME NEW r \in Runs, StartTasks(r)
  PROVE  \E S \in SUBSET Ready(nodes[r]) : StartEach(r, S)
<1>1. \E n : StartEach(r, FirstOf(Ready(nodes[r]), n))
  BY DEF StartTasks
<1>2. ASSUME NEW n
      PROVE  FirstOf(Ready(nodes[r]), n) \in SUBSET Ready(nodes[r])
  BY DEF FirstOf
<1>3. QED
  BY <1>1, <1>2

LEMMA StepType == TypeOK /\ [Next]_vars => TypeOK'
<1> SUFFICES ASSUME TypeOK, [Next]_vars
             PROVE  TypeOK'
  OBVIOUS
<1> USE AttemptsAssumption
<1>0. overlapped' \in BOOLEAN
  BY OverlappedType
<1>1. ASSUME NEW r \in Runs, StartRun(r)
      PROVE  TypeOK'
  <2>1. Save(r, Compact(RestoredNodes), saved.current, "running")
    BY <1>1 DEF StartRun
  <2>2. saved.current \in Nat
    BY DEF TypeOK, Checkpoints
  <2>3. Compact(RestoredNodes) \in [Tasks -> NodeStates]
    BY RestoredType
  <2>4. /\ saved' \in Checkpoints
        /\ nodes' \in [Runs -> [Tasks -> NodeStates]]
        /\ current' \in [Runs -> Nat]
        /\ status' \in [Runs -> {"running", "done"}]
        /\ recorded' \subseteq Tasks
    BY <2>1, <2>2, <2>3, SaveFacts
  <2>5. QED
    BY <1>0, <1>1, <2>4 DEF StartRun, TypeOK, RunStates
<1>2. ASSUME NEW r \in Runs, StartRunOnCycle(r)
      PROVE  TypeOK'
  BY <1>0, <1>2 DEF StartRunOnCycle, TypeOK, RunStates, cp
<1>3. ASSUME NEW r \in Runs, Abandon(r)
      PROVE  TypeOK'
  <2>1. PICK E \in ExpiredSets(r) : Save(r, Expire(r, E), current[r], "running")
    BY <1>3 DEF Abandon
  <2>2. current[r] \in Nat
    BY DEF TypeOK
  <2>3. QED
    BY <1>0, <1>3, <2>1, <2>2, ExpireType, SaveFacts DEF Abandon, TypeOK, RunStates
<1>4. ASSUME NEW r \in Runs, Finish(r)
      PROVE  TypeOK'
  <2>1. Save(r, nodes[r], current[r], FinalStatus(r))
    BY <1>4 DEF Finish
  <2>2. /\ current[r] \in Nat
        /\ nodes[r] \in [Tasks -> NodeStates]
        /\ FinalStatus(r) \in {"running", "done"}
    BY DEF TypeOK, FinalStatus
  <2>3. /\ saved' \in Checkpoints
        /\ nodes' \in [Runs -> [Tasks -> NodeStates]]
        /\ current' \in [Runs -> Nat]
        /\ status' \in [Runs -> {"running", "done"}]
        /\ recorded' \subseteq Tasks
    BY <2>1, <2>2, SaveFacts
  <2>4. QED
    BY <1>0, <1>4, <2>3 DEF Finish, TypeOK, RunStates
<1>5. ASSUME NEW r \in Runs, Deadlocked(r) \/ WakeRejected(r)
      PROVE  TypeOK'
  <2>1. Save(r, nodes[r], current[r], "running")
    BY <1>5 DEF Deadlocked, WakeRejected
  <2>2. /\ current[r] \in Nat
        /\ nodes[r] \in [Tasks -> NodeStates]
    BY DEF TypeOK
  <2>3. /\ saved' \in Checkpoints
        /\ nodes' \in [Runs -> [Tasks -> NodeStates]]
        /\ current' \in [Runs -> Nat]
        /\ status' \in [Runs -> {"running", "done"}]
        /\ recorded' \subseteq Tasks
    BY <2>1, <2>2, SaveFacts
  <2>4. QED
    BY <1>0, <1>5, <2>3 DEF Deadlocked, WakeRejected, TypeOK, RunStates
<1>6. ASSUME NEW r \in Runs, StartTasks(r)
      PROVE  TypeOK'
  <2>1. PICK S \in SUBSET Ready(nodes[r]) : StartEach(r, S)
    BY <1>6, TasksThatStart
  <2>2. PICK F, ends :
           /\ F \in SUBSET S
           /\ ends \in [F -> {"failing", "settled", "rejected"}]
           /\ IF S = {} THEN UNCHANGED <<saved, cp, recorded>>
                        ELSE Save(r, Started(nodes[r], S, F), current[r], "running")
           /\ taskPc' = [taskPc EXCEPT ![r] =
                [t \in Tasks |-> IF t \in F THEN ends[t]
                                 ELSE IF t \in S THEN "starting" ELSE taskPc[r][t]]]
           /\ failed' = [failed EXCEPT ![r] = F # {}]
    BY <2>1 DEF StartEach
  <2>3. /\ S \subseteq Tasks
        /\ current[r] \in Nat
        /\ Started(nodes[r], S, F) \in [Tasks -> NodeStates]
    BY DEF TypeOK, NodeStates, Started, Ready
  <2>4. /\ runPc' = [runPc EXCEPT ![r] = "racing"]
        /\ UNCHANGED <<deps, passed>>
    BY <1>6 DEF StartTasks
  <2>5. /\ saved' \in Checkpoints
        /\ nodes' \in [Runs -> [Tasks -> NodeStates]]
        /\ current' \in [Runs -> Nat]
        /\ status' \in [Runs -> {"running", "done"}]
        /\ recorded' \subseteq Tasks
    <3>1. CASE S = {}
      BY <2>2, <3>1 DEF TypeOK, cp
    <3>2. CASE S # {}
      BY <2>2, <2>3, <3>2, SaveFacts
    <3>3. QED
      BY <3>1, <3>2
  <2>6. taskPc' \in [Runs -> [Tasks -> TaskStates]]
    BY <2>2, <2>3 DEF TypeOK, TaskStates, AtWork
  <2>7. /\ attempts' \in [Runs -> [Tasks -> 0 .. MaxAttempts]]
        /\ raced' \in [Runs -> SUBSET Tasks]
    BY <2>1, <2>3 DEF StartEach, TypeOK, Active
  <2>8. failed' \in [Runs -> BOOLEAN]
    <3>1. (F # {}) \in BOOLEAN
      OBVIOUS
    <3>2. QED
      BY <2>2, <3>1 DEF TypeOK
  <2>9. QED
    BY <1>0, <2>4, <2>5, <2>6, <2>7, <2>8 DEF TypeOK, RunStates
<1>7. ASSUME NEW r \in Runs, Wake(r)
      PROVE  TypeOK'
  BY <1>0, <1>7 DEF Wake, TypeOK, RunStates, cp
<1>8. ASSUME NEW r \in Runs, Die(r)
      PROVE  TypeOK'
  BY <1>0, <1>8 DEF Die, TypeOK, RunStates, NodeStates, TaskStates, AtWork
<1>9. ASSUME NEW r \in Runs, NEW t \in Tasks, WorkingStep(r, t)
      PROVE  TypeOK'
  <2>1. PICK state \in NodeStates, label \in TaskStates \ {"idle"} :
               TaskMoves(r, t, state, label)
    BY <1>9, WorkingStepsMove
  <2>2. attempts' \in [Runs -> [Tasks -> 0 .. MaxAttempts]]
    <3>1. CASE AttemptFails(r, t)
      <4>1. attempts[r][t] \in 0 .. MaxAttempts
        BY DEF TypeOK
      <4>2. CASE attempts' = attempts
        BY <4>2 DEF TypeOK
      <4>3. CASE MayRetry(r, t) /\ attempts' = [attempts EXCEPT ![r][t] = @ + 1]
        <5>1. attempts[r][t] + 1 \in 0 .. MaxAttempts
          BY <4>1, <4>3 DEF MayRetry
        <5>2. QED
          BY <4>3, <5>1 DEF TypeOK
      <4>4. QED
        BY <3>1, <4>2, <4>3 DEF AttemptFails
    <3>2. CASE ~ AttemptFails(r, t)
      BY <1>9, <3>2 DEF WorkingStep, TaskStarted, TaskRecovered, Dispatched, TaskThrows,
                        GatePasses, TypeOK
    <3>3. QED
      BY <3>1, <3>2
  <2>3. QED
    BY <1>0, <2>1, <2>2 DEF TaskMoves, TypeOK
<1>10. ASSUME NEW r \in Runs, NEW t \in Tasks, TaskSettles(r, t)
       PROVE  TypeOK'
  <2>1. Save(r, nodes[r], current[r], status[r])
    BY <1>10 DEF TaskSettles
  <2>2. /\ current[r] \in Nat
        /\ nodes[r] \in [Tasks -> NodeStates]
        /\ status[r] \in {"running", "done"}
    BY DEF TypeOK
  <2>3. taskPc' \in [Runs -> [Tasks -> TaskStates]]
    BY <1>10 DEF TaskSettles, TaskGoto, TypeOK, TaskStates
  <2>4. /\ saved' \in Checkpoints
        /\ nodes' \in [Runs -> [Tasks -> NodeStates]]
        /\ current' \in [Runs -> Nat]
        /\ status' \in [Runs -> {"running", "done"}]
        /\ recorded' \subseteq Tasks
    BY <2>1, <2>2, SaveFacts
  <2>5. QED
    BY <1>0, <1>10, <2>3, <2>4 DEF TaskSettles, TypeOK
<1>11. CASE AbortCheckpoint
  BY <1>0, <1>11 DEF AbortCheckpoint, TypeOK, Checkpoints, memory, cp
<1>12. CASE UNCHANGED vars
  BY <1>12 DEF vars, memory, cp, TypeOK
<1>13. QED
  BY <1>1, <1>2, <1>3, <1>4, <1>5, <1>6, <1>7, <1>8, <1>9, <1>10, <1>11, <1>12
  DEF Next, SchedulerStep, Schedule, TaskStep, WorkingStep

\* Every variable has its type, in every run of every plan: currentTask is a
\* number, attempts stay within --max-attempts.
THEOREM TypeCorrect == Spec => []TypeOK
<1>1. Init => TypeOK
  BY InitType
<1>2. TypeOK /\ [Next]_vars => TypeOK'
  BY StepType
<1>3. QED
  BY <1>1, <1>2, PTL DEF Spec

-----------------------------------------------------------------------------
(* Dependencies first, and what done means.                                *)

\* What is settled, in the checkpoint or in a run, has passed or was skipped.
SettledHavePassed ==
  /\ \A t \in Tasks : saved.nodes[t] \in Settled => t \in passed \/ t < From
  /\ \A r \in Runs, t \in Tasks : nodes[r][t] \in Settled => t \in passed \/ t < From

\* Without a process there are no functions.
FunctionsNeedAProcess ==
  \A r \in Runs, t \in Tasks : runPc[r] \in {"unused", "dead"} => taskPc[r][t] = "idle"

\* What is at work is not settled.
WorkIsUnsettled ==
  \A r \in Runs, t \in Tasks : taskPc[r][t] \in AtWork => nodes[r][t] \notin Settled

IInv ==
  /\ TypeOK
  /\ SettledHavePassed
  /\ FunctionsNeedAProcess
  /\ WorkIsUnsettled
  /\ DependenciesFirst
  /\ DoneMeansDone

\* A step of the scheduler, or of a function that settles, that saves nodes ns
\* which differ from those of the run in nothing that is settled.
Saves(r, ns) ==
  /\ saved'.nodes = ns
  /\ saved'.status # "none"
  /\ nodes' = [nodes EXCEPT ![r] = ns]
  /\ recorded' = recorded \union {t \in Tasks : ns[t] = "COMPLETED"}
  /\ \A t \in Tasks : ns[t] = nodes[r][t] \/ (ns[t] \notin Settled /\ nodes[r][t] \notin Settled)
  /\ UNCHANGED <<deps, passed>>

LEMMA SchedulerSaves ==
  ASSUME TypeOK, NEW r \in Runs,
         Abandon(r) \/ Finish(r) \/ Deadlocked(r) \/ WakeRejected(r)
  PROVE  \E ns \in [Tasks -> NodeStates] :
           /\ Saves(r, ns)
           /\ UNCHANGED taskPc
           /\ \/ /\ runPc' = [runPc EXCEPT ![r] = "threw"]
                 /\ status' = [status EXCEPT ![r] = "running"]
              \/ /\ runPc' = [runPc EXCEPT ![r] = "returned"]
                 /\ ns = nodes[r]
                 /\ AllDone(r)
                 /\ status' = [status EXCEPT ![r] = FinalStatus(r)]
<1>0. /\ current[r] \in Nat
      /\ nodes[r] \in [Tasks -> NodeStates]
      /\ FinalStatus(r) \in {"running", "done"}
  BY DEF TypeOK, FinalStatus
<1>1. CASE Abandon(r)
  <2>1. PICK E \in ExpiredSets(r) : Save(r, Expire(r, E), current[r], "running")
    BY <1>1 DEF Abandon
  <2>2. \A t \in Tasks : \/ Expire(r, E)[t] = nodes[r][t]
                         \/ Expire(r, E)[t] \notin Settled /\ nodes[r][t] \notin Settled
    BY DEF Expire, Settled
  <2>3. UNCHANGED <<deps, passed>>
    BY <1>1 DEF Abandon
  <2>4. /\ saved'.nodes = Expire(r, E)
        /\ saved'.status # "none"
        /\ nodes' = [nodes EXCEPT ![r] = Expire(r, E)]
        /\ recorded' = recorded \union {t \in Tasks : Expire(r, E)[t] = "COMPLETED"}
        /\ status' = [status EXCEPT ![r] = "running"]
    BY <2>1, <1>0, ExpireType, SaveFacts
  <2>5. Saves(r, Expire(r, E)) /\ status' = [status EXCEPT ![r] = "running"]
    BY <2>2, <2>3, <2>4 DEF Saves
  <2>6. QED
    BY <1>1, <2>5, ExpireType DEF Abandon
<1>2. CASE Finish(r)
  <2>1. Save(r, nodes[r], current[r], FinalStatus(r))
    BY <1>2 DEF Finish
  <2>2. Saves(r, nodes[r]) /\ status' = [status EXCEPT ![r] = FinalStatus(r)]
    BY <1>0, <1>2, <2>1, SaveFacts DEF Finish, Saves
  <2>3. QED
    BY <1>0, <1>2, <2>2 DEF Finish
<1>3. CASE Deadlocked(r) \/ WakeRejected(r)
  <2>1. Save(r, nodes[r], current[r], "running")
    BY <1>3 DEF Deadlocked, WakeRejected
  <2>2. Saves(r, nodes[r]) /\ status' = [status EXCEPT ![r] = "running"]
    BY <1>0, <1>3, <2>1, SaveFacts DEF Deadlocked, WakeRejected, Saves
  <2>3. QED
    BY <1>0, <1>3, <2>2 DEF Deadlocked, WakeRejected
<1>4. QED
  BY <1>1, <1>2, <1>3

LEMMA SettlingSaves ==
  ASSUME TypeOK, NEW r \in Runs, NEW t \in Tasks, TaskSettles(r, t)
  PROVE  /\ Saves(r, nodes[r])
         /\ UNCHANGED <<runPc, status>>
         /\ taskPc[r][t] \in {"completing", "failing"}
         /\ \E end \in {"settled", "rejected"} : taskPc' = [taskPc EXCEPT ![r][t] = end]
<1>1. /\ current[r] \in Nat
      /\ nodes[r] \in [Tasks -> NodeStates]
      /\ status[r] \in {"running", "done"}
      /\ status = [status EXCEPT ![r] = status[r]]
  BY DEF TypeOK
<1>2. Save(r, nodes[r], current[r], status[r])
  BY DEF TaskSettles
<1>3. Saves(r, nodes[r]) /\ status' = status
  BY <1>1, <1>2, SaveFacts DEF TaskSettles, Saves
<1>4. QED
  BY <1>3 DEF TaskSettles, TaskGoto

\* Starting the tasks of S makes nodes ns and control points pcs: they were
\* ready, and are at work or have failed.
Starting(r, S, ns, pcs) ==
  /\ \A t \in Tasks \ S : ns[t] = nodes[r][t] /\ pcs[t] = taskPc[r][t]
  /\ \A t \in S : /\ nodes[r][t] = "PENDING"
                  /\ \A d \in deps[t] : d \in Tasks /\ nodes[r][d] \in Settled
                  /\ ns[t] \in {"RUNNING", "FAILED"}
                  /\ pcs[t] \in {"starting", "failing", "settled", "rejected"}
  /\ \/ Saves(r, ns) /\ saved'.status = "running" /\ status' = [status EXCEPT ![r] = "running"]
     \/ ns = nodes[r] /\ UNCHANGED <<deps, passed, saved, nodes, status, recorded>>
  /\ taskPc' = [taskPc EXCEPT ![r] = pcs]
  /\ runPc' = [runPc EXCEPT ![r] = "racing"]

LEMMA StartingTasks ==
  ASSUME TypeOK, NEW r \in Runs, StartTasks(r)
  PROVE  \E S \in SUBSET Tasks, ns \in [Tasks -> NodeStates], pcs \in [Tasks -> TaskStates] :
           Starting(r, S, ns, pcs)
<1>1. PICK S \in SUBSET Ready(nodes[r]) : StartEach(r, S)
  BY TasksThatStart
<1>2. PICK F, ends :
        /\ F \in SUBSET S
        /\ ends \in [F -> {"failing", "settled", "rejected"}]
        /\ IF S = {} THEN UNCHANGED <<saved, cp, recorded>>
                     ELSE Save(r, Started(nodes[r], S, F), current[r], "running")
        /\ taskPc' = [taskPc EXCEPT ![r] =
             [t \in Tasks |-> IF t \in F THEN ends[t]
                              ELSE IF t \in S THEN "starting" ELSE taskPc[r][t]]]
        /\ failed' = [failed EXCEPT ![r] = F # {}]
  BY <1>1 DEF StartEach
<1> DEFINE ns  == Started(nodes[r], S, F)
           pcs == [t \in Tasks |-> IF t \in F THEN ends[t]
                                   ELSE IF t \in S THEN "starting" ELSE taskPc[r][t]]
<1>3. /\ S \in SUBSET Tasks
      /\ F \in SUBSET S
      /\ \A t \in F : ends[t] \in {"failing", "settled", "rejected"}
  BY <1>2 DEF Ready
<1>4. ns \in [Tasks -> NodeStates]
  BY <1>3 DEF TypeOK, NodeStates, Started
<1>5. pcs \in [Tasks -> TaskStates]
  BY <1>3 DEF TypeOK, TaskStates, AtWork
<1>6. \A t \in Tasks \ S : ns[t] = nodes[r][t] /\ pcs[t] = taskPc[r][t]
  BY <1>3 DEF Started
<1>7. \A t \in S : ns[t] \in {"RUNNING", "FAILED"}
  BY <1>3 DEF Started
<1>8. \A t \in S : pcs[t] \in {"starting", "failing", "settled", "rejected"}
  BY <1>3
<1>9. \A t \in S : /\ nodes[r][t] = "PENDING"
                   /\ \A d \in deps[t] : d \in Tasks /\ nodes[r][d] \in Settled
  BY DEF Ready, Met
<1>10. /\ taskPc' = [taskPc EXCEPT ![r] = pcs]
       /\ runPc' = [runPc EXCEPT ![r] = "racing"]
       /\ UNCHANGED <<deps, passed>>
  BY <1>2 DEF StartTasks
<1>11. IF S = {} THEN UNCHANGED <<saved, cp, recorded>> ELSE Save(r, ns, current[r], "running")
  BY <1>2
<1> HIDE DEF ns, pcs
<1>12. CASE S = {}
  <2>1. ns = nodes[r]
    BY <1>4, <1>6, <1>12 DEF TypeOK
  <2>2. UNCHANGED <<saved, nodes, status, recorded>>
    BY <1>11, <1>12 DEF cp
  <2>3. Starting(r, S, ns, pcs)
    BY <1>6, <1>7, <1>8, <1>9, <1>10, <2>1, <2>2 DEF Starting
  <2>4. QED
    BY <1>3, <1>4, <1>5, <2>3
<1>13. CASE S # {}
  <2>1. Save(r, ns, current[r], "running") /\ current[r] \in Nat
    BY <1>11, <1>13 DEF TypeOK
  <2>2. \A t \in Tasks : \/ ns[t] = nodes[r][t]
                         \/ ns[t] \notin Settled /\ nodes[r][t] \notin Settled
    BY <1>6, <1>7, <1>9 DEF Settled
  <2>3. /\ saved'.nodes = ns
        /\ saved'.status = "running"
        /\ nodes' = [nodes EXCEPT ![r] = ns]
        /\ status' = [status EXCEPT ![r] = "running"]
        /\ recorded' = recorded \union {t \in Tasks : ns[t] = "COMPLETED"}
    BY <1>4, <2>1, SaveFacts
  <2>4. Saves(r, ns)
    BY <1>10, <2>2, <2>3 DEF Saves
  <2>5. Starting(r, S, ns, pcs)
    BY <1>6, <1>7, <1>8, <1>9, <1>10, <2>3, <2>4 DEF Starting
  <2>6. QED
    BY <1>3, <1>4, <1>5, <2>5
<1>14. QED
  BY <1>12, <1>13

\* A run takes over from the checkpoint; nothing becomes settled on the way
\* but what --from skips.
LEMMA TakingOver ==
  ASSUME TypeOK, NEW r \in Runs, StartRun(r)
  PROVE  LET ns == Compact(RestoredNodes) IN
         /\ \A t \in Tasks : ns[t] \in Settled => saved.nodes[t] \in Settled \/ t < From
         /\ runPc[r] = "unused"
         /\ saved'.nodes = ns
         /\ saved'.status # "none"
         /\ nodes' = [nodes EXCEPT ![r] = ns]
         /\ recorded' = recorded \union {t \in Tasks : ns[t] = "COMPLETED"}
         /\ status' = [status EXCEPT ![r] = "running"]
         /\ runPc' = [runPc EXCEPT ![r] = "scheduling"]
         /\ UNCHANGED <<deps, passed, taskPc>>
<1>1. \A t \in Tasks : RestoredNodes[t] \in Settled => saved.nodes[t] \in Settled \/ t < From
  BY DEF RestoredNodes, Settled, TypeOK, Checkpoints
<1>2. \A t \in Tasks : Compact(RestoredNodes)[t] \in Settled => RestoredNodes[t] \in Settled
  BY DEF Compact, Settled
<1>3. Save(r, Compact(RestoredNodes), saved.current, "running")
  BY DEF StartRun
<1>4. Compact(RestoredNodes) \in [Tasks -> NodeStates] /\ saved.current \in Nat
  BY RestoredType DEF TypeOK, Checkpoints
<1>5. /\ saved'.nodes = Compact(RestoredNodes)
      /\ saved'.status # "none"
      /\ nodes' = [nodes EXCEPT ![r] = Compact(RestoredNodes)]
      /\ recorded' = recorded \union {t \in Tasks : Compact(RestoredNodes)[t] = "COMPLETED"}
      /\ status' = [status EXCEPT ![r] = "running"]
  BY <1>3, <1>4, SaveFacts
<1>6. QED
  BY <1>1, <1>2, <1>5 DEF StartRun, MayStart

LEMMA InitInvariant == Init => IInv
<1> SUFFICES ASSUME Init
             PROVE  IInv
  OBVIOUS
<1>1. TypeOK
  BY InitType
<1>2. SettledHavePassed /\ FunctionsNeedAProcess /\ WorkIsUnsettled
  BY DEF Init, SettledHavePassed, FunctionsNeedAProcess, WorkIsUnsettled, Settled, AtWork
<1>3. DependenciesFirst /\ DoneMeansDone
  BY DEF Init, DependenciesFirst, DoneMeansDone, AtWork
<1>4. QED
  BY <1>1, <1>2, <1>3 DEF IInv

LEMMA StepInvariant == IInv /\ [Next]_vars => IInv'
<1> SUFFICES ASSUME IInv, [Next]_vars
             PROVE  IInv'
  OBVIOUS
<1>0. TypeOK /\ TypeOK'
  BY StepType DEF IInv
<1>1. ASSUME NEW r \in Runs, StartRun(r)
      PROVE  IInv'
  <2> DEFINE ns == Compact(RestoredNodes)
  <2>1. /\ \A t \in Tasks : ns[t] \in Settled => saved.nodes[t] \in Settled \/ t < From
        /\ runPc[r] = "unused"
        /\ saved'.nodes = ns
        /\ nodes' = [nodes EXCEPT ![r] = ns]
        /\ status' = [status EXCEPT ![r] = "running"]
        /\ runPc' = [runPc EXCEPT ![r] = "scheduling"]
        /\ UNCHANGED <<deps, passed, taskPc>>
    BY <1>0, <1>1, TakingOver
  <2> HIDE DEF ns
  <2>2. \A t \in Tasks : taskPc[r][t] = "idle"
    BY <2>1 DEF IInv, FunctionsNeedAProcess
  <2>3. SettledHavePassed'
    BY <1>0, <2>1 DEF IInv, SettledHavePassed, TypeOK
  <2>4. FunctionsNeedAProcess' /\ WorkIsUnsettled'
    BY <1>0, <2>1, <2>2 DEF IInv, FunctionsNeedAProcess, WorkIsUnsettled, TypeOK, AtWork
  <2>5. DependenciesFirst' /\ DoneMeansDone'
    BY <1>0, <2>1 DEF IInv, DependenciesFirst, DoneMeansDone, TypeOK
  <2>6. QED
    BY <1>0, <2>3, <2>4, <2>5 DEF IInv
<1>2. ASSUME NEW r \in Runs, StartRunOnCycle(r) \/ Wake(r)
      PROVE  IInv'
  <2>1. /\ \E p \in {"threw", "scheduling"} : runPc' = [runPc EXCEPT ![r] = p]
        /\ UNCHANGED <<deps, saved, nodes, status, taskPc, passed>>
    BY <1>2 DEF StartRunOnCycle, Wake, cp
  <2>2. SettledHavePassed' /\ FunctionsNeedAProcess' /\ WorkIsUnsettled'
    BY <1>0, <1>2, <2>1 DEF IInv, SettledHavePassed, FunctionsNeedAProcess, WorkIsUnsettled,
                            TypeOK, StartRunOnCycle, Wake
  <2>3. DependenciesFirst' /\ DoneMeansDone'
    BY <1>0, <2>1 DEF IInv, DependenciesFirst, DoneMeansDone, TypeOK
  <2>4. QED
    BY <1>0, <2>2, <2>3 DEF IInv
<1>3. ASSUME NEW r \in Runs,
             Abandon(r) \/ Finish(r) \/ Deadlocked(r) \/ WakeRejected(r)
      PROVE  IInv'
  <2>1. PICK ns \in [Tasks -> NodeStates] :
           /\ Saves(r, ns)
           /\ UNCHANGED taskPc
           /\ \/ /\ runPc' = [runPc EXCEPT ![r] = "threw"]
                 /\ status' = [status EXCEPT ![r] = "running"]
              \/ /\ runPc' = [runPc EXCEPT ![r] = "returned"]
                 /\ ns = nodes[r]
                 /\ AllDone(r)
                 /\ status' = [status EXCEPT ![r] = FinalStatus(r)]
    BY <1>0, <1>3, SchedulerSaves
  <2>2. SettledHavePassed' /\ WorkIsUnsettled'
    BY <1>0, <2>1 DEF IInv, SettledHavePassed, WorkIsUnsettled, TypeOK, Saves
  <2>3. FunctionsNeedAProcess' /\ DependenciesFirst'
    BY <1>0, <2>1, <1>3 DEF IInv, FunctionsNeedAProcess, DependenciesFirst, TypeOK, Saves
  <2>4. DoneMeansDone'
    <3>1. ASSUME AllDone(r), FinalStatus(r) = "done", NEW t \in Tasks
          PROVE  nodes[r][t] \in Settled /\ (t \in passed \/ t < From) /\ taskPc[r][t] \notin AtWork
      BY <3>1 DEF IInv, AllDone, FinalStatus, SettledHavePassed, WorkIsUnsettled
    <3>2. ASSUME runPc'[r] = "returned", status'[r] = "done"
          PROVE  AllDone(r) /\ FinalStatus(r) = "done"
      BY <1>0, <2>1, <3>2 DEF TypeOK
    <3>3. ASSUME NEW q \in Runs \ {r}
          PROVE  runPc'[q] = runPc[q] /\ status'[q] = status[q]
      BY <1>0, <2>1 DEF TypeOK
    <3>4. UNCHANGED <<passed, taskPc>>
      BY <2>1 DEF Saves
    <3>5. QED
      BY <3>1, <3>2, <3>3, <3>4 DEF IInv, DoneMeansDone
  <2>5. QED
    BY <1>0, <2>2, <2>3, <2>4 DEF IInv
<1>4. ASSUME NEW r \in Runs, StartTasks(r), runPc[r] = "scheduling"
      PROVE  IInv'
  <2>1. PICK S \in SUBSET Tasks, ns \in [Tasks -> NodeStates], pcs \in [Tasks -> TaskStates] :
           Starting(r, S, ns, pcs)
    BY <1>0, <1>4, StartingTasks
  <2>2. /\ UNCHANGED <<deps, passed>>
        /\ nodes' = [nodes EXCEPT ![r] = ns]
        /\ saved'.nodes = saved.nodes \/ saved'.nodes = ns
        /\ taskPc' = [taskPc EXCEPT ![r] = pcs]
        /\ runPc' = [runPc EXCEPT ![r] = "racing"]
    BY <1>0, <2>1 DEF Starting, Saves, TypeOK
  <2>3. \A t \in Tasks : ns[t] \in Settled => nodes[r][t] \in Settled
    BY <2>1 DEF Starting, Settled
  <2>4. SettledHavePassed'
    BY <1>0, <2>2, <2>3 DEF IInv, SettledHavePassed, TypeOK
  <2>5. FunctionsNeedAProcess'
    BY <1>0, <2>2 DEF IInv, FunctionsNeedAProcess, TypeOK
  <2>6. WorkIsUnsettled'
    <3>1. ASSUME NEW t \in Tasks, pcs[t] \in AtWork
          PROVE  ns[t] \notin Settled
      BY <2>1, <3>1 DEF Starting, IInv, WorkIsUnsettled, Settled
    <3>2. QED
      BY <1>0, <2>2, <3>1 DEF IInv, WorkIsUnsettled, TypeOK
  <2>7. DependenciesFirst'
    <3>1. ASSUME NEW t \in Tasks, pcs[t] \in AtWork, NEW d \in deps[t]
          PROVE  d \in passed \/ d < From
      <4>1. CASE t \in S
        BY <2>1, <4>1 DEF Starting, IInv, SettledHavePassed
      <4>2. CASE t \notin S
        BY <2>1, <3>1, <4>2 DEF Starting, IInv, DependenciesFirst
      <4>3. QED
        BY <4>1, <4>2
    <3>2. QED
      BY <1>0, <2>2, <3>1 DEF IInv, DependenciesFirst, TypeOK
  <2>8. DoneMeansDone'
    <3>1. ASSUME NEW q \in Runs \ {r}
          PROVE  runPc'[q] = runPc[q] /\ status'[q] = status[q] /\ taskPc'[q] = taskPc[q]
      BY <1>0, <2>1 DEF TypeOK, Starting
    <3>2. runPc'[r] # "returned"
      BY <1>0, <2>2 DEF TypeOK
    <3>3. QED
      BY <2>2, <3>1, <3>2 DEF IInv, DoneMeansDone
  <2>9. QED
    BY <1>0, <2>4, <2>5, <2>6, <2>7, <2>8 DEF IInv
<1>5. ASSUME NEW r \in Runs, Die(r)
      PROVE  IInv'
  <2>1. SettledHavePassed' /\ FunctionsNeedAProcess' /\ WorkIsUnsettled'
    BY <1>0, <1>5 DEF Die, IInv, SettledHavePassed, FunctionsNeedAProcess, WorkIsUnsettled,
                      TypeOK, Settled, AtWork
  <2>2. DependenciesFirst' /\ DoneMeansDone'
    BY <1>0, <1>5 DEF Die, IInv, DependenciesFirst, DoneMeansDone, TypeOK, AtWork
  <2>3. QED
    BY <1>0, <2>1, <2>2 DEF IInv
<1>6. ASSUME NEW r \in Runs, NEW t \in Tasks, WorkingStep(r, t)
      PROVE  IInv'
  <2>1. PICK state \in NodeStates, label \in TaskStates \ {"idle"} :
               TaskMoves(r, t, state, label)
    BY <1>0, <1>6, WorkingStepsMove
  <2>2. /\ taskPc[r][t] \in AtWork
        /\ nodes[r][t] \notin Settled
        /\ runPc[r] \notin {"unused", "dead"}
        /\ ~ (runPc[r] = "returned" /\ status[r] = "done")
    BY <2>1 DEF TaskMoves, IInv, WorkIsUnsettled, FunctionsNeedAProcess, DoneMeansDone, AtWork
  <2>3. /\ SettledHavePassed' /\ WorkIsUnsettled' /\ FunctionsNeedAProcess'
    BY <1>0, <2>1, <2>2 DEF TaskMoves, IInv, SettledHavePassed, WorkIsUnsettled,
                            FunctionsNeedAProcess, TypeOK
  <2>4. DependenciesFirst' /\ DoneMeansDone'
    BY <1>0, <2>1, <2>2 DEF TaskMoves, IInv, DependenciesFirst, DoneMeansDone, TypeOK
  <2>5. QED
    BY <1>0, <2>3, <2>4 DEF IInv
<1>7. ASSUME NEW r \in Runs, NEW t \in Tasks, TaskSettles(r, t)
      PROVE  IInv'
  <2>1. /\ Saves(r, nodes[r])
        /\ UNCHANGED <<runPc, status>>
        /\ taskPc[r][t] \in {"completing", "failing"}
    BY <1>0, <1>7, SettlingSaves
  <2>2. PICK end \in {"settled", "rejected"} : taskPc' = [taskPc EXCEPT ![r][t] = end]
    BY <1>0, <1>7, SettlingSaves
  <2>3. nodes' = nodes
    BY <1>0, <2>1 DEF Saves, TypeOK
  <2>4. SettledHavePassed' /\ FunctionsNeedAProcess' /\ WorkIsUnsettled'
    BY <1>0, <2>1, <2>2, <2>3 DEF IInv, SettledHavePassed, FunctionsNeedAProcess, WorkIsUnsettled,
                                  TypeOK, AtWork, Saves
  <2>5. DependenciesFirst' /\ DoneMeansDone'
    BY <1>0, <2>1, <2>2 DEF IInv, DependenciesFirst, DoneMeansDone, TypeOK, AtWork, Saves
  <2>6. QED
    BY <1>0, <2>4, <2>5 DEF IInv
<1>8. CASE AbortCheckpoint
  <2>1. /\ saved'.nodes = saved.nodes
        /\ UNCHANGED <<deps, memory, passed, recorded>>
    BY <1>0, <1>8 DEF AbortCheckpoint, TypeOK, Checkpoints
  <2>2. QED
    BY <1>0, <2>1 DEF memory, cp, IInv, SettledHavePassed, FunctionsNeedAProcess, WorkIsUnsettled,
                      DependenciesFirst, DoneMeansDone
<1>9. CASE UNCHANGED vars
  BY <1>0, <1>9 DEF vars, memory, cp, IInv, SettledHavePassed, FunctionsNeedAProcess,
                    WorkIsUnsettled, DependenciesFirst, DoneMeansDone
<1>10. QED
  BY <1>1, <1>2, <1>3, <1>4, <1>5, <1>6, <1>7, <1>8, <1>9
  DEF Next, SchedulerStep, Schedule, TaskStep, WorkingStep

\* Whatever is retried, resumed, aborted, compacted or run twice at once, a
\* task is at work only when each of its dependencies has passed its gate or
\* was skipped by --from: areDependenciesMet and the restored nodes see to it.
THEOREM DependenciesComeFirst == Spec => []DependenciesFirst
<1>1. IInv => DependenciesFirst
  BY DEF IInv
<1>2. QED
  BY <1>1, InitInvariant, StepInvariant, PTL DEF Spec

\* A run that returns as done has seen every task pass its gate or be
\* skipped, and leaves none at work.
THEOREM DoneIsDone == Spec => []DoneMeansDone
<1>1. IInv => DoneMeansDone
  BY DEF IInv
<1>2. QED
  BY <1>1, InitInvariant, StepInvariant, PTL DEF Spec

\* A checkpoint that says done has nothing left to do, and neither has a run
\* that does: it has returned, or its process is gone.
DoneInv ==
  /\ saved.status = "done" => \A t \in Tasks : saved.nodes[t] \in Settled
  /\ \A r \in Runs :
       status[r] = "done" =>
         \/ runPc[r] = "dead"
         \/ runPc[r] = "returned" /\ \A t \in Tasks : nodes[r][t] \in Settled

\* A save of nodes ns with status st.
SavesAs(r, ns, st) ==
  /\ saved'.status = st
  /\ saved'.nodes = ns
  /\ nodes' = [nodes EXCEPT ![r] = ns]
  /\ status' = [status EXCEPT ![r] = st]

LEMMA SaveSavesAs ==
  ASSUME NEW r \in Runs, NEW ns, NEW cur, NEW st, Save(r, ns, cur, st)
  PROVE  SavesAs(r, ns, st)
  BY DEF Save, SavesAs

\* Saves of a run that goes on or throws say running.
LEMMA RunningSaves ==
  ASSUME TypeOK, DoneInv, NEW r \in Runs, NEW ns, SavesAs(r, ns, "running"),
         NEW p, runPc' = [runPc EXCEPT ![r] = p]
  PROVE  DoneInv'
  BY DEF TypeOK, DoneInv, SavesAs

LEMMA StepDone == IInv /\ DoneInv /\ [Next]_vars => DoneInv'
<1> SUFFICES ASSUME IInv, DoneInv, [Next]_vars PROVE DoneInv'
  OBVIOUS
<1>0. TypeOK
  BY DEF IInv
<1>1. ASSUME NEW r \in Runs, StartRun(r)
      PROVE  DoneInv'
  <2>1. SavesAs(r, Compact(RestoredNodes), "running")
    BY <1>1, SaveSavesAs DEF StartRun
  <2>2. QED
    BY <1>0, <1>1, <2>1, RunningSaves DEF StartRun
<1>2. ASSUME NEW r \in Runs, StartRunOnCycle(r) \/ Wake(r)
      PROVE  DoneInv'
  <2>1. /\ runPc[r] \in {"unused", "racing"}
        /\ \E p \in {"threw", "scheduling"} : runPc' = [runPc EXCEPT ![r] = p]
        /\ UNCHANGED <<saved, nodes, status>>
    BY <1>2 DEF StartRunOnCycle, MayStart, Wake, cp
  <2>2. QED
    BY <1>0, <2>1 DEF DoneInv, TypeOK
<1>3. ASSUME NEW r \in Runs, Abandon(r) \/ Deadlocked(r) \/ WakeRejected(r)
      PROVE  DoneInv'
  <2>1. \E ns : SavesAs(r, ns, "running")
    BY <1>3, SaveSavesAs DEF Abandon, Deadlocked, WakeRejected
  <2>2. runPc' = [runPc EXCEPT ![r] = "threw"]
    BY <1>3 DEF Abandon, Deadlocked, WakeRejected
  <2>3. QED
    BY <1>0, <2>1, <2>2, RunningSaves
<1>4. ASSUME NEW r \in Runs, Finish(r)
      PROVE  DoneInv'
  <2>1. SavesAs(r, nodes[r], FinalStatus(r))
    BY <1>4, SaveSavesAs DEF Finish
  <2>2. runPc' = [runPc EXCEPT ![r] = "returned"]
    BY <1>4 DEF Finish
  <2>3. CASE FinalStatus(r) = "running"
    BY <1>0, <2>1, <2>2, <2>3, RunningSaves
  <2>4. CASE FinalStatus(r) # "running"
    <3>1. \A t \in Tasks : nodes[r][t] \in Settled
      BY <1>4, <2>4 DEF Finish, AllDone, FinalStatus
    <3>2. QED
      BY <1>0, <2>1, <2>2, <3>1 DEF DoneInv, SavesAs, TypeOK
  <2>5. QED
    BY <2>3, <2>4
<1>5. ASSUME NEW r \in Runs, StartTasks(r), runPc[r] = "scheduling"
      PROVE  DoneInv'
  <2>1. PICK S \in SUBSET Tasks, ns \in [Tasks -> NodeStates], pcs \in [Tasks -> TaskStates] :
          Starting(r, S, ns, pcs)
    BY <1>0, <1>5, StartingTasks
  <2>2. CASE Saves(r, ns) /\ saved'.status = "running" /\ status' = [status EXCEPT ![r] = "running"]
    <3>1. SavesAs(r, ns, "running") /\ runPc' = [runPc EXCEPT ![r] = "racing"]
      BY <2>1, <2>2 DEF Starting, Saves, SavesAs
    <3>2. QED
      BY <1>0, <3>1, RunningSaves
  <2>3. CASE UNCHANGED <<saved, nodes, status>>
    BY <1>0, <1>5, <2>1, <2>3 DEF Starting, DoneInv, TypeOK
  <2>4. QED
    BY <2>1, <2>2, <2>3 DEF Starting
<1>6. ASSUME NEW r \in Runs, Die(r)
      PROVE  DoneInv'
  BY <1>0, <1>6 DEF Die, DoneInv, TypeOK
<1>7. ASSUME NEW r \in Runs, NEW t \in Tasks, WorkingStep(r, t)
      PROVE  DoneInv'
  <2>1. PICK state \in NodeStates, label \in TaskStates \ {"idle"} :
               TaskMoves(r, t, state, label)
    BY <1>0, <1>7, WorkingStepsMove
  <2>2. status[r] # "done"
    BY <1>0, <2>1 DEF TaskMoves, IInv, WorkIsUnsettled, FunctionsNeedAProcess, DoneInv, AtWork
  <2>3. QED
    BY <1>0, <2>1, <2>2 DEF TaskMoves, DoneInv, TypeOK
<1>8. ASSUME NEW r \in Runs, NEW t \in Tasks, TaskSettles(r, t)
      PROVE  DoneInv'
  <2>1. /\ SavesAs(r, nodes[r], status[r])
        /\ runPc' = runPc
        /\ taskPc[r][t] \in {"completing", "failing"}
    BY <1>8, SaveSavesAs DEF TaskSettles
  <2>2. runPc[r] # "dead"
    BY <2>1 DEF IInv, FunctionsNeedAProcess
  <2>3. nodes' = nodes /\ status' = status
    BY <1>0, <2>1 DEF SavesAs, TypeOK
  <2>4. QED
    BY <1>0, <2>1, <2>2, <2>3 DEF DoneInv, SavesAs, TypeOK
<1>9. CASE AbortCheckpoint
  <2>1. saved'.status = "aborted" /\ UNCHANGED <<nodes, status, runPc>>
    BY <1>0, <1>9 DEF AbortCheckpoint, TypeOK, Checkpoints, memory, cp
  <2>2. QED
    BY <2>1 DEF DoneInv
<1>10. CASE UNCHANGED vars
  BY <1>10 DEF vars, memory, cp, DoneInv
<1>11. QED
  BY <1>1, <1>2, <1>3, <1>4, <1>5, <1>6, <1>7, <1>8, <1>9, <1>10
  DEF Next, SchedulerStep, Schedule, TaskStep, WorkingStep

\* A checkpoint that says done leaves nothing to do, whichever run, task left
\* at work by a failed run, or other process wrote it.
THEOREM NothingIsLeftBehind == Spec => []DoneCheckpointsLeaveNothing
<1>1. Init => DoneInv
  BY DEF Init, DoneInv
<1>2. IInv /\ DoneInv => DoneCheckpointsLeaveNothing
  BY DEF IInv, SettledHavePassed, DoneInv, DoneCheckpointsLeaveNothing
<1>3. QED
  BY <1>1, <1>2, InitInvariant, StepInvariant, StepDone, PTL DEF Spec

-----------------------------------------------------------------------------
(* What a checkpoint has recorded is not done again, unless runs overlap   *)
(* and as long as there are too few tasks for compaction.                  *)

Working(r) ==
  runPc[r] \in {"scheduling", "racing"} \/ \E t \in Tasks : taskPc[r][t] # "idle"

\* What was recorded is still recorded, and known to the run that works.
RecordsAreKept ==
  /\ saved.status = "none" => recorded = {}
  /\ \A t \in recorded : saved.nodes[t] = "COMPLETED"
  /\ \A r \in Runs, t \in recorded : Working(r) => nodes[r][t] = "COMPLETED"

OneRunAtATime ==
  \A r, q \in Runs :
    r # q => runPc[r] \in {"unused", "dead"} \/ runPc[q] \in {"unused", "dead"}

RInv == IInv /\ RecordsAreKept /\ OneRunAtATime

LEMMA RecordsAreRestored ==
  ASSUME TypeOK, RecordsAreKept, CompactAt \in Nat, Cardinality(Tasks) < CompactAt
  PROVE  \A t \in recorded : Compact(RestoredNodes)[t] = "COMPLETED"
<1>1. \A t \in recorded : RestoredNodes[t] = "COMPLETED"
  BY DEF RecordsAreKept, RestoredNodes, TypeOK, Checkpoints
<1>2. Compact(RestoredNodes) = RestoredNodes
  <2> DEFINE S == {t \in Tasks : RestoredNodes[t] = "COMPLETED"}
  <2>1. S \in SUBSET Tasks
    OBVIOUS
  <2> HIDE DEF S
  <2>2. Cardinality(S) <= Cardinality(Tasks) /\ IsFiniteSet(S)
    BY <2>1, TasksAssumption, FS_Subset
  <2>3. Cardinality(S) \in Nat /\ Cardinality(Tasks) \in Nat
    BY <2>2, TasksAssumption, FS_CardinalityType
  <2>4. Cardinality(S) < CompactAt
    BY <2>2, <2>3
  <2>5. QED
    BY <2>4 DEF Compact, S
<1>3. QED
  BY <1>1, <1>2

LEMMA StepRecords ==
  ASSUME RInv, [Next]_vars, ~ overlapped',
         CompactAt \in Nat, Cardinality(Tasks) < CompactAt
  PROVE  RInv'
<1>0. /\ TypeOK /\ TypeOK' /\ IInv'
      /\ RecordsAreKept /\ FunctionsNeedAProcess /\ OneRunAtATime
  BY StepType, StepInvariant DEF RInv, IInv
<1>00. ASSUME NEW r \in Runs, Working(r)
       PROVE  \A q \in Runs \ {r} : ~ Working(q)
  BY <1>0, <1>00 DEF Working, FunctionsNeedAProcess, OneRunAtATime
<1>1. ASSUME NEW r \in Runs, StartRun(r)
      PROVE  RInv'
  <2> DEFINE ns == Compact(RestoredNodes)
  <2>1. /\ runPc[r] = "unused"
        /\ saved'.nodes = ns
        /\ saved'.status # "none"
        /\ nodes' = [nodes EXCEPT ![r] = ns]
        /\ recorded' = recorded \union {t \in Tasks : ns[t] = "COMPLETED"}
        /\ runPc' = [runPc EXCEPT ![r] = "scheduling"]
        /\ UNCHANGED taskPc
    BY <1>0, <1>1, TakingOver
  <2>2. \A t \in recorded : ns[t] = "COMPLETED"
    BY <1>0, RecordsAreRestored
  <2> HIDE DEF ns
  <2>3. \A q \in Runs \ {r} : runPc[q] \in {"unused", "dead"}
    BY <1>1 DEF StartRun, MayStart, Alive
  <2>4. \A q \in Runs \ {r} : ~ Working(q)'
    BY <1>0, <2>1, <2>3 DEF Working, FunctionsNeedAProcess, TypeOK
  <2>5. RecordsAreKept'
    BY <1>0, <2>1, <2>2, <2>4 DEF RecordsAreKept, TypeOK
  <2>6. OneRunAtATime'
    BY <1>0, <2>1, <2>3 DEF OneRunAtATime, TypeOK
  <2>7. QED
    BY <1>0, <2>5, <2>6 DEF RInv
<1>2. ASSUME NEW r \in Runs, StartRunOnCycle(r)
      PROVE  RInv'
  <2>1. /\ runPc' = [runPc EXCEPT ![r] = "threw"]
        /\ \A q \in Runs \ {r} : runPc[q] \in {"unused", "dead"}
        /\ UNCHANGED <<saved, nodes, taskPc, recorded>>
    BY <1>2 DEF StartRunOnCycle, MayStart, Alive, cp
  <2>2. RecordsAreKept' /\ OneRunAtATime'
    BY <1>0, <2>1 DEF RecordsAreKept, OneRunAtATime, Working, TypeOK
  <2>3. QED
    BY <1>0, <2>2 DEF RInv
\* A save by a run that works keeps the records.
<1>3. ASSUME NEW r \in Runs, NEW ns \in [Tasks -> NodeStates], Working(r), Saves(r, ns),
             \A q \in Runs \ {r} : Working(q)' => Working(q)
      PROVE  RecordsAreKept'
  <2>1. \A t \in recorded : ns[t] = "COMPLETED"
    BY <1>0, <1>3 DEF RecordsAreKept, Saves, Settled, TypeOK
  <2>2. \A q \in Runs \ {r} : ~ Working(q)'
    BY <1>00, <1>3
  <2>3. QED
    BY <1>0, <1>3, <2>1, <2>2 DEF RecordsAreKept, Saves, TypeOK
<1>4. ASSUME NEW r \in Runs,
             \/ (Abandon(r) \/ Finish(r) \/ Deadlocked(r)) /\ runPc[r] = "scheduling"
             \/ WakeRejected(r)
      PROVE  RInv'
  <2>1. PICK ns \in [Tasks -> NodeStates] :
          /\ Saves(r, ns)
          /\ UNCHANGED taskPc
          /\ \E p \in {"threw", "returned"} : runPc' = [runPc EXCEPT ![r] = p]
    BY <1>0, <1>4, SchedulerSaves
  <2>2. runPc[r] \in {"scheduling", "racing"}
    BY <1>4 DEF WakeRejected
  <2>3. RecordsAreKept'
    BY <1>0, <1>3, <2>1, <2>2 DEF Working, TypeOK
  <2>4. OneRunAtATime'
    BY <1>0, <2>1, <2>2 DEF OneRunAtATime, TypeOK
  <2>5. QED
    BY <1>0, <2>3, <2>4 DEF RInv
<1>5. ASSUME NEW r \in Runs, StartTasks(r), runPc[r] = "scheduling"
      PROVE  RInv'
  <2>1. PICK S \in SUBSET Tasks, ns \in [Tasks -> NodeStates], pcs \in [Tasks -> TaskStates] :
          Starting(r, S, ns, pcs)
    BY <1>0, <1>5, StartingTasks
  <2>2. Working(r) /\ \A q \in Runs \ {r} : Working(q)' => Working(q)
    BY <1>0, <1>5, <2>1 DEF Starting, Working, TypeOK
  <2>3. RecordsAreKept'
    <3>1. CASE Saves(r, ns)
      BY <1>3, <2>2, <3>1
    <3>2. CASE UNCHANGED <<saved, nodes, recorded>>
      <4>1. \A q \in Runs : Working(q)' => Working(q)
        BY <2>2
      <4>2. QED
        BY <1>0, <3>2, <4>1 DEF RecordsAreKept
    <3>3. QED
      BY <2>1, <3>1, <3>2 DEF Starting
  <2>4. OneRunAtATime'
    BY <1>0, <1>5, <2>1 DEF Starting, OneRunAtATime, TypeOK
  <2>5. QED
    BY <1>0, <2>3, <2>4 DEF RInv
<1>6. ASSUME NEW r \in Runs, Wake(r)
      PROVE  RInv'
  BY <1>0, <1>6 DEF Wake, cp, RInv, RecordsAreKept, OneRunAtATime, Working, TypeOK
<1>7. ASSUME NEW r \in Runs, Die(r)
      PROVE  RInv'
  <2>1. ~ Working(r)' /\ \A q \in Runs \ {r} : Working(q)' => Working(q)
    BY <1>0, <1>7 DEF Die, Working, TypeOK
  <2>2. RecordsAreKept' /\ OneRunAtATime'
    BY <1>0, <1>7, <2>1 DEF Die, RecordsAreKept, OneRunAtATime, TypeOK
  <2>3. QED
    BY <1>0, <2>2 DEF RInv
<1>8. ASSUME NEW r \in Runs, NEW t \in Tasks, WorkingStep(r, t)
      PROVE  RInv'
  <2>1. PICK state \in NodeStates, label \in TaskStates \ {"idle"} :
               TaskMoves(r, t, state, label)
    BY <1>0, <1>8, WorkingStepsMove
  <2>2. Working(r) /\ t \notin recorded
    BY <1>0, <2>1 DEF TaskMoves, RInv, IInv, WorkIsUnsettled, RecordsAreKept, Working, AtWork, Settled
  <2>3. \A q \in Runs : Working(q)' => Working(q)
    BY <1>0, <2>1, <2>2 DEF TaskMoves, Working, TypeOK
  <2>4. RecordsAreKept' /\ OneRunAtATime'
    BY <1>0, <2>1, <2>2, <2>3 DEF TaskMoves, RecordsAreKept, OneRunAtATime, TypeOK
  <2>5. QED
    BY <1>0, <2>4 DEF RInv
<1>9. ASSUME NEW r \in Runs, NEW t \in Tasks, TaskSettles(r, t)
      PROVE  RInv'
  <2>1. /\ Saves(r, nodes[r])
        /\ UNCHANGED runPc
        /\ taskPc[r][t] \in {"completing", "failing"}
    BY <1>0, <1>9, SettlingSaves
  <2>2. PICK end \in {"settled", "rejected"} : taskPc' = [taskPc EXCEPT ![r][t] = end]
    BY <1>0, <1>9, SettlingSaves
  <2>3. Working(r) /\ \A q \in Runs \ {r} : Working(q)' => Working(q)
    BY <1>0, <2>1, <2>2 DEF Working, TypeOK
  <2>4. nodes[r] \in [Tasks -> NodeStates]
    BY <1>0 DEF TypeOK
  <2>5. RecordsAreKept'
    BY <1>3, <2>1, <2>3, <2>4
  <2>6. OneRunAtATime'
    BY <1>0, <2>1 DEF OneRunAtATime
  <2>7. QED
    BY <1>0, <2>5, <2>6 DEF RInv
<1>10. CASE AbortCheckpoint
  <2>1. /\ saved'.nodes = saved.nodes
        /\ saved'.status # "none"
        /\ UNCHANGED <<nodes, runPc, taskPc, recorded>>
    BY <1>0, <1>10 DEF AbortCheckpoint, TypeOK, Checkpoints, memory, cp
  <2>2. RecordsAreKept' /\ OneRunAtATime'
    BY <1>0, <2>1 DEF RecordsAreKept, OneRunAtATime, Working
  <2>3. QED
    BY <1>0, <2>2 DEF RInv
<1>11. CASE UNCHANGED vars
  BY <1>0, <1>11 DEF vars, memory, cp, RInv, RecordsAreKept, OneRunAtATime, Working
<1>12. QED
  BY <1>1, <1>2, <1>4, <1>5, <1>6, <1>7, <1>8, <1>9, <1>10, <1>11
  DEF Next, SchedulerStep, Schedule, TaskStep, WorkingStep

\* Runs that have overlapped have overlapped.
LEMMA OverlapsAreRemembered == overlapped /\ [Next]_vars => overlapped'
<1> SUFFICES ASSUME overlapped, [Next]_vars PROVE overlapped'
  OBVIOUS
<1>1. ASSUME NEW r \in Runs, StartRun(r) \/ StartRunOnCycle(r)
      PROVE  overlapped'
  BY <1>1 DEF StartRun, StartRunOnCycle, MayStart
<1>2. ASSUME NEW r \in Runs, SchedulerStep(r) \/ Die(r)
      PROVE  overlapped'
  BY <1>2 DEF SchedulerStep, Schedule, Abandon, Finish, Deadlocked, StartTasks, Wake,
              WakeRejected, Die
<1>3. ASSUME NEW r \in Runs, NEW t \in Tasks, TaskStep(r, t)
      PROVE  overlapped'
  BY <1>3 DEF TaskStep, TaskStarted, TaskRecovered, Dispatched, AttemptFails, TaskThrows,
              GatePasses, TaskSettles
<1>4. QED
  BY <1>1, <1>2, <1>3 DEF Next, AbortCheckpoint, vars

\* As long as no two runs of the plan have been alive at once, and where its
\* tasks are too few for DagCompactor to collapse them, a task that a
\* checkpoint has ever said to be completed is never at work again, whatever
\* crashes and is resumed.
THEOREM CompletedOnce ==
  ASSUME CompactAt \in Nat, Cardinality(Tasks) < CompactAt
  PROVE  Spec => []AloneNothingIsRepeated
<1> DEFINE Kept == ~ overlapped => RInv
<1>1. Init => Kept
  <2>1. Init => RecordsAreKept /\ OneRunAtATime
    BY DEF Init, RecordsAreKept, OneRunAtATime
  <2>2. QED
    BY <2>1, InitInvariant DEF RInv
<1>2. Kept /\ [Next]_vars => Kept'
  <2>1. ASSUME Kept, [Next]_vars, ~ overlapped'
        PROVE  RInv'
    <3>1. ~ overlapped
      BY <2>1, OverlapsAreRemembered
    <3>2. QED
      BY <2>1, <3>1, StepRecords
  <2>2. QED
    BY <2>1
<1>3. Kept => AloneNothingIsRepeated
  BY DEF RInv, IInv, RecordsAreKept, WorkIsUnsettled, Working, AloneNothingIsRepeated,
         CompletedTasksAreNotRepeated, AtWork, Settled
<1>4. QED
  BY <1>1, <1>2, <1>3, PTL DEF Spec

-----------------------------------------------------------------------------
(* The verify loop (VerifyLoop), which a task of packages/core/src/task    *)
(* and a dispatch both rely on.                                            *)

\* The last n entries of h are s, and the one before them is not.
EndsWithRun(h, n, s) ==
  /\ n \in 0 .. Len(h)
  /\ n = 0 => Len(h) = 0
  /\ \A i \in 1 .. Len(h) : Len(h) - n < i => h[i] = s
  /\ n < Len(h) => h[Len(h) - n] # s

LEMMA RunGrows ==
  ASSUME NEW S, NEW h \in Seq(S), NEW n, NEW s, NEW e \in S,
         EndsWithRun(h, n, s), Len(h) = 0 => e # s
  PROVE  EndsWithRun(Append(h, e), IF e = s THEN n + 1 ELSE 1, e)
<1> DEFINE g == Append(h, e)
<1>1. /\ Len(h) \in Nat
      /\ Len(g) = Len(h) + 1
      /\ \A i \in 1 .. Len(h) : g[i] = h[i]
      /\ g[Len(h) + 1] = e
  BY AppendProperties, LenProperties
<1> HIDE DEF g
<1>2. CASE e = s
  <2>1. n + 1 < Len(g) => g[Len(g) - (n + 1)] # e
    BY <1>1, <1>2 DEF EndsWithRun
  <2>2. \A i \in 1 .. Len(g) : Len(g) - (n + 1) < i => g[i] = e
    BY <1>1, <1>2 DEF EndsWithRun
  <2> QED BY <1>1, <1>2, <2>1, <2>2 DEF EndsWithRun, g
<1>3. CASE e # s
  <2>1. Len(h) > 0 => h[Len(h)] = s
    BY <1>1 DEF EndsWithRun
  <2>2. 1 < Len(g) => g[Len(g) - 1] # e
    BY <1>1, <1>3, <2>1
  <2>3. \A i \in 1 .. Len(g) : Len(g) - 1 < i => g[i] = e
    BY <1>1
  <2> QED BY <1>1, <1>3, <2>2, <2>3 DEF EndsWithRun, g
<1> QED BY <1>2, <1>3

\* The loop counts the failures alike at the end of its history, and goes on
\* only while they are fewer than its limit.
LoopInv ==
  /\ history \in Seq(Signatures \union {Passed})
  /\ pc # "stopped" => result.stopReason = "running" /\ sameCount < NoProgressLimit
  /\ pc # "stopped" \/ result.stopReason = "no-progress" =>
       /\ EndsWithRun(history, sameCount, lastSignature)
       /\ Len(history) = 0 => lastSignature = Nothing
  /\ result.stopReason = "no-progress" => sameCount = NoProgressLimit

LEMMA InitLoopInv ==
  ASSUME LoopInit
  PROVE  LoopInv
<1>1. history = <<>> /\ Len(history) = 0
  BY DEF LoopInit
<1> QED BY <1>1, NoProgressLimitAssumption DEF LoopInv, EndsWithRun, LoopInit, NoResult

LEMMA NextLoopInv ==
  ASSUME LoopInv, [LoopNext]_loopVars
  PROVE  LoopInv'
<1> USE DEF LoopInv
<1>1. CASE BudgetExhausted \/ Throws
  BY <1>1 DEF BudgetExhausted, Throws, Stop
<1>2. CASE Attempt \/ Verify
  BY <1>2 DEF Attempt, Verify
<1>3. CASE VerifyPasses
  <2>1. history' \in Seq(Signatures \union {Passed})
    BY <1>3, AppendProperties DEF VerifyPasses
  <2> QED BY <1>3, <2>1 DEF VerifyPasses, Stop
<1>4. ASSUME NEW sig \in Signatures, VerifyFails(sig)
      PROVE  LoopInv'
  <2>1. /\ pc = "verify"
        /\ history' = Append(history, sig)
        /\ lastSignature' = sig
        /\ sameCount' = IF sig = lastSignature THEN sameCount + 1 ELSE 1
    BY <1>4 DEF VerifyFails, Count
  <2>2. /\ history' \in Seq(Signatures \union {Passed})
        /\ Len(history') = Len(history) + 1 /\ Len(history) \in Nat
    BY <2>1, AppendProperties, LenProperties
  <2>3. Len(history) = 0 => sig # lastSignature
    BY <2>1, SignaturesAssumption
  <2>4. EndsWithRun(history', sameCount', sig)
    BY <2>1, <2>3, RunGrows
  <2>5. sameCount \in Nat /\ sameCount < NoProgressLimit
    BY <2>1, <2>2 DEF EndsWithRun
  <2>6. CASE /\ sameCount' >= NoProgressLimit
             /\ Stop(FALSE, round, "no-progress")
    <3>1. sameCount' = NoProgressLimit
      BY <2>1, <2>5, <2>6, NoProgressLimitAssumption
    <3> QED BY <2>1, <2>2, <2>4, <2>6, <3>1 DEF Stop
  <2>7. CASE /\ sameCount' < NoProgressLimit
             /\ pc' = "round"
             /\ UNCHANGED result
    BY <2>1, <2>2, <2>4, <2>7
  <2>8. CASE Stop(FALSE, MaxRounds, "max-rounds")
    BY <2>2, <2>8 DEF Stop
  <2> QED BY <1>4, <2>6, <2>7, <2>8 DEF VerifyFails
<1>5. CASE UNCHANGED loopVars
  BY <1>5 DEF loopVars
<1> QED BY <1>1, <1>2, <1>3, <1>4, <1>5 DEF LoopNext

LEMMA RunsDecide ==
  ASSUME LoopInv
  PROVE  GivesUpExactlyWhenStuck
<1>1. Len(history) \in Nat /\ NoProgressLimit \in Nat \ {0}
  BY LenProperties, NoProgressLimitAssumption DEF LoopInv
<1>2. ASSUME NEW n \in Nat, EndsWithRun(history, sameCount, lastSignature), sameCount < n
      PROVE  ~ SameLast(n)
  <2> SUFFICES ASSUME SameLast(n) PROVE FALSE
    OBVIOUS
  <2>1. sameCount \in Nat /\ sameCount > 0 /\ Len(history) >= n
    BY <1>1, <1>2 DEF EndsWithRun, SameLast
  <2>2. history[Len(history) - sameCount] # lastSignature /\ history[Len(history)] = lastSignature
    BY <1>1, <1>2, <2>1 DEF EndsWithRun
  <2>3. Len(history) - sameCount \in Len(history) - n + 1 .. Len(history)
    BY <1>1, <1>2, <2>1
  <2> QED BY <2>2, <2>3 DEF SameLast
<1>3. ASSUME EndsWithRun(history, NoProgressLimit, lastSignature)
      PROVE  SameLast(NoProgressLimit)
  BY <1>1, <1>3 DEF EndsWithRun, SameLast
<1> QED BY <1>1, <1>2, <1>3 DEF LoopInv, GivesUpExactlyWhenStuck

\* The loop tries again exactly while its last failures are not all alike:
\* for any kinds of failure, bound of rounds and limit.
THEOREM GivesUpInTime == LoopSpec => []GivesUpExactlyWhenStuck
<1>1. LoopInit => LoopInv
  BY InitLoopInv
<1>2. LoopInv /\ [LoopNext]_loopVars => LoopInv'
  BY NextLoopInv
<1>3. LoopInv => GivesUpExactlyWhenStuck
  BY RunsDecide
<1> QED BY <1>1, <1>2, <1>3, PTL DEF LoopSpec

\* The count of a loop that goes on is below its round.
LoopTypes == LoopTypeOK /\ (pc # "stopped" => sameCount < round)

LEMMA NextLoopTypes ==
  ASSUME LoopTypes, [LoopNext]_loopVars
  PROVE  LoopTypes'
<1> USE DEF LoopTypes, LoopTypeOK
<1>0. round \in Nat /\ round <= MaxRounds /\ sameCount \in Nat /\ MaxRounds \in Nat \ {0}
  BY MaxRoundsAssumption
<1>1. CASE BudgetExhausted
  <2>1. result' \in [success : BOOLEAN, rounds : 0 .. MaxRounds,
                      stopReason : {"running", "passed", "max-rounds", "no-progress",
                                    "budget-exhausted", "threw"}]
    BY <1>0, <1>1 DEF BudgetExhausted, Stop
  <2> QED BY <1>1, <2>1 DEF BudgetExhausted, Stop
<1>2. CASE Attempt
  <2>1. context' \in [round : 0 .. MaxRounds, previousFailures : Signatures \union {Nothing},
                      isRepeatedFailure : BOOLEAN]
    BY <1>0, <1>2 DEF Attempt
  <2> QED BY <1>2, <2>1 DEF Attempt
<1>3. CASE Verify
  BY <1>3 DEF Verify
<1>4. CASE Throws
  BY <1>0, <1>4 DEF Throws, Stop
<1>5. CASE VerifyPasses
  <2>1. history' \in Seq(Signatures \union {Passed})
    BY <1>5, AppendProperties DEF VerifyPasses
  <2> QED BY <1>0, <1>5, <2>1 DEF VerifyPasses, Stop
<1>6. ASSUME NEW sig \in Signatures, VerifyFails(sig)
      PROVE  LoopTypes'
  <2>1. /\ history' \in Seq(Signatures \union {Passed})
        /\ previousFailures' = sig /\ lastSignature' = sig /\ context' = context
        /\ sameCount' \in 0 .. round
    <3>1. sameCount < round
      BY <1>6 DEF VerifyFails
    <3>2. history' = Append(history, sig) /\ previousFailures' = sig /\ lastSignature' = sig
          /\ context' = context /\ sameCount' \in {sameCount + 1, 1}
      BY <1>6 DEF VerifyFails, Count, FeedBack
    <3> QED BY <1>0, <3>1, <3>2, AppendProperties
  <2>2. CASE Stop(FALSE, round, "no-progress") /\ UNCHANGED round
    BY <1>0, <2>1, <2>2 DEF Stop
  <2>3. CASE RoundsLeft /\ round' = round + 1 /\ pc' = "round" /\ UNCHANGED result
    BY <1>0, <2>1, <2>3 DEF RoundsLeft
  <2>4. CASE Stop(FALSE, MaxRounds, "max-rounds") /\ UNCHANGED round
    BY <1>0, <2>1, <2>4 DEF Stop
  <2> QED BY <1>6, <2>2, <2>3, <2>4 DEF VerifyFails
<1>7. CASE UNCHANGED loopVars
  BY <1>7 DEF loopVars
<1> QED BY <1>1, <1>2, <1>3, <1>4, <1>5, <1>6, <1>7 DEF LoopNext

\* Every variable of the loop has its type: it reports no more rounds than it
\* was allowed, and counts no more failures.
THEOREM LoopTypeCorrect == LoopSpec => []LoopTypeOK
<1>1. LoopInit => LoopTypes
  BY MaxRoundsAssumption
  DEF LoopInit, LoopTypes, LoopTypeOK, NoContext, NoResult
<1>2. LoopTypes /\ [LoopNext]_loopVars => LoopTypes'
  BY NextLoopTypes
<1>3. LoopTypes => LoopTypeOK
  BY DEF LoopTypes
<1> QED BY <1>1, <1>2, <1>3, PTL DEF LoopSpec

=============================================================================
