---------------------------- MODULE MCTaskRunner ----------------------------
(* Instances of TaskRunner for TLC, and one of VerifyLoop, which is of the  *)
(* same package and does not meet them.                                     *)
EXTENDS TaskRunner, VerifyLoop, TLC

CONSTANT Pair   \* two runs, the ones that may overlap

Plan(second, third, fourth) ==
  (1 :> {}) @@ (2 :> second) @@ (3 :> third) @@ (4 :> fourth)

\* Two tasks that may run together once the first is done or skipped, and one
\* that waits for both.
Diamond == { Plan({1}, {1}, {2, 3}) }

\* A chain, a cycle that leaves one task free, a cycle of all but the first,
\* and dependencies on a task that does not exist.
OddPlans ==
  { Plan({1}, {2}, {3}), Plan({1}, {4}, {3}), Plan({4}, {2}, {3}),
    Plan({1}, {2}, {2, 9}), Plan({9}, {2}, {2, 3}) }

AllPlans == Diamond \union OddPlans

\* What a behaviour shows: runs of the diamond one after the other ("apart"),
\* the pair of runs, which may overlap, of an odd plan, with one attempt for
\* each task and leases that are kept ("overlapping"), or the verify loop.
VARIABLE scenario

OnceKept == INSTANCE TaskRunner WITH MaxAttempts <- 1, LeasesExpire <- FALSE

MCInit ==
  /\ Init /\ LoopInit
  /\ scenario \in {"apart", "overlapping", "loop"}
  /\ deps \in IF scenario = "overlapping" THEN OddPlans ELSE Diamond

\* Runs are alike: it is enough to start them in the order of their numbers.
InOrder ==
  \A r, q \in Runs : q < r /\ runPc'[r] # "unused" => runPc'[q] # "unused"

MCNext ==
  /\ UNCHANGED scenario
  /\ \/ /\ scenario = "apart"
        /\ Next /\ ~ overlapped' /\ InOrder
        /\ UNCHANGED loopVars
     \/ /\ scenario = "overlapping"
        /\ OnceKept!Next /\ InOrder
        /\ \A r \in Runs \ Pair : runPc'[r] = "unused"
        /\ UNCHANGED loopVars
     \/ /\ scenario = "loop"
        /\ LoopNext
        /\ UNCHANGED vars

MCSpec ==
  /\ MCInit /\ [][MCNext]_<<vars, loopVars, scenario>>
  /\ \A r \in Runs : WF_vars(SchedulerStep(r))
  /\ \A r \in Runs, t \in Tasks : WF_vars(TaskStep(r, t))

=============================================================================
