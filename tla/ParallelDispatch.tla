-------------------------- MODULE ParallelDispatch --------------------------
(***************************************************************************)
(* A batch of agents dispatched in parallel (dispatchAgentsParallel of     *)
(* packages/core/src/agents/orchestrator.ts): each works in its own copy   *)
(* of the project, behind a semaphore of the batch and then that of the    *)
(* process (SubagentSlots), and what the successful ones changed is merged *)
(* back (agents/workspace-isolation.ts).  The user, or another program,    *)
(* edits the project meanwhile.                                            *)
(*                                                                         *)
(* A file is the set of those whose edits are in it; without any it does   *)
(* not exist.                                                              *)
(***************************************************************************)
EXTENDS SubagentSlots

CONSTANTS
  Members,            \* the dispatches of the batch, in order
  Files, Before, Outside  \* what a file held, and an edit from outside

ASSUME MembersAssumption ==
  Members \in Seq(Dispatches) /\ IsInjective(Members) /\ Members # <<>>
ASSUME WritersAssumption == Before \notin Dispatches /\ Outside \notin Dispatches

VARIABLES
  phase,            \* of the batch: what it has returned, in the end
  semaphore, queue, \* the batch's own semaphore: tokens, and who waits
  member,           \* where each member is
  root, clone,      \* the project, and the copy of each member
  cloned,           \* history: the project when it was copied
  touched,          \* history: the files edited from outside since
  conflicts         \* of the MergeResult

batchVars == <<phase, semaphore, queue, member>>
fileVars == <<root, clone, cloned, touched, conflicts>>
parallelVars == <<vars, batchVars, fileVars>>

InBatch  == ToSet(Members)
Contents == SUBSET (Dispatches \cup {Before, Outside})
Trees    == [Files -> Contents]

BatchInit ==
  /\ Init
  /\ phase = "idle" /\ semaphore = Limit /\ queue = <<>>
  /\ member = [m \in InBatch |-> "out"]
  /\ root \in [Files -> {{}, {Before}}]
  /\ cloned = root /\ clone = [m \in InBatch |-> root]
  /\ touched = {} /\ conflicts = {}

-----------------------------------------------------------------------------
(* The batch's semaphore.                                                  *)

\* Faulty variant: no member waits.
EnteringAll == Len(Members)

Entering == IF Limit < Len(Members) THEN Limit ELSE Len(Members)

\* Every member is copied its workspace first.  They then enter in one tick:
\* all acquire before any releases, which also returns a token while it wakes
\* the next one.
Start ==
  /\ phase = "idle"
  /\ phase' = "dispatching"
  /\ cloned' = root /\ clone' = [m \in InBatch |-> root]
  /\ semaphore' = Limit - Entering
  /\ member' = [m \in InBatch |->
                  IF m \in ToSet(SubSeq(Members, 1, Entering)) THEN "admitted" ELSE "queued"]
  /\ queue' = SubSeq(Members, Entering + 1, Len(Members))
  /\ UNCHANGED <<vars, root, touched, conflicts>>

\* A copy fails: nothing is dispatched.
StartFails ==
  /\ phase = "idle"
  /\ phase' = "threw"
  /\ UNCHANGED <<vars, semaphore, queue, member, fileVars>>

Release(m) ==
  /\ semaphore' = semaphore + 1
  /\ IF queue = <<>>
     THEN member' = [member EXCEPT ![m] = "settled"] /\ UNCHANGED queue
     ELSE /\ member' = [member EXCEPT ![m] = "settled", ![Head(queue)] = "admitted"]
          /\ queue' = Tail(queue)

\* Faulty variant: a skipped member gives back a slot that it never took.
SkipReleasing(m) ==
  /\ member[m] = "admitted"
  /\ Release(m)
  /\ ReleaseSubagentSlot(stage)
  /\ UNCHANGED <<chain, aborted, exitCode, shown, inFlight, phase, fileVars>>

\* The cost budget is exhausted: the member is skipped, with exit code 1.
Skip(m) ==
  /\ member[m] = "admitted"
  /\ Release(m)
  /\ UNCHANGED <<vars, phase, fileVars>>

Enter(m) ==
  /\ member[m] = "admitted"
  /\ member' = [member EXCEPT ![m] = "entered"]
  /\ Call(m)
  /\ UNCHANGED <<phase, semaphore, queue, fileVars>>

-----------------------------------------------------------------------------
(* The dispatches: steps of SubagentSlots.                                 *)

Proceed(d) ==
  /\ Announce(d) \/ Prepare(d) \/ Begin(d)
  /\ UNCHANGED <<batchVars, fileVars>>

BatchDelegate(p, d) ==
  /\ d \notin InBatch
  /\ Delegate(p, d)
  /\ UNCHANGED <<batchVars, fileVars>>

\* dispatchAgent returned or threw: the member has its result.
BatchSettle(d) ==
  /\ \/ Reject(d) \/ SkillsRootMissing(d) \/ RoutingFails(d)
     \/ \E code \in {0, 1} : Finish(d, code)
     \/ CutShort(d)
  /\ IF d \in InBatch THEN Release(d) ELSE UNCHANGED <<semaphore, queue, member>>
  /\ UNCHANGED <<phase, fileVars>>

BatchAbort ==
  /\ phase = "dispatching"
  /\ Abort
  /\ UNCHANGED <<batchVars, fileVars>>

\* A nested dispatch works in the copy of the member it is made under.
Workspace(d) == IF chain[d] = <<>> THEN d ELSE Head(chain[d])

\* An agent edits or deletes a file of its workspace.  One that was cut short
\* may still do so: what it had begun is not undone, nor waited for.
Edit(d, f) ==
  /\ phase = "dispatching"
  /\ stage[d] \in {"working", "delegating", "cut"}
  /\ LET w == Workspace(d) IN
     /\ w \in InBatch
     /\ \E content \in {clone[w][f] \cup {d}, {}} :
          clone' = [clone EXCEPT ![w][f] = content]
  /\ UNCHANGED <<vars, batchVars, root, cloned, touched, conflicts>>

EditOutside(f) ==
  /\ phase = "dispatching" /\ f \notin touched
  /\ \E content \in {root[f] \cup {Outside}, {}} : root' = [root EXCEPT ![f] = content]
  /\ touched' = touched \cup {f}
  /\ UNCHANGED <<vars, batchVars, clone, cloned, conflicts>>

-----------------------------------------------------------------------------
(* The merge.                                                              *)

\* Faulty variant: every workspace is merged.
AllWorkspaces == InBatch

Successful == {m \in InBatch : stage[m] = "done" /\ exitCode[m] = 0}

\* detectWorkspaceChanges compares a copy with the project as it is now.
Changed(m) == {f \in Files : clone[m][f] # root[f]}

\* Faulty variant: a failed member's changes count as well.
OverlappingAny ==
  {f \in Files : \E m, n \in InBatch : m # n /\ f \in Changed(m) \cap Changed(n)}

Overlapping ==
  {f \in Files : \E m, n \in Successful : m # n /\ f \in Changed(m) \cap Changed(n)}
Claimed == UNION {Changed(m) : m \in Successful}

Applied(files) ==
  [f \in Files |-> IF f \in files
                   THEN clone[CHOOSE m \in Successful : f \in Changed(m)][f]
                   ELSE root[f]]

\* All or nothing, unless copying a file fails on the way.
Merge ==
  /\ phase = "dispatching"
  /\ \A m \in InBatch : member[m] = "settled"
  /\ conflicts' = Overlapping
  /\ \/ /\ Overlapping # {}
        /\ phase' = "conflict" /\ UNCHANGED root
     \/ /\ Overlapping = {}
        /\ phase' = IF Successful = InBatch THEN "success" ELSE "partial"
        /\ root' = Applied(Claimed)
     \/ /\ Overlapping = {} /\ Claimed # {}
        /\ phase' = "threw"
        /\ \E files \in SUBSET Claimed : files # Claimed /\ root' = Applied(files)
  /\ UNCHANGED <<vars, semaphore, queue, member, clone, cloned, touched>>

BatchNext ==
  \/ Start \/ StartFails \/ BatchAbort \/ Merge
  \/ \E m \in InBatch : Skip(m) \/ Enter(m)
  \/ \E d \in Dispatches : \/ Proceed(d) \/ BatchSettle(d)
                            \/ (\E p \in Dispatches : BatchDelegate(p, d))
                            \/ (\E f \in Files : Edit(d, f))
  \/ \E f \in Files : EditOutside(f)

BatchSpec == BatchInit /\ [][BatchNext]_parallelVars

\* The task of a dispatch ends, at the latest by its deadline, and the setup
\* before it awaits next to nothing.  Only routing, in between, awaits processes
\* that nothing limits: its deadline aborts a signal that nobody looks at.
Fairness ==
  /\ WF_parallelVars(Merge)
  /\ \A m \in InBatch : WF_parallelVars(Enter(m) \/ Skip(m))
  /\ \A d \in Dispatches : WF_parallelVars(stage[d] # "routing" /\ (Proceed(d) \/ BatchSettle(d)))

FairSpec == BatchSpec /\ Fairness

-----------------------------------------------------------------------------
(* Properties.                                                             *)

BatchTypeOK ==
  /\ phase \in {"idle", "dispatching", "success", "partial", "conflict", "threw"}
  /\ semaphore \in 0..(Limit + Len(Members)) /\ queue \in Seq(InBatch)
  /\ member \in [InBatch -> {"out", "queued", "admitted", "entered", "settled"}]
  /\ root \in Trees /\ cloned \in Trees /\ clone \in [InBatch -> Trees]
  /\ touched \subseteq Files /\ conflicts \subseteq Files

\* A batch, its skipped and failing members and its merge, runs its dispatches
\* as SubagentSlots says that dispatches run: every step of the batch is one of
\* theirs or leaves them alone.
ImplementsSlots == Spec

\* The batch itself runs no more than maxParallelAgents at once, although its
\* release returns a token that the woken member does not take.
BatchWidthIsBounded ==
  Cardinality({m \in InBatch : member[m] \in {"admitted", "entered"}}) <= Limit

\* "Merge changes ONLY from successful agent workspaces": a merge writes what
\* one successful member has of a file, and nothing at all in a conflict.
MergesOnlySuccesses ==
  [][phase' # phase /\ phase = "dispatching" =>
       \A f \in Files : root'[f] # root[f] =>
         /\ phase' # "conflict"
         /\ \E m \in InBatch : exitCode[m] = 0 /\ root'[f] = clone[m][f]]_parallelVars

\* A conflict is reported for files that two members changed, or that changed
\* under them.
ConflictsAreReal ==
  \A f \in conflicts :
    \/ f \in touched
    \/ Cardinality({m \in Successful : clone[m][f] # cloned[f]}) > 1

\* A batch returns, unless the routing of one of its dispatches hangs forever:
\* also when nested dispatches wait for the slots that their callers hold, for
\* the deadline of a caller frees its slot.
BatchesReturn ==
  (\A d \in Dispatches : []<>(stage[d] # "routing"))
    => (phase = "dispatching" ~> phase # "dispatching")
=============================================================================
