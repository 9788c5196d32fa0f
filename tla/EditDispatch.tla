---------------------------- MODULE EditDispatch ----------------------------
(***************************************************************************)
(* Dispatches of one orchestrator that edit files of the same tree         *)
(* (packages/core/src/agents/orchestrator.ts, the branch of                *)
(* dispatchAgentImpl for suggested edits).  Each parses the edits out of   *)
(* the model's answer, takes the lock of every file it edits (LockManager),*)
(* stages the files, verifies them in a shadow copy, and corrects itself   *)
(* for some rounds (VerifyLoop) before it commits and releases its locks.  *)
(*                                                                         *)
(* The content of a file is the set of dispatches whose edit is in it: a   *)
(* SEARCH/REPLACE edit keeps what its dispatch saw of the file and adds    *)
(* its own.  Every await is a point where other dispatches may run.        *)
(***************************************************************************)
EXTENDS Naturals, Sequences, FiniteSets, SequencesExt

CONSTANTS
  Files, Dispatches, Workers, WorkerOf, Nobody, Timers, NoTimer,
  MaxRounds     \* bound of the verify loop

ASSUME FilesAssumption     == IsFiniteSet(Files)
ASSUME WorkerOfAssumption  == WorkerOf \in [Dispatches -> Workers]
ASSUME NobodyAssumption    == Nobody \notin Workers
ASSUME TimersAssumption    == Timers # {} /\ NoTimer \notin Timers
ASSUME MaxRoundsAssumption == MaxRounds \in Nat \ {0}

VARIABLES
  locks, queues, lockTimers, armed, waitTimers, promise, lapsed,  \* of LockManager
  disk,      \* disk[f]: the dispatches whose edits of f are in the tree
  pc,        \* where each dispatch is
  round,     \* the round of its verify loop
  todo,      \* its suggested edits that are not staged yet, in order
  edits,     \* edits[d][f]: the content its suggestion gives f
  acquired,  \* acquiredLocks: the files it locked and will release
  staged,    \* the files of its transaction
  original,  \* original[d][f]: the content f had when it was staged
  overruns   \* whether a lock may be held beyond its time, 15 seconds

lockVars == <<locks, queues, lockTimers, armed, waitTimers, promise, lapsed>>
vars == <<lockVars, disk, pc, round, todo, edits, acquired, staged, original,
          overruns>>

Locks == INSTANCE LockManager WITH Clients <- Dispatches

Contents == SUBSET Dispatches

Init ==
  /\ Locks!Init
  /\ disk     = [f \in Files |-> {}]
  /\ pc       = [d \in Dispatches |-> "thinking"]
  /\ round    = [d \in Dispatches |-> 1]
  /\ todo     = [d \in Dispatches |-> <<>>]
  /\ edits    = [d \in Dispatches |-> [f \in Files |-> {}]]
  /\ acquired = [d \in Dispatches |-> {}]
  /\ staged   = [d \in Dispatches |-> {}]
  /\ original = [d \in Dispatches |-> [f \in Files |-> {}]]
  /\ overruns \in BOOLEAN

Goto(d, label) == pc' = [pc EXCEPT ![d] = label]

-----------------------------------------------------------------------------
(* One round: the model answers, and its edits are staged under locks.     *)

\* parseFileEditSuggestions computes the new contents from the files as they
\* are now; a new transaction starts.  A first answer without edits leaves
\* this branch, a later one does not.
Parse(d, fs) ==
  /\ pc[d] = "thinking"
  /\ round[d] = 1 => fs # <<>>
  /\ todo'   = [todo EXCEPT ![d] = fs]
  /\ edits'  = [edits EXCEPT ![d] =
                  [f \in Files |-> IF f \in ToSet(fs) THEN disk[f] \union {d} ELSE {}]]
  /\ staged' = [staged EXCEPT ![d] = {}]
  /\ Goto(d, "staging")
  /\ UNCHANGED <<lockVars, disk, round, acquired, original, overruns>>

\* Faulty variant: the answer of acquireLock is not awaited.
AcquireUnawaited(d) ==
  /\ pc[d] = "staging"
  /\ todo[d] # <<>>
  /\ LET f == Head(todo[d]) IN
       /\ f \notin acquired[d]
       /\ \/ Locks!AcquireAgain(d, f)
          \/ Locks!AcquireFree(d, f)
          \/ Locks!AcquireQueued(d, f)
       /\ acquired' = [acquired EXCEPT ![d] = @ \union {f}]
  /\ UNCHANGED <<disk, pc, round, todo, edits, staged, original, overruns>>

\* await acquireLock for the next file, if this dispatch has not locked it.
Acquire(d) ==
  /\ pc[d] = "staging"
  /\ todo[d] # <<>>
  /\ LET f == Head(todo[d]) IN
       /\ f \notin acquired[d]
       /\ \/ Locks!AcquireAgain(d, f)
          \/ Locks!AcquireFree(d, f)
          \/ Locks!AcquireQueued(d, f)
  /\ Goto(d, "waiting")
  /\ UNCHANGED <<disk, round, todo, edits, acquired, staged, original,
                 overruns>>

\* The lock is granted: it is noted for the release.
Granted(d) ==
  /\ pc[d] = "waiting"
  /\ promise[d][Head(todo[d])] = "granted"
  /\ acquired' = [acquired EXCEPT ![d] = @ \union {Head(todo[d])}]
  /\ Goto(d, "staging")
  /\ UNCHANGED <<lockVars, disk, round, todo, edits, staged, original,
                 overruns>>

\* The request timed out: LockAcquisitionError.
Refused(d) ==
  /\ pc[d] = "waiting"
  /\ promise[d][Head(todo[d])] = "refused"
  /\ staged' = [staged EXCEPT ![d] = {}]
  /\ Goto(d, "failing")
  /\ UNCHANGED <<lockVars, disk, round, todo, edits, acquired, original,
                 overruns>>

\* The file is read and staged.
StageFile(d) ==
  /\ pc[d] = "staging"
  /\ todo[d] # <<>>
  /\ LET f == Head(todo[d]) IN
       /\ f \in acquired[d]
       /\ original' = [original EXCEPT ![d][f] = disk[f]]
       /\ staged'   = [staged EXCEPT ![d] = @ \union {f}]
  /\ todo' = [todo EXCEPT ![d] = Tail(@)]
  /\ UNCHANGED <<lockVars, disk, pc, round, edits, acquired, overruns>>

\* Every edit is staged: verification starts in a shadow copy.
Verify(d) ==
  /\ pc[d] = "staging"
  /\ todo[d] = <<>>
  /\ Goto(d, "verifying")
  /\ UNCHANGED <<lockVars, disk, round, todo, edits, acquired, staged,
                 original, overruns>>

-----------------------------------------------------------------------------
(* How a round ends.                                                       *)

\* Verification passes (a transaction without changes always does).
VerifyPasses(d) ==
  /\ pc[d] = "verifying"
  /\ Goto(d, "committing")
  /\ UNCHANGED <<lockVars, disk, round, todo, edits, acquired, staged,
                 original, overruns>>

\* Verification fails and there is another round; the locks are kept.
VerifyFails(d) ==
  /\ pc[d] = "verifying"
  /\ staged[d] # {}
  /\ round[d] < MaxRounds
  /\ round' = [round EXCEPT ![d] = @ + 1]
  /\ Goto(d, "thinking")
  /\ UNCHANGED <<lockVars, disk, todo, edits, acquired, staged, original,
                 overruns>>

\* The loop gives up, or anything throws (cancelled, a deadline, the model):
\* the transaction is discarded.
Fail(d) ==
  /\ \/ pc[d] \in {"staging", "verifying", "committing"}
     \/ pc[d] = "thinking" /\ round[d] > 1
  /\ staged' = [staged EXCEPT ![d] = {}]
  /\ Goto(d, "failing")
  /\ UNCHANGED <<lockVars, disk, round, todo, edits, acquired, original,
                 overruns>>

\* The transaction is written to the tree (see MutationJournal).
Commit(d) ==
  /\ pc[d] = "committing"
  /\ disk' = [f \in Files |-> IF f \in staged[d] THEN edits[d][f] ELSE disk[f]]
  /\ Goto(d, "done")
  /\ UNCHANGED <<lockVars, round, todo, edits, acquired, staged, original,
                 overruns>>

\* Faulty variant: the locks are released on success only.
ReleaseAfterSuccess(d) ==
  /\ pc[d] = "done"
  /\ \E f \in acquired[d] :
       /\ Locks!Release(d, f) \/ Locks!ReleaseLate(d, f)
       /\ acquired' = [acquired EXCEPT ![d] = @ \ {f}]
  /\ UNCHANGED <<disk, pc, round, todo, edits, staged, original, overruns>>

\* Faulty variant: the commit is not awaited before finally.
ReleaseBeforeCommit(d) ==
  /\ pc[d] \in {"committing", "done", "failing"}
  /\ \E f \in acquired[d] :
       /\ Locks!Release(d, f) \/ Locks!ReleaseLate(d, f)
       /\ acquired' = [acquired EXCEPT ![d] = @ \ {f}]
  /\ UNCHANGED <<disk, pc, round, todo, edits, staged, original, overruns>>

\* finally: every lock that was acquired is released.
ReleaseLocks(d) ==
  /\ pc[d] \in {"done", "failing"}
  /\ \E f \in acquired[d] :
       /\ Locks!Release(d, f) \/ Locks!ReleaseLate(d, f)
       /\ acquired' = [acquired EXCEPT ![d] = @ \ {f}]
  /\ UNCHANGED <<disk, pc, round, todo, edits, staged, original, overruns>>

-----------------------------------------------------------------------------
(* The timers of the lock manager.                                         *)

RequestTimer(d, f) ==
  /\ Locks!RequestTimesOut(d, f)
  /\ UNCHANGED <<disk, pc, round, todo, edits, acquired, staged, original,
                 overruns>>

LeaseTimer(f, w) ==
  /\ overruns
  /\ Locks!LeaseExpires(f, w)
  /\ UNCHANGED <<disk, pc, round, todo, edits, acquired, staged, original,
                 overruns>>

\* The suggestions of an answer: some files, each once.
Suggestions == {fs \in SeqOf(Files, Cardinality(Files)) : IsInjective(fs)}

DispatchStep(d) ==
  \/ \E fs \in Suggestions : Parse(d, fs)
  \/ Acquire(d) \/ Granted(d) \/ Refused(d) \/ StageFile(d)
  \/ Verify(d) \/ VerifyPasses(d) \/ VerifyFails(d) \/ Fail(d)
  \/ Commit(d) \/ ReleaseLocks(d)

Next ==
  \/ \E d \in Dispatches : DispatchStep(d)
  \/ \E d \in Dispatches, f \in Files : RequestTimer(d, f)
  \/ \E f \in Files, w \in Workers : LeaseTimer(f, w)

Spec == Init /\ [][Next]_vars

\* Chat turns and verification commands have deadlines, the continuations of
\* a settled promise run, and so do timers that are never pushed back.
FairSpec ==
  /\ Spec
  /\ \A d \in Dispatches : WF_vars(DispatchStep(d))
  /\ \A d \in Dispatches, f \in Files : WF_vars(RequestTimer(d, f))

-----------------------------------------------------------------------------
(* Properties.                                                             *)

\* Every variable has its type.
TypeOK ==
  /\ Locks!TypeOK
  /\ disk     \in [Files -> Contents]
  /\ pc       \in [Dispatches -> {"thinking", "staging", "waiting", "verifying",
                                  "committing", "failing", "done"}]
  /\ round    \in [Dispatches -> 1 .. MaxRounds]
  /\ todo     \in [Dispatches -> Seq(Files)]
  /\ edits    \in [Dispatches -> [Files -> Contents]]
  /\ acquired \in [Dispatches -> SUBSET Files]
  /\ staged   \in [Dispatches -> SUBSET Files]
  /\ original \in [Dispatches -> [Files -> Contents]]
  /\ overruns \in BOOLEAN

\* The dispatch has not answered yet: it is at its start.
Idle(d) == pc[d] = "thinking" /\ round[d] = 1

\* No other dispatch of its agent has answered yet.
Alone(d) ==
  \A e \in Dispatches \ {d} : WorkerOf[e] = WorkerOf[d] => Idle(e)

\* Concurrent acquisition is prevented: no two dispatches that are the only
\* ones of their agents hold the lock of one file, as the lock manager's test
\* says, unless the lease of one of them has lapsed.
OneWriterPerFile ==
  \A c, d \in Dispatches :
    c # d /\ Alone(c) /\ Alone(d) =>
      \A f \in acquired[c] \cap acquired[d] :
        <<c, f>> \in lapsed \/ <<d, f>> \in lapsed

AtWork == {"staging", "waiting", "verifying", "committing"}

\* The original that was staged, and that a failed commit would restore, is
\* still what the file holds: from staging to the commit, through any number
\* of rounds, nobody else changes the file, if leases are kept and no agent
\* has two dispatches at work.
OriginalsAreCurrent ==
  ~ overruns /\ (\A d \in Dispatches : Idle(d) \/ Alone(d)) =>
    \A d \in Dispatches :
      pc[d] \in AtWork => \A f \in staged[d] : original[d][f] = disk[f]

\* However a dispatch ends (committed, rejected, refused a lock, cancelled, its
\* lease lapsed or released by another dispatch of its agent), it gives back
\* every lock it was granted.
LocksAreGivenBack ==
  \A d \in Dispatches, f \in Files :
    promise[d][f] = "granted" ~> promise[d][f] # "granted"

=============================================================================
