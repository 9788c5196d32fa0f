------------------------- MODULE EditDispatchProofs -------------------------
(***************************************************************************)
(* Proofs about EditDispatch, for any number of dispatches, agents and     *)
(* files and any bound of rounds.  The dispatches use the lock manager as  *)
(* LockManager specifies it, so what LockManagerProofs proves of it holds  *)
(* here.                                                                   *)
(***************************************************************************)
EXTENDS EditDispatch, SequenceTheorems, TLAPS

Manager == INSTANCE LockManagerProofs WITH Clients <- Dispatches

USE WorkerOfAssumption, NobodyAssumption, TimersAssumption

-----------------------------------------------------------------------------
(* The lock manager that the dispatches call is the one proved about.      *)

LEMMA SameManager ==
  /\ Locks!Init <=> Manager!Init
  /\ Locks!TypeOK <=> Manager!TypeOK
  /\ \A d \in Dispatches, f \in Files :
       /\ Locks!AcquireAgain(d, f) <=> Manager!AcquireAgain(d, f)
       /\ Locks!AcquireFree(d, f) <=> Manager!AcquireFree(d, f)
       /\ Locks!AcquireQueued(d, f) <=> Manager!AcquireQueued(d, f)
       /\ Locks!RequestTimesOut(d, f) <=> Manager!RequestTimesOut(d, f)
       /\ Locks!Release(d, f) <=> Manager!Release(d, f)
       /\ Locks!ReleaseLate(d, f) <=> Manager!ReleaseLate(d, f)
  /\ \A f \in Files, w \in Workers :
       Locks!LeaseExpires(f, w) <=> Manager!LeaseExpires(f, w)
<1>1. Locks!Init <=> Manager!Init
  BY DEF Locks!Init, Manager!Init
<1>2. Locks!TypeOK <=> Manager!TypeOK
  BY DEF Locks!TypeOK, Manager!TypeOK, Locks!Answers, Manager!Answers
<1>3. ASSUME NEW d \in Dispatches, NEW f \in Files
      PROVE  /\ Locks!AcquireAgain(d, f) <=> Manager!AcquireAgain(d, f)
             /\ Locks!AcquireFree(d, f) <=> Manager!AcquireFree(d, f)
             /\ Locks!AcquireQueued(d, f) <=> Manager!AcquireQueued(d, f)
             /\ Locks!RequestTimesOut(d, f) <=> Manager!RequestTimesOut(d, f)
             /\ Locks!ReleaseLate(d, f) <=> Manager!ReleaseLate(d, f)
  <2>1. Locks!AcquireAgain(d, f) <=> Manager!AcquireAgain(d, f)
    BY DEF Locks!AcquireAgain, Manager!AcquireAgain,
           Locks!SetLock, Manager!SetLock, Locks!ClearLock, Manager!ClearLock
  <2>2. Locks!AcquireFree(d, f) <=> Manager!AcquireFree(d, f)
    BY DEF Locks!AcquireFree, Manager!AcquireFree,
           Locks!SetLock, Manager!SetLock, Locks!ClearLock, Manager!ClearLock
  <2>3. Locks!AcquireQueued(d, f) <=> Manager!AcquireQueued(d, f)
    BY DEF Locks!AcquireQueued, Manager!AcquireQueued
  <2>4. Locks!RequestTimesOut(d, f) <=> Manager!RequestTimesOut(d, f)
    BY DEF Locks!RequestTimesOut, Manager!RequestTimesOut,
           Locks!RemoveAt, Manager!RemoveAt
  <2>5. Locks!ReleaseLate(d, f) <=> Manager!ReleaseLate(d, f)
    BY DEF Locks!ReleaseLate, Manager!ReleaseLate
  <2> QED BY <2>1, <2>2, <2>3, <2>4, <2>5
<1>4. ASSUME NEW f, NEW p, NEW ts
      PROVE  Locks!ClearAndProcessQueue(f, p, ts) <=> Manager!ClearAndProcessQueue(f, p, ts)
  BY DEF Locks!ClearAndProcessQueue, Manager!ClearAndProcessQueue,
         Locks!SetLock, Manager!SetLock, Locks!ClearLock, Manager!ClearLock,
         Locks!NextRequest, Manager!NextRequest
<1>5. ASSUME NEW d \in Dispatches, NEW f \in Files
      PROVE  Locks!Release(d, f) <=> Manager!Release(d, f)
  BY <1>4 DEF Locks!Release, Manager!Release
<1>6. ASSUME NEW f \in Files, NEW w \in Workers
      PROVE  Locks!LeaseExpires(f, w) <=> Manager!LeaseExpires(f, w)
  BY <1>4 DEF Locks!LeaseExpires, Manager!LeaseExpires, Locks!HeldBy, Manager!HeldBy
<1> QED BY <1>1, <1>2, <1>3, <1>5, <1>6

\* An answer names known files.
LEMMA SuggestionsAreFiles == Suggestions \subseteq Seq(Files)
<1> SUFFICES ASSUME NEW fs \in Suggestions PROVE fs \in Seq(Files)
  OBVIOUS
<1>1. PICK n \in 0 .. Cardinality(Files) : fs \in [1 .. n -> Files]
  BY DEF Suggestions, SeqOf
<1> QED BY <1>1

-----------------------------------------------------------------------------
(* Types.                                                                  *)

\* The types of what a dispatch keeps itself; it waits for a file it knows.
OwnTypes ==
  /\ disk     \in [Files -> Contents]
  /\ pc       \in [Dispatches -> AtWork \union {"thinking", "failing", "done"}]
  /\ round    \in [Dispatches -> 1 .. MaxRounds]
  /\ todo     \in [Dispatches -> Seq(Files)]
  /\ edits    \in [Dispatches -> [Files -> Contents]]
  /\ acquired \in [Dispatches -> SUBSET Files]
  /\ staged   \in [Dispatches -> SUBSET Files]
  /\ original \in [Dispatches -> [Files -> Contents]]
  /\ overruns \in BOOLEAN
  /\ \A d \in Dispatches : pc[d] = "waiting" => todo[d] # <<>>

LEMMA InitOwnTypes == Init => OwnTypes
  BY MaxRoundsAssumption DEF Init, OwnTypes, Contents, AtWork

LEMMA NextOwnTypes == OwnTypes /\ [Next]_vars => OwnTypes'
<1> SUFFICES ASSUME OwnTypes, [Next]_vars PROVE OwnTypes'
  OBVIOUS
<1> USE DEF OwnTypes, Goto, AtWork
<1>1. ASSUME NEW d \in Dispatches, NEW fs \in Suggestions, Parse(d, fs)
      PROVE  OwnTypes'
  <2>1. fs \in Seq(Files)
    BY SuggestionsAreFiles
  <2>2. [f \in Files |-> IF f \in ToSet(fs) THEN disk[f] \union {d} ELSE {}]
          \in [Files -> Contents]
    BY DEF Contents
  <2> QED BY <1>1, <2>1, <2>2 DEF Parse
<1>2. ASSUME NEW d \in Dispatches, Acquire(d)
      PROVE  OwnTypes'
  BY <1>2 DEF Acquire
<1>3. ASSUME NEW d \in Dispatches, Granted(d) \/ Refused(d) \/ StageFile(d)
      PROVE  OwnTypes'
  <2>1. todo[d] # <<>> => Tail(todo[d]) \in Seq(Files) /\ Head(todo[d]) \in Files
    BY HeadTailProperties
  <2>2. CASE Granted(d)
    BY <2>1, <2>2 DEF Granted
  <2>3. CASE Refused(d)
    BY <2>3 DEF Refused
  <2>4. CASE StageFile(d)
    <3> DEFINE f == Head(todo[d])
    <3>1. f \in Files /\ disk[f] \in Contents
      BY <2>1, <2>4 DEF StageFile
    <3>2. original' = [original EXCEPT ![d][f] = disk[f]]
      BY <2>4 DEF StageFile
    <3>3. staged' = [staged EXCEPT ![d] = staged[d] \union {f}]
      BY <2>4 DEF StageFile
    <3> HIDE DEF f
    <3>4. original' \in [Dispatches -> [Files -> Contents]]
      BY <3>1, <3>2
    <3>5. staged' \in [Dispatches -> SUBSET Files]
      BY <3>1, <3>3
    <3> QED BY <2>1, <2>4, <3>4, <3>5 DEF StageFile
  <2> QED BY <1>3, <2>2, <2>3, <2>4
<1>4. ASSUME NEW d \in Dispatches, Verify(d) \/ VerifyPasses(d) \/ Fail(d)
      PROVE  OwnTypes'
  BY <1>4 DEF Verify, VerifyPasses, Fail
<1>5. ASSUME NEW d \in Dispatches, VerifyFails(d)
      PROVE  OwnTypes'
  BY <1>5, MaxRoundsAssumption DEF VerifyFails
<1>6. ASSUME NEW d \in Dispatches, Commit(d)
      PROVE  OwnTypes'
  BY <1>6 DEF Commit
<1>7. ASSUME NEW d \in Dispatches, ReleaseLocks(d)
      PROVE  OwnTypes'
  BY <1>7 DEF ReleaseLocks
<1>8. ASSUME NEW d \in Dispatches, NEW f \in Files, RequestTimer(d, f)
      PROVE  OwnTypes'
  BY <1>8 DEF RequestTimer
<1>9. ASSUME NEW f \in Files, NEW w \in Workers, LeaseTimer(f, w)
      PROVE  OwnTypes'
  BY <1>9 DEF LeaseTimer
<1>10. CASE UNCHANGED vars
  BY <1>10 DEF vars
<1> QED BY <1>1, <1>2, <1>3, <1>4, <1>5, <1>6, <1>7, <1>8, <1>9, <1>10
        DEF Next, DispatchStep

-----------------------------------------------------------------------------
(* The steps of the lock manager.                                          *)

\* Every step of a dispatch is a step of the lock manager, or none.
LEMMA StepsOfManager == OwnTypes /\ [Next]_vars => [Manager!Next]_(Manager!vars)
<1> SUFFICES ASSUME OwnTypes, [Next]_vars PROVE Manager!Next \/ UNCHANGED lockVars
  BY DEF Manager!vars, lockVars
<1>1. ASSUME NEW d \in Dispatches, DispatchStep(d)
      PROVE  Manager!Next \/ UNCHANGED lockVars
  <2>1. CASE \/ \E fs \in Suggestions : Parse(d, fs)
             \/ Granted(d) \/ Refused(d) \/ StageFile(d) \/ Verify(d)
             \/ VerifyPasses(d) \/ VerifyFails(d) \/ Fail(d) \/ Commit(d)
    BY <2>1 DEF Parse, Granted, Refused, StageFile, Verify, VerifyPasses,
                VerifyFails, Fail, Commit
  <2>2. CASE Acquire(d)
    <3>1. todo[d] # <<>> => Head(todo[d]) \in Files
      BY HeadTailProperties DEF OwnTypes
    <3>2. PICK f \in Files : \/ Manager!AcquireAgain(d, f)
                             \/ Manager!AcquireFree(d, f)
                             \/ Manager!AcquireQueued(d, f)
      BY <2>2, <3>1, SameManager DEF Acquire
    <3> QED BY <3>2 DEF Manager!Next
  <2>3. CASE ReleaseLocks(d)
    BY <2>3, SameManager DEF ReleaseLocks, Manager!Next, OwnTypes
  <2> QED BY <1>1, <2>1, <2>2, <2>3 DEF DispatchStep
<1>2. ASSUME NEW d \in Dispatches, NEW f \in Files, RequestTimer(d, f)
      PROVE  Manager!Next
  BY <1>2, SameManager DEF RequestTimer, Manager!Next
<1>3. ASSUME NEW f \in Files, NEW w \in Workers, LeaseTimer(f, w)
      PROVE  Manager!Next
  BY <1>3, SameManager DEF LeaseTimer, Manager!Next
<1> QED BY <1>1, <1>2, <1>3 DEF Next, vars

LEMMA ManagerHolds == Spec => []OwnTypes /\ []Manager!IInv
<1>1. Init => OwnTypes /\ Manager!Init
  BY InitOwnTypes, SameManager DEF Init
<1>2. Manager!Spec => []Manager!IInv
  BY Manager!Invariance
<1> QED BY <1>1, <1>2, NextOwnTypes, StepsOfManager, PTL DEF Spec, Manager!Spec

\* Every variable has its type.
THEOREM TypeCorrect == Spec => []TypeOK
<1>1. OwnTypes /\ Manager!IInv => TypeOK
  BY SameManager DEF OwnTypes, TypeOK, Manager!IInv, AtWork
<1> QED BY <1>1, ManagerHolds, PTL

\* Dispatches use the lock manager as it is specified: every behaviour of
\* theirs is a behaviour of LockManager.
THEOREM ManagerIsImplemented == Spec => Manager!Spec
<1>1. Init => Manager!Init
  BY SameManager DEF Init
<1> QED BY <1>1, ManagerHolds, StepsOfManager, PTL DEF Spec, Manager!Spec

-----------------------------------------------------------------------------
(* Who holds what.                                                         *)

\* A dispatch notes only what it was granted and did not give back, one that
\* has not answered yet has asked for nothing, and the only dispatch of its
\* agent owns what it was granted while its lease lasts.
HoldInv ==
  /\ \A d \in Dispatches : \A f \in acquired[d] : promise[d][f] = "granted"
  /\ \A d \in Dispatches :
       Idle(d) => acquired[d] = {} /\ \A f \in Files : promise[d][f] = "none"
  /\ \A d \in Dispatches, f \in Files : Alone(d) => Manager!Owns(d, f)

\* Nobody goes back to the start.
LEMMA IdleBefore ==
  ASSUME OwnTypes, [Next]_vars, NEW d \in Dispatches, Idle(d)'
  PROVE  Idle(d)
<1> USE DEF OwnTypes, Goto, Idle
<1>1. ASSUME NEW e \in Dispatches, DispatchStep(e)
      PROVE  Idle(d)
  BY <1>1 DEF DispatchStep, Parse, Acquire, Granted, Refused, StageFile, Verify,
              VerifyPasses, VerifyFails, Fail, Commit, ReleaseLocks
<1> QED BY <1>1 DEF Next, RequestTimer, LeaseTimer, vars

\* Only the dispatch itself gives back what it was granted.
LEMMA AnswersOfOthers ==
  ASSUME OwnTypes, Manager!IInv, [Next]_vars,
         NEW d \in Dispatches, NEW f \in Files,
         promise[d][f] # "pending", ~ Acquire(d), ~ ReleaseLocks(d)
  PROVE  promise'[d][f] = promise[d][f]
<1>1. promise \in [Dispatches -> [Files -> Manager!Answers]]
  BY DEF Manager!IInv, Manager!TypeOK
<1>2. ASSUME NEW e \in Dispatches, Acquire(e)
      PROVE  promise'[d][f] = promise[d][f]
  <2>1. PICK g \in Files, a \in {"granted", "pending"} :
          promise' = [promise EXCEPT ![e][g] = a]
    <3>1. todo[e] # <<>> /\ Head(todo[e]) \in Files
      BY <1>2, HeadTailProperties DEF Acquire, OwnTypes
    <3> QED BY <1>2, <3>1 DEF Acquire, Locks!AcquireAgain, Locks!AcquireFree,
                              Locks!AcquireQueued
  <2> QED BY <1>1, <1>2, <2>1
<1>3. ASSUME NEW e \in Dispatches, ReleaseLocks(e)
      PROVE  promise'[d][f] = promise[d][f]
  <2>1. PICK g \in Files : Manager!Release(e, g) \/ Manager!ReleaseLate(e, g)
    BY <1>3, SameManager DEF ReleaseLocks, OwnTypes
  <2> DEFINE p == [promise EXCEPT ![e][g] = "none"]
  <2>2. p \in [Dispatches -> [Files -> Manager!Answers]] /\ p[d][f] = promise[d][f]
    BY <1>1, <1>3 DEF Manager!Answers
  <2>3. Manager!ClearAndProcessQueue(g, p, armed[g]) \/ promise' = p
    BY <2>1 DEF Manager!Release, Manager!ReleaseLate
  <2> HIDE DEF p
  <2> QED BY <2>2, <2>3, Manager!HandoverAnswers
<1>4. ASSUME NEW e \in Dispatches, NEW g \in Files, RequestTimer(e, g)
      PROVE  promise'[d][f] = promise[d][f]
  <2>1. <<e, g>> \in waitTimers /\ promise' = [promise EXCEPT ![e][g] = "refused"]
    BY <1>4 DEF RequestTimer, Locks!RequestTimesOut
  <2>2. promise[e][g] = "pending"
    BY <2>1 DEF Manager!IInv, Manager!PendingRequestsAreQueued
  <2> QED BY <1>1, <2>1, <2>2
<1>5. ASSUME NEW g \in Files, NEW w \in Workers, LeaseTimer(g, w)
      PROVE  promise'[d][f] = promise[d][f]
  <2>1. Manager!LeaseExpires(g, w)
    BY <1>5, SameManager DEF LeaseTimer
  <2>2. \E ts : Manager!ClearAndProcessQueue(g, promise, ts)
    BY <2>1, Manager!ExpiryHandsOver DEF Manager!IInv
  <2> QED BY <1>1, <2>2, Manager!HandoverAnswers
<1>6. CASE UNCHANGED promise
  BY <1>6
<1> QED BY <1>2, <1>3, <1>4, <1>5, <1>6
        DEF Next, DispatchStep, vars, lockVars, Parse, Granted, Refused, StageFile,
            Verify, VerifyPasses, VerifyFails, Fail, Commit

\* Only the dispatch itself notes what it was granted.
LEMMA NotesOfOthers ==
  ASSUME OwnTypes, [Next]_vars, NEW d \in Dispatches,
         ~ Granted(d), ~ ReleaseLocks(d)
  PROVE  acquired'[d] = acquired[d]
<1>1. ASSUME NEW e \in Dispatches, Granted(e) \/ ReleaseLocks(e)
      PROVE  acquired'[d] = acquired[d]
  BY <1>1 DEF Granted, ReleaseLocks, OwnTypes
<1>2. CASE UNCHANGED acquired
  BY <1>2
<1> QED BY <1>1, <1>2 DEF Next, DispatchStep, vars, Parse, Acquire, Refused, StageFile,
                          Verify, VerifyPasses, VerifyFails, Fail, Commit,
                          RequestTimer, LeaseTimer

\* What a dispatch has noted it was granted.
LEMMA NotedIsGranted ==
  ASSUME OwnTypes, Manager!IInv, HoldInv, [Next]_vars,
         NEW d \in Dispatches, NEW f \in acquired'[d]
  PROVE  promise'[d][f] = "granted"
<1> USE DEF OwnTypes
<1>1. /\ promise \in [Dispatches -> [Files -> Manager!Answers]]
      /\ f \in acquired[d] => f \in Files /\ promise[d][f] = "granted"
  BY DEF Manager!IInv, Manager!TypeOK, HoldInv
<1>2. CASE Acquire(d)
  <2>1. PICK a \in {"granted", "pending"} :
          promise' = [promise EXCEPT ![d][Head(todo[d])] = a]
    BY <1>2 DEF Acquire, Locks!AcquireAgain, Locks!AcquireFree, Locks!AcquireQueued
  <2>2. f \in acquired[d] /\ f # Head(todo[d])
    BY <1>2 DEF Acquire
  <2> QED BY <1>1, <2>1, <2>2
<1>3. CASE ReleaseLocks(d)
  <2>1. PICK g \in Files : /\ Manager!Release(d, g) \/ Manager!ReleaseLate(d, g)
                           /\ acquired' = [acquired EXCEPT ![d] = @ \ {g}]
    BY <1>3, SameManager DEF ReleaseLocks
  <2> DEFINE p == [promise EXCEPT ![d][g] = "none"]
  <2>2. f \in acquired[d] /\ f # g
    BY <2>1
  <2>3. p \in [Dispatches -> [Files -> Manager!Answers]] /\ p[d][f] = "granted"
    BY <1>1, <2>2 DEF Manager!Answers
  <2>4. Manager!ClearAndProcessQueue(g, p, armed[g]) \/ promise' = p
    BY <2>1 DEF Manager!Release, Manager!ReleaseLate
  <2> HIDE DEF p
  <2>5. promise'[d][f] = p[d][f] \/ promise[d][f] = "pending"
    <3>1. f \in Files
      BY <1>1, <2>2
    <3>2. CASE Manager!ClearAndProcessQueue(g, p, armed[g])
      BY <2>3, <3>1, <3>2, Manager!HandoverAnswers
    <3> QED BY <2>4, <3>2
  <2>6. promise[d][f] # "pending"
    BY <1>1, <2>2
  <2> QED BY <2>3, <2>5, <2>6
<1>4. CASE Granted(d)
  <2>1. promise' = promise /\ acquired'[d] = acquired[d] \union {Head(todo[d])}
    BY <1>4 DEF Granted, lockVars
  <2> QED BY <1>1, <1>4, <2>1 DEF Granted
<1>5. CASE ~ Acquire(d) /\ ~ ReleaseLocks(d) /\ ~ Granted(d)
  <2>1. acquired'[d] = acquired[d]
    BY <1>5, NotesOfOthers
  <2> QED BY <1>1, <1>5, <2>1, AnswersOfOthers
<1> QED BY <1>2, <1>3, <1>4, <1>5

LEMMA NextHoldInv ==
  ASSUME OwnTypes, Manager!IInv, HoldInv, [Next]_vars
  PROVE  HoldInv'
<1>1. ASSUME NEW d \in Dispatches, Idle(d)'
      PROVE  acquired'[d] = {} /\ \A f \in Files : promise'[d][f] = "none"
  <2>1. Idle(d) /\ acquired[d] = {} /\ \A f \in Files : promise[d][f] = "none"
    BY <1>1, IdleBefore DEF HoldInv
  <2>2. ~ Acquire(d) /\ ~ ReleaseLocks(d) /\ ~ Granted(d)
    BY <2>1 DEF Idle, Acquire, ReleaseLocks, Granted
  <2>3. acquired'[d] = acquired[d]
    BY <2>2, NotesOfOthers
  <2> QED BY <2>1, <2>2, <2>3, AnswersOfOthers
<1>2. ASSUME NEW d \in Dispatches, NEW f \in Files, Alone(d)'
      PROVE  Manager!Owns(d, f)'
  <2>1. \A e \in Dispatches \ {d} :
          WorkerOf[e] = WorkerOf[d] => Idle(e) /\ promise[e][f] = "none"
    BY <1>2, IdleBefore DEF Alone, HoldInv
  <2>2. Manager!Owns(d, f)
    BY <2>1 DEF Alone, HoldInv
  <2>3. \A e \in Dispatches \ {d} :
          WorkerOf[e] = WorkerOf[d] => ~ Manager!Release(e, f)
    BY <2>1 DEF Manager!Release
  <2>4. [Manager!Next]_(Manager!vars)
    BY StepsOfManager
  <2> QED BY <2>2, <2>3, <2>4, Manager!OwnershipStays
<1> QED BY <1>1, <1>2, NotedIsGranted DEF HoldInv

LEMMA HoldersHold == Spec => [](OwnTypes /\ Manager!IInv /\ HoldInv)
<1>1. Init => HoldInv
  BY DEF Init, HoldInv, Locks!Init, Manager!Owns
<1> QED BY <1>1, NextHoldInv, ManagerHolds, PTL DEF Spec

LEMMA HoldersExclude == OwnTypes /\ HoldInv => OneWriterPerFile
<1> SUFFICES ASSUME OwnTypes, HoldInv,
                    NEW c \in Dispatches, NEW d \in Dispatches, c # d,
                    Alone(c), Alone(d), NEW f \in acquired[c] \cap acquired[d]
             PROVE  <<c, f>> \in lapsed \/ <<d, f>> \in lapsed
  BY DEF OneWriterPerFile
<1>1. /\ f \in Files
      /\ promise[c][f] = "granted" /\ promise[d][f] = "granted"
      /\ Manager!Owns(c, f) /\ Manager!Owns(d, f)
  BY DEF OwnTypes, HoldInv
<1>2. WorkerOf[c] # WorkerOf[d]
  BY <1>1 DEF Alone, HoldInv
<1> QED BY <1>1, <1>2 DEF Manager!Owns

\* No two dispatches of different agents hold the lock of one file, unless a
\* lease has lapsed: of the dispatches' own actions and the lock manager's.
THEOREM WritersAreExclusive == Spec => []OneWriterPerFile
  BY HoldersHold, HoldersExclude, PTL

-----------------------------------------------------------------------------
(* Staged originals.                                                       *)

\* Until it commits or gives up, a dispatch holds the files it staged, and
\* with leases that are kept nothing lapses.
StageInv ==
  /\ \A d \in Dispatches :
       pc[d] \in AtWork \union {"thinking"} => staged[d] \subseteq acquired[d]
  /\ ~ overruns => lapsed = {}
  /\ OriginalsAreCurrent

LEMMA StagedStaysHeld ==
  ASSUME OwnTypes, StageInv, [Next]_vars,
         NEW d \in Dispatches, pc'[d] \in AtWork \union {"thinking"}
  PROVE  staged'[d] \subseteq acquired'[d]
<1> USE DEF OwnTypes, Goto, AtWork
<1>1. pc[d] \in AtWork \union {"thinking"} => staged[d] \subseteq acquired[d]
  BY DEF StageInv
<1>2. ASSUME NEW e \in Dispatches, NEW fs \in Suggestions, Parse(e, fs)
      PROVE  staged'[d] \subseteq acquired'[d]
  BY <1>1, <1>2 DEF Parse
<1>3. ASSUME NEW e \in Dispatches, StageFile(e)
      PROVE  staged'[d] \subseteq acquired'[d]
  BY <1>1, <1>3 DEF StageFile
<1>4. ASSUME NEW e \in Dispatches, Refused(e) \/ Fail(e) \/ Granted(e) \/ ReleaseLocks(e)
      PROVE  staged'[d] \subseteq acquired'[d]
  BY <1>1, <1>4 DEF Refused, Fail, Granted, ReleaseLocks
<1>5. ASSUME NEW e \in Dispatches, \/ Acquire(e) \/ Verify(e) \/ VerifyPasses(e)
                                   \/ VerifyFails(e) \/ Commit(e)
      PROVE  staged'[d] \subseteq acquired'[d]
  BY <1>1, <1>5 DEF Acquire, Verify, VerifyPasses, VerifyFails, Commit
<1>6. CASE UNCHANGED <<pc, staged, acquired>>
  BY <1>1, <1>6
<1> QED BY <1>2, <1>3, <1>4, <1>5, <1>6
        DEF Next, DispatchStep, vars, RequestTimer, LeaseTimer

LEMMA KeptLeasesStay ==
  ASSUME OwnTypes, StageInv, [Next]_vars
  PROVE  overruns' = overruns /\ (~ overruns => lapsed' = {})
<1>1. ~ overruns => lapsed = {}
  BY DEF StageInv
<1>2. ASSUME NEW d \in Dispatches, Acquire(d) \/ ReleaseLocks(d)
      PROVE  overruns' = overruns /\ (~ overruns => lapsed' = {})
  <2>1. overruns' = overruns
    BY <1>2 DEF Acquire, ReleaseLocks
  <2>2. \E f : lapsed' = lapsed \ {<<d, f>>}
    BY <1>2 DEF Acquire, ReleaseLocks, Locks!AcquireAgain, Locks!AcquireFree,
                Locks!AcquireQueued, Locks!Release, Locks!ReleaseLate
  <2> QED BY <1>1, <2>1, <2>2
<1>3. ASSUME NEW d \in Dispatches, NEW f \in Files, RequestTimer(d, f)
      PROVE  overruns' = overruns /\ (~ overruns => lapsed' = {})
  BY <1>1, <1>3 DEF RequestTimer, Locks!RequestTimesOut
<1>4. ASSUME NEW f \in Files, NEW w \in Workers, LeaseTimer(f, w)
      PROVE  overruns' = overruns /\ (~ overruns => lapsed' = {})
  BY <1>4 DEF LeaseTimer
<1>5. CASE UNCHANGED <<overruns, lapsed>>
  BY <1>1, <1>5
<1> QED BY <1>2, <1>3, <1>4, <1>5
        DEF Next, DispatchStep, vars, lockVars, Parse, Granted, Refused, StageFile,
            Verify, VerifyPasses, VerifyFails, Fail, Commit

\* A commit changes no file that another dispatch has staged.
LEMMA CommitsKeepToTheirFiles ==
  ASSUME OwnTypes, HoldInv, StageInv, ~ overruns,
         \A d \in Dispatches : Idle(d) \/ Alone(d),
         NEW e \in Dispatches, pc[e] = "committing",
         NEW d \in Dispatches, d # e, pc[d] \in AtWork,
         NEW f \in staged[d]
  PROVE  f \notin staged[e]
<1>1. Alone(d) /\ Alone(e)
  BY DEF Idle, AtWork
<1>2. OneWriterPerFile
  BY HoldersExclude
<1>3. f \notin acquired[d] \cap acquired[e]
  BY <1>1, <1>2 DEF OneWriterPerFile, StageInv
<1> QED BY <1>3 DEF StageInv, AtWork

LEMMA OriginalsStayCurrent ==
  ASSUME OwnTypes, HoldInv, StageInv, [Next]_vars,
         ~ overruns, \A d \in Dispatches : Idle(d) \/ Alone(d),
         NEW d \in Dispatches, pc'[d] \in AtWork, NEW f \in staged'[d]
  PROVE  original'[d][f] = disk'[f]
<1> USE DEF OwnTypes, Goto, AtWork
<1>1. pc[d] \in AtWork /\ f \in staged[d] => f \in Files /\ original[d][f] = disk[f]
  BY DEF StageInv, OriginalsAreCurrent
<1>2. ASSUME NEW e \in Dispatches, NEW fs \in Suggestions, Parse(e, fs)
      PROVE  original'[d][f] = disk'[f]
  BY <1>1, <1>2 DEF Parse
<1>3. ASSUME NEW e \in Dispatches, StageFile(e)
      PROVE  original'[d][f] = disk'[f]
  <2> DEFINE g == Head(todo[e])
  <2>1. /\ g \in Files
        /\ original' = [original EXCEPT ![e][g] = disk[g]]
        /\ staged' = [staged EXCEPT ![e] = staged[e] \union {g}]
        /\ disk' = disk /\ pc' = pc
    BY <1>3, HeadTailProperties DEF StageFile
  <2> HIDE DEF g
  <2>2. CASE d = e /\ f = g
    BY <2>1, <2>2
  <2>3. CASE ~(d = e /\ f = g)
    BY <1>1, <2>1, <2>3
  <2> QED BY <2>2, <2>3
<1>4. ASSUME NEW e \in Dispatches, Commit(e)
      PROVE  original'[d][f] = disk'[f]
  <2>1. /\ pc[e] = "committing" /\ pc' = [pc EXCEPT ![e] = "done"]
        /\ disk' = [g \in Files |-> IF g \in staged[e] THEN edits[e][g] ELSE disk[g]]
        /\ staged' = staged /\ original' = original
    BY <1>4 DEF Commit
  <2>2. d # e /\ pc[d] \in AtWork /\ f \in staged[d]
    BY <2>1
  <2>3. f \notin staged[e]
    BY <2>1, <2>2, CommitsKeepToTheirFiles
  <2> QED BY <1>1, <2>1, <2>2, <2>3
<1>5. ASSUME NEW e \in Dispatches, Refused(e) \/ Fail(e)
      PROVE  original'[d][f] = disk'[f]
  BY <1>1, <1>5 DEF Refused, Fail
<1>6. ASSUME NEW e \in Dispatches, \/ Acquire(e) \/ Granted(e) \/ Verify(e)
                                   \/ VerifyPasses(e) \/ VerifyFails(e)
                                   \/ ReleaseLocks(e)
      PROVE  original'[d][f] = disk'[f]
  BY <1>1, <1>6 DEF Acquire, Granted, Verify, VerifyPasses, VerifyFails, ReleaseLocks
<1>7. CASE UNCHANGED <<pc, staged, original, disk>>
  BY <1>1, <1>7
<1> QED BY <1>2, <1>3, <1>4, <1>5, <1>6, <1>7
        DEF Next, DispatchStep, vars, RequestTimer, LeaseTimer

LEMMA NextStageInv ==
  ASSUME OwnTypes, HoldInv, StageInv, [Next]_vars
  PROVE  StageInv'
<1>1. OriginalsAreCurrent'
  <2> SUFFICES ASSUME ~ overruns', (\A d \in Dispatches : Idle(d) \/ Alone(d))',
                      NEW d \in Dispatches, pc'[d] \in AtWork, NEW f \in staged'[d]
               PROVE  original'[d][f] = disk'[f]
    BY DEF OriginalsAreCurrent
  <2>1. ~ overruns
    BY KeptLeasesStay
  <2>2. \A c \in Dispatches : Idle(c) \/ Alone(c)
    BY IdleBefore DEF Alone
  <2> QED BY <2>1, <2>2, OriginalsStayCurrent
<1> QED BY <1>1, StagedStaysHeld, KeptLeasesStay DEF StageInv

\* From staging to the commit a staged file holds its original, while leases
\* are kept and no agent has two dispatches at work.
THEOREM OriginalsStay == Spec => []OriginalsAreCurrent
<1>1. Init => StageInv
  BY DEF Init, StageInv, OriginalsAreCurrent, Locks!Init, AtWork
<1>2. StageInv => OriginalsAreCurrent
  BY DEF StageInv
<1> QED BY <1>1, <1>2, NextStageInv, HoldersHold, PTL DEF Spec

=============================================================================
