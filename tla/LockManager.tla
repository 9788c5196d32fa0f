---------------------------- MODULE LockManager ----------------------------
(***************************************************************************)
(* The in-process file lock manager of @agency/workspace                   *)
(* (packages/workspace/src/lock-manager.ts).                               *)
(*                                                                         *)
(* A lock is owned by a worker id (the agent id of a dispatch), not by the *)
(* call that asked for it: several clients, here the dispatches of one     *)
(* orchestrator, may share a worker id.  JavaScript runs every method to   *)
(* completion, so a method is one action; a timer that was armed may fire  *)
(* at any later time, which includes every timeout value a caller passes.  *)
(***************************************************************************)
EXTENDS Naturals, Sequences, FiniteSets, SequencesExt

CONSTANTS
  Files,      \* the file paths that are locked (the keys of the three maps)
  Clients,    \* the callers of acquireLock; each awaits its call on a file
  Workers,    \* the worker ids
  WorkerOf,   \* the worker id each client passes
  Nobody,     \* locks has no entry for the file
  Timers,     \* the Timeout objects of a file's auto-release timers
  NoTimer     \* lockTimers has no entry for the file

ASSUME WorkerOfAssumption == WorkerOf \in [Clients -> Workers]
ASSUME NobodyAssumption   == Nobody \notin Workers
ASSUME TimersAssumption   == Timers # {} /\ NoTimer \notin Timers

VARIABLES
  locks,      \* locks[f]: the worker of the FileLock of f, or Nobody
  queues,     \* queues[f]: the queued requests, in arrival order
  lockTimers, \* lockTimers[f]: the Timeout the map has for f, or NoTimer
  armed,      \* armed[f]: the auto-release timers of f that are still to fire,
              \* whether the map knows them or not, each with its worker
  waitTimers, \* the queued requests whose timeout timer is armed
  promise,    \* promise[c][f]: what the latest acquireLock(f) told client c
  lapsed      \* history: grants the manager took back while c still holds them

vars == <<locks, queues, lockTimers, armed, waitTimers, promise, lapsed>>

Answers == {"none", "pending", "granted", "refused"}

Init ==
  /\ locks      = [f \in Files |-> Nobody]
  /\ queues     = [f \in Files |-> <<>>]
  /\ lockTimers = [f \in Files |-> NoTimer]
  /\ armed      = [f \in Files |-> {}]
  /\ waitTimers = {}
  /\ promise    = [c \in Clients |-> [f \in Files |-> "none"]]
  /\ lapsed     = {}

-----------------------------------------------------------------------------
(* The private helpers.                                                    *)

\* The timers of ts that clearLock leaves armed: it cancels the one that is
\* in the map.
ClearLock(f, ts) == {x \in ts : x[1] # lockTimers[f]}

\* setLock: the entries of both maps and a new auto-release timer.  It cancels
\* none: the timers of ts stay armed.
SetLock(f, w, ts) ==
  LET t == CHOOSE u \in Timers : \A x \in ts : x[1] # u IN
    /\ locks'      = [locks EXCEPT ![f] = w]
    /\ lockTimers' = [lockTimers EXCEPT ![f] = t]
    /\ armed'      = [armed EXCEPT ![f] = ts \union {<<t, w>>}]

\* Faulty variant: last in, first out.
NewestRequest(f) == queues[f][Len(queues[f])]

\* The request of a queue that processQueue grants.
NextRequest(f) == Head(queues[f])

\* Faulty variant: clearLock without processQueue.
ForgetQueue(f, p, ts) ==
  /\ locks'      = [locks EXCEPT ![f] = Nobody]
  /\ lockTimers' = [lockTimers EXCEPT ![f] = NoTimer]
  /\ armed'      = [armed EXCEPT ![f] = ClearLock(f, ts)]
  /\ promise'    = p
  /\ UNCHANGED <<queues, waitTimers>>

\* clearLock, then processQueue: the lock passes to the request at the head
\* of the queue, or to nobody.  p is the promises the caller has settled, ts
\* the timers that are armed when it is called.
ClearAndProcessQueue(f, p, ts) ==
  \/ /\ queues[f] = <<>>
     /\ locks'      = [locks EXCEPT ![f] = Nobody]
     /\ lockTimers' = [lockTimers EXCEPT ![f] = NoTimer]
     /\ armed'      = [armed EXCEPT ![f] = ClearLock(f, ts)]
     /\ promise'    = p
     /\ UNCHANGED <<queues, waitTimers>>
  \/ /\ queues[f] # <<>>
     /\ LET c == NextRequest(f) IN
          /\ SetLock(f, WorkerOf[c], ClearLock(f, ts))
          /\ queues'     = [queues EXCEPT ![f] = Tail(@)]
          /\ waitTimers' = waitTimers \ {<<c, f>>}
          /\ promise'    = [p EXCEPT ![c][f] = "granted"]

\* The grants a client of worker w believes it has on f.
HeldBy(w, f) ==
  {c \in Clients : WorkerOf[c] = w /\ promise[c][f] = "granted"} \X {f}

-----------------------------------------------------------------------------
(* acquireLock: one action for each of its three branches.  A client has   *)
(* one call at a time on a file.                                           *)

\* Faulty variant: setLock without the clearLock of refreshLockTimeout.
AcquireAgainUncleared(c, f) ==
  /\ promise[c][f] # "pending"
  /\ locks[f] = WorkerOf[c]
  /\ SetLock(f, WorkerOf[c], armed[f])
  /\ promise' = [promise EXCEPT ![c][f] = "granted"]
  /\ lapsed'  = lapsed \ {<<c, f>>}
  /\ UNCHANGED <<queues, waitTimers>>

\* The file is locked by the same worker: refreshLockTimeout, which is
\* clearLock and then setLock.
AcquireAgain(c, f) ==
  /\ promise[c][f] # "pending"
  /\ locks[f] = WorkerOf[c]
  /\ SetLock(f, WorkerOf[c], ClearLock(f, armed[f]))
  /\ promise' = [promise EXCEPT ![c][f] = "granted"]
  /\ lapsed'  = lapsed \ {<<c, f>>}
  /\ UNCHANGED <<queues, waitTimers>>

\* The file is not locked.
AcquireFree(c, f) ==
  /\ promise[c][f] # "pending"
  /\ locks[f] = Nobody
  /\ SetLock(f, WorkerOf[c], armed[f])
  /\ promise' = [promise EXCEPT ![c][f] = "granted"]
  /\ lapsed'  = lapsed \ {<<c, f>>}
  /\ UNCHANGED <<queues, waitTimers>>

\* Faulty variant: the request is queued and no timer is armed.
AcquireQueuedWithoutTimer(c, f) ==
  /\ promise[c][f] # "pending"
  /\ locks[f] \notin {Nobody, WorkerOf[c]}
  /\ queues'  = [queues EXCEPT ![f] = Append(@, c)]
  /\ promise' = [promise EXCEPT ![c][f] = "pending"]
  /\ lapsed'  = lapsed \ {<<c, f>>}
  /\ UNCHANGED <<locks, lockTimers, armed, waitTimers>>

\* Another worker has it: queue the request with a timeout timer.
AcquireQueued(c, f) ==
  /\ promise[c][f] # "pending"
  /\ locks[f] \notin {Nobody, WorkerOf[c]}
  /\ queues'     = [queues EXCEPT ![f] = Append(@, c)]
  /\ waitTimers' = waitTimers \union {<<c, f>>}
  /\ promise'    = [promise EXCEPT ![c][f] = "pending"]
  /\ lapsed'     = lapsed \ {<<c, f>>}
  /\ UNCHANGED <<locks, lockTimers, armed>>

\* Faulty variant: the timed-out request is refused and stays queued.
RequestTimesOutInPlace(c, f) ==
  /\ <<c, f>> \in waitTimers
  /\ waitTimers' = waitTimers \ {<<c, f>>}
  /\ promise'    = [promise EXCEPT ![c][f] = "refused"]
  /\ UNCHANGED <<locks, queues, lockTimers, armed, lapsed>>

\* The timeout timer of a queued request fires: it leaves the queue, refused.
RequestTimesOut(c, f) ==
  /\ <<c, f>> \in waitTimers
  /\ waitTimers' = waitTimers \ {<<c, f>>}
  /\ \E i \in 1 .. Len(queues[f]) :
       /\ queues[f][i] = c
       /\ queues' = [queues EXCEPT ![f] = RemoveAt(@, i)]
  /\ promise' = [promise EXCEPT ![c][f] = "refused"]
  /\ UNCHANGED <<locks, lockTimers, armed, lapsed>>

-----------------------------------------------------------------------------
(* releaseLock by a client that was granted the file, by the auto-release  *)
(* timer, and forceRelease.                                                *)

\* releaseLock(f, w) of a worker that holds f.
Release(c, f) ==
  /\ promise[c][f] = "granted"
  /\ locks[f] = WorkerOf[c]
  /\ ClearAndProcessQueue(f, [promise EXCEPT ![c][f] = "none"], armed[f])
  /\ lapsed' = lapsed \ {<<c, f>>}

\* Faulty variant: releaseLock without its check of the holder.
ReleaseUnchecked(c, f) ==
  /\ promise[c][f] = "granted"
  /\ locks[f] # WorkerOf[c]
  /\ ClearAndProcessQueue(f, [promise EXCEPT ![c][f] = "none"], armed[f])
  /\ lapsed' = lapsed \ {<<c, f>>}

\* releaseLock(f, w) when the lease has gone: the early return.
ReleaseLate(c, f) ==
  /\ promise[c][f] = "granted"
  /\ locks[f] # WorkerOf[c]
  /\ promise' = [promise EXCEPT ![c][f] = "none"]
  /\ lapsed'  = lapsed \ {<<c, f>>}
  /\ UNCHANGED <<locks, queues, lockTimers, armed, waitTimers>>

\* An auto-release timer of worker w fires: releaseLock(f, w), which returns
\* early when w does not hold f.
LeaseExpires(f, w) ==
  \E t \in Timers :
    /\ <<t, w>> \in armed[f]
    /\ LET left == armed[f] \ {<<t, w>>} IN
         IF locks[f] = w
         THEN /\ ClearAndProcessQueue(f, promise, left)
              /\ lapsed' = lapsed \union HeldBy(w, f)
         ELSE /\ armed' = [armed EXCEPT ![f] = left]
              /\ UNCHANGED <<locks, queues, lockTimers, waitTimers, promise, lapsed>>

\* forceRelease(f), whoever holds it.
ForceRelease(f) ==
  /\ ClearAndProcessQueue(f, promise, armed[f])
  /\ lapsed' = lapsed \union HeldBy(locks[f], f)

-----------------------------------------------------------------------------
Next ==
  \/ \E c \in Clients, f \in Files :
       \/ AcquireAgain(c, f)
       \/ AcquireFree(c, f)
       \/ AcquireQueued(c, f)
       \/ RequestTimesOut(c, f)
       \/ Release(c, f)
       \/ ReleaseLate(c, f)
  \/ \E f \in Files, w \in Workers : LeaseExpires(f, w)
  \/ \E f \in Files : ForceRelease(f)

Spec == Init /\ [][Next]_vars

\* A timeout timer is armed once for a request and is never pushed back: the
\* event loop runs it in the end.  Nothing else is owed: a client may keep a
\* file for ever, and refreshing its lease postpones the auto-release timer.
FairSpec == Spec /\ \A c \in Clients, f \in Files : WF_vars(RequestTimesOut(c, f))

-----------------------------------------------------------------------------
(* Properties.                                                             *)

\* Every variable has its type.
TypeOK ==
  /\ locks      \in [Files -> Workers \union {Nobody}]
  /\ queues     \in [Files -> Seq(Clients)]
  /\ lockTimers \in [Files -> Timers \union {NoTimer}]
  /\ armed      \in [Files -> SUBSET (Timers \X Workers)]
  /\ waitTimers \subseteq Clients \X Files
  /\ promise    \in [Clients -> [Files -> Answers]]
  /\ lapsed     \subseteq Clients \X Files

\* A request waits in the queue of its file exactly once, with its timeout
\* timer armed, for as long as its caller has no answer: a request that was
\* refused or granted is never granted again to a caller that has gone, and
\* no caller waits outside the queue.
PendingRequestsAreQueued ==
  /\ \A f \in Files :
       /\ ToSet(queues[f]) = {c \in Clients : promise[c][f] = "pending"}
       /\ IsInjective(queues[f])
  /\ \A c \in Clients, f \in Files :
       <<c, f>> \in waitTimers <=> promise[c][f] = "pending"

\* No lost wakeup: whichever way a lock was given up (release, expiry,
\* forced), a request never waits on a file that nobody holds.
NobodyWaitsForAFreeFile ==
  \A f \in Files : locks[f] = Nobody => queues[f] = <<>>

\* The only auto-release timer that will ever fire for a file is the one that
\* was armed by its present lease: no timer of an earlier lease, of the same
\* worker or of another, is left to end it early, clearLock always knows the
\* timer it has to cancel, and no holder is without one if it hangs.
LeaseTimerIsTheHolders ==
  \A f \in Files :
    armed[f] = IF locks[f] = Nobody THEN {} ELSE {<<lockTimers[f], locks[f]>>}

\* A client that was told it has the file, and whose lease neither expired
\* nor was taken by forceRelease, has it: no other client holds it as well.
\* (Checked and proved for clients with worker ids of their own.)
HoldersAreExclusive ==
  \A f \in Files, c \in Clients :
    /\ promise[c][f] = "granted"
    /\ <<c, f>> \notin lapsed
    => /\ locks[f] = WorkerOf[c]
       /\ \A d \in Clients \ {c} :
            promise[d][f] = "granted" => <<d, f>> \in lapsed

\* First come, first served: while requests wait, a grant goes to the one at
\* the head of the queue or back to the worker that holds the file.
GrantsAreFifo ==
  [][\A f \in Files, c \in Clients :
       /\ queues[f] # <<>>
       /\ promise[c][f] # "granted"
       /\ promise'[c][f] = "granted"
       => \/ c = Head(queues[f])
          \/ WorkerOf[c] = locks[f]]_vars

\* The lock service the manager implements.
Service == INSTANCE LockService WITH
  owner   <- locks,
  waiting <- [f \in Files |-> {c \in Clients : promise[c][f] = "pending"}]

\* Every step of the manager is a step of the abstract lock service, or
\* changes nothing the service shows.
ImplementsLockService == Service!SSpec

\* Every call of acquireLock is answered, even if the holder never lets go.
EveryRequestIsAnswered ==
  \A f \in Files, c \in Clients :
    promise[c][f] = "pending" ~> promise[c][f] # "pending"

=============================================================================
