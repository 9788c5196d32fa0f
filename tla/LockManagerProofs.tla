------------------------- MODULE LockManagerProofs -------------------------
(***************************************************************************)
(* Proofs about LockManager, for any number of files, clients and workers. *)
(***************************************************************************)
EXTENDS LockManager, SequenceTheorems, TLAPS

-----------------------------------------------------------------------------
(* Queues without repetitions.                                             *)

\* A queue without the element at one position keeps the others, in order.
LEMMA RemoveAtProperties ==
  ASSUME NEW S, NEW q \in Seq(S), NEW i \in 1 .. Len(q)
  PROVE  /\ RemoveAt(q, i) \in Seq(S)
         /\ Len(RemoveAt(q, i)) = Len(q) - 1
         /\ \A j \in 1 .. Len(q) - 1 :
              RemoveAt(q, i)[j] = IF j < i THEN q[j] ELSE q[j + 1]
<1> DEFINE front == SubSeq(q, 1, i - 1)
           back  == SubSeq(q, i + 1, Len(q))
<1>1. Len(q) \in Nat /\ \A k \in 1 .. Len(q) : q[k] \in S
  BY LenProperties, ElementOfSeq
<1>2. /\ front \in Seq(S)
      /\ Len(front) = i - 1
      /\ \A j \in 1 .. i - 1 : front[j] = q[j]
  BY <1>1, SubSeqProperties
<1>3. /\ back \in Seq(S)
      /\ Len(back) = Len(q) - i
      /\ \A j \in 1 .. Len(q) - i : back[j] = q[i + j]
  BY <1>1, SubSeqProperties
<1>4. /\ front \o back \in Seq(S)
      /\ Len(front \o back) = Len(q) - 1
      /\ \A j \in 1 .. Len(q) - 1 :
           (front \o back)[j] = IF j <= i - 1 THEN front[j] ELSE back[j - (i - 1)]
  <2> HIDE DEF front, back
  <2>1. Len(front) + Len(back) = Len(q) - 1
    BY <1>1, <1>2, <1>3
  <2>2. /\ front \o back \in Seq(S)
        /\ Len(front \o back) = Len(front) + Len(back)
        /\ \A j \in 1 .. Len(front) + Len(back) :
             (front \o back)[j] =
               IF j <= Len(front) THEN front[j] ELSE back[j - Len(front)]
    BY <1>2, <1>3, ConcatProperties
  <2> QED BY <1>2, <2>1, <2>2
<1>5. ASSUME NEW j \in 1 .. Len(q) - 1
      PROVE  (front \o back)[j] = IF j < i THEN q[j] ELSE q[j + 1]
  <2> HIDE DEF front, back
  <2>1. CASE j < i
    BY <1>1, <1>2, <1>4, <2>1
  <2>2. CASE ~(j < i)
    <3>1. j - (i - 1) \in 1 .. Len(q) - i
      BY <1>1, <2>2
    <3> QED BY <1>1, <1>3, <1>4, <2>2, <3>1
  <2> QED BY <2>1, <2>2
<1> QED BY <1>4, <1>5 DEF RemoveAt

\* The elements left in a queue without repetitions once one was taken out.
LEMMA RemoveAtElements ==
  ASSUME NEW S, NEW q \in Seq(S), NEW k \in 1 .. Len(q), IsInjective(q)
  PROVE  /\ ToSet(RemoveAt(q, k)) = ToSet(q) \ {q[k]}
         /\ IsInjective(RemoveAt(q, k))
<1> DEFINE r == RemoveAt(q, k)
<1>1. /\ Len(q) \in Nat
      /\ DOMAIN q = 1 .. Len(q)
      /\ r \in Seq(S)
      /\ Len(r) = Len(q) - 1
      /\ DOMAIN r = 1 .. Len(q) - 1
      /\ \A j \in 1 .. Len(q) - 1 : r[j] = IF j < k THEN q[j] ELSE q[j + 1]
  BY RemoveAtProperties, LenProperties
<1>2. \A i, j \in 1 .. Len(q) : q[i] = q[j] => i = j
  BY <1>1 DEF IsInjective
<1> HIDE DEF r
<1>3. ASSUME NEW i \in 1 .. Len(q) - 1, NEW j \in 1 .. Len(q) - 1, r[i] = r[j]
      PROVE  i = j
  BY <1>1, <1>2, <1>3, SMTT(30)
<1>4. ASSUME NEW j \in 1 .. Len(q) - 1
      PROVE  r[j] \in ToSet(q) \ {q[k]}
  <2>1. CASE j < k
    <3>1. r[j] = q[j] /\ j \in 1 .. Len(q) /\ j # k
      BY <1>1, <2>1
    <3> QED BY <1>1, <1>2, <3>1 DEF ToSet
  <2>2. CASE ~(j < k)
    <3>1. r[j] = q[j + 1] /\ j + 1 \in 1 .. Len(q) /\ j + 1 # k
      BY <1>1, <2>2
    <3> QED BY <1>1, <1>2, <3>1 DEF ToSet
  <2> QED BY <2>1, <2>2
<1>5. ASSUME NEW i \in 1 .. Len(q), i # k
      PROVE  \E j \in 1 .. Len(q) - 1 : r[j] = q[i]
  <2>1. CASE i < k
    BY <1>1, <2>1
  <2>2. CASE ~(i < k)
    <3>1. i - 1 \in 1 .. Len(q) - 1 /\ ~(i - 1 < k)
      BY <1>1, <1>5, <2>2
    <3>2. r[i - 1] = q[(i - 1) + 1] /\ (i - 1) + 1 = i
      BY <1>1, <3>1
    <3> QED BY <3>1, <3>2
  <2> QED BY <2>1, <2>2
<1>6. IsInjective(r)
  BY <1>1, <1>3 DEF IsInjective
<1>7. ToSet(r) = ToSet(q) \ {q[k]}
  <2>1. ASSUME NEW x \in ToSet(r) PROVE x \in ToSet(q) \ {q[k]}
    BY <1>1, <1>4, <2>1 DEF ToSet
  <2>2. ASSUME NEW x \in ToSet(q), x # q[k] PROVE x \in ToSet(r)
    <3>1. PICK i \in 1 .. Len(q) : q[i] = x /\ i # k
      BY <1>1, <2>2 DEF ToSet
    <3>2. PICK j \in 1 .. Len(q) - 1 : r[j] = q[i]
      BY <1>5, <3>1
    <3> QED BY <1>1, <3>1, <3>2 DEF ToSet
  <2> QED BY <2>1, <2>2
<1> QED BY <1>6, <1>7 DEF r

\* The same of the head of the queue.
LEMMA TailElements ==
  ASSUME NEW S, NEW q \in Seq(S), q # <<>>, IsInjective(q)
  PROVE  /\ Tail(q) \in Seq(S)
         /\ Head(q) \in S
         /\ ToSet(Tail(q)) = ToSet(q) \ {Head(q)}
         /\ IsInjective(Tail(q))
<1>1. /\ Len(q) \in Nat \ {0}
      /\ DOMAIN q = 1 .. Len(q)
      /\ Head(q) = q[1]
      /\ Head(q) \in S
      /\ Tail(q) \in Seq(S)
      /\ Len(Tail(q)) = Len(q) - 1
      /\ DOMAIN Tail(q) = 1 .. Len(q) - 1
      /\ \A j \in 1 .. Len(q) - 1 : Tail(q)[j] = q[j + 1]
  BY HeadTailProperties, LenProperties, EmptySeq
<1>2. \A i, j \in 1 .. Len(q) : q[i] = q[j] => i = j
  BY <1>1 DEF IsInjective
<1>3. IsInjective(Tail(q))
  BY <1>1, <1>2 DEF IsInjective
<1>4. ASSUME NEW i \in 1 .. Len(q), i # 1
      PROVE  \E j \in 1 .. Len(q) - 1 : Tail(q)[j] = q[i]
  <2>1. i - 1 \in 1 .. Len(q) - 1
    BY <1>1, <1>4
  <2>2. Tail(q)[i - 1] = q[(i - 1) + 1] /\ (i - 1) + 1 = i
    BY <1>1, <2>1
  <2> QED BY <2>1, <2>2
<1>5. ToSet(Tail(q)) = ToSet(q) \ {Head(q)}
  <2>1. ASSUME NEW x \in ToSet(Tail(q)) PROVE x \in ToSet(q) \ {Head(q)}
    <3>1. PICK j \in 1 .. Len(q) - 1 : Tail(q)[j] = x
      BY <1>1, <2>1 DEF ToSet
    <3>2. x = q[j + 1] /\ j + 1 \in 1 .. Len(q) /\ j + 1 # 1
      BY <1>1, <3>1
    <3> QED BY <1>1, <1>2, <3>2 DEF ToSet
  <2>2. ASSUME NEW x \in ToSet(q), x # Head(q) PROVE x \in ToSet(Tail(q))
    <3>1. PICK i \in 1 .. Len(q) : q[i] = x /\ i # 1
      BY <1>1, <2>2 DEF ToSet
    <3>2. PICK j \in 1 .. Len(q) - 1 : Tail(q)[j] = q[i]
      BY <1>4, <3>1
    <3> QED BY <1>1, <3>1, <3>2 DEF ToSet
  <2> QED BY <2>1, <2>2
<1> QED BY <1>1, <1>3, <1>5

\* The elements of a queue that one more joins.
LEMMA AppendElements ==
  ASSUME NEW S, NEW q \in Seq(S), NEW e \in S, IsInjective(q), e \notin ToSet(q)
  PROVE  /\ Append(q, e) \in Seq(S)
         /\ ToSet(Append(q, e)) = ToSet(q) \union {e}
         /\ IsInjective(Append(q, e))
<1>1. /\ Len(q) \in Nat
      /\ DOMAIN q = 1 .. Len(q)
      /\ Append(q, e) \in Seq(S)
      /\ DOMAIN Append(q, e) = 1 .. Len(q) + 1
      /\ \A i \in 1 .. Len(q) : Append(q, e)[i] = q[i]
      /\ Append(q, e)[Len(q) + 1] = e
  BY AppendProperties, LenProperties
<1>2. \A i \in 1 .. Len(q) : q[i] # e
  BY <1>1 DEF ToSet
<1>3. \A i, j \in 1 .. Len(q) : q[i] = q[j] => i = j
  BY <1>1 DEF IsInjective
<1>4. ASSUME NEW i \in 1 .. Len(q) + 1, NEW j \in 1 .. Len(q) + 1,
             Append(q, e)[i] = Append(q, e)[j]
      PROVE  i = j
  <2>1. CASE i \in 1 .. Len(q) /\ j \in 1 .. Len(q)
    BY <1>1, <1>3, <1>4, <2>1
  <2>2. CASE i = Len(q) + 1 \/ j = Len(q) + 1
    BY <1>1, <1>2, <1>4, <2>2
  <2> QED BY <1>1, <2>1, <2>2
<1>5. ToSet(Append(q, e)) = ToSet(q) \union {e}
  <2>1. ASSUME NEW x \in ToSet(Append(q, e)) PROVE x \in ToSet(q) \union {e}
    <3>1. PICK i \in 1 .. Len(q) + 1 : Append(q, e)[i] = x
      BY <1>1, <2>1 DEF ToSet
    <3>2. CASE i \in 1 .. Len(q)
      BY <1>1, <3>1, <3>2 DEF ToSet
    <3>3. CASE i = Len(q) + 1
      BY <1>1, <3>1, <3>3
    <3> QED BY <1>1, <3>2, <3>3
  <2>2. ASSUME NEW x \in ToSet(q) PROVE x \in ToSet(Append(q, e))
    BY <1>1, <2>2 DEF ToSet
  <2>3. e \in ToSet(Append(q, e))
    BY <1>1 DEF ToSet
  <2> QED BY <2>1, <2>2, <2>3
<1>6. IsInjective(Append(q, e))
  BY <1>1, <1>4 DEF IsInjective
<1> QED BY <1>1, <1>5, <1>6

USE WorkerOfAssumption, NobodyAssumption, TimersAssumption

-----------------------------------------------------------------------------
(* The inductive invariant.                                                *)

IInv ==
  /\ TypeOK
  /\ PendingRequestsAreQueued
  /\ NobodyWaitsForAFreeFile
  /\ LeaseTimerIsTheHolders

\* Steps that leave the queues alone and settle no queued request.
LEMMA QueuesUntouched ==
  ASSUME PendingRequestsAreQueued, UNCHANGED <<queues, waitTimers>>,
         \A c \in Clients, g \in Files :
           promise'[c][g] = "pending" <=> promise[c][g] = "pending"
  PROVE  PendingRequestsAreQueued'
<1>1. ASSUME NEW g \in Files
      PROVE  /\ ToSet(queues'[g]) = {c \in Clients : promise'[c][g] = "pending"}
             /\ IsInjective(queues'[g])
  BY DEF PendingRequestsAreQueued
<1>2. ASSUME NEW c \in Clients, NEW g \in Files
      PROVE  <<c, g>> \in waitTimers' <=> promise'[c][g] = "pending"
  BY DEF PendingRequestsAreQueued
<1> QED BY <1>1, <1>2 DEF PendingRequestsAreQueued

\* clearLock knows the only timer of a file, and cancels it.
LEMMA ClearLockCancels ==
  ASSUME LeaseTimerIsTheHolders, NEW f \in Files
  PROVE  ClearLock(f, armed[f]) = {}
<1>1. ASSUME NEW x \in armed[f]
      PROVE  x[1] = lockTimers[f]
  <2>1. x = <<lockTimers[f], locks[f]>>
    BY DEF LeaseTimerIsTheHolders
  <2> QED BY <2>1
<1> QED BY <1>1 DEF ClearLock

\* A timer that fires is the one of the present lease, and was the only one.
LEMMA FiringTimer ==
  ASSUME LeaseTimerIsTheHolders, NEW f \in Files, NEW w \in Workers,
         NEW t, <<t, w>> \in armed[f]
  PROVE  /\ locks[f] = w
         /\ ClearLock(f, armed[f] \ {<<t, w>>}) = {}
<1>1. armed[f] = IF locks[f] = Nobody THEN {} ELSE {<<lockTimers[f], locks[f]>>}
  BY DEF LeaseTimerIsTheHolders
<1>2. locks[f] = w /\ armed[f] \ {<<t, w>>} = {}
  BY <1>1
<1> QED BY <1>2 DEF ClearLock

\* The expiry of a lease hands the file over.
LEMMA ExpiryHandsOver ==
  ASSUME LeaseTimerIsTheHolders, NEW f \in Files, NEW w \in Workers, LeaseExpires(f, w)
  PROVE  \E ts : /\ ClearLock(f, ts) = {}
                 /\ locks[f] = w
                 /\ ClearAndProcessQueue(f, promise, ts)
                 /\ lapsed' = lapsed \union HeldBy(w, f)
<1>1. PICK t \in Timers :
        /\ <<t, w>> \in armed[f]
        /\ locks[f] = w => /\ ClearAndProcessQueue(f, promise, armed[f] \ {<<t, w>>})
                           /\ lapsed' = lapsed \union HeldBy(w, f)
  BY DEF LeaseExpires
<1>2. locks[f] = w /\ ClearLock(f, armed[f] \ {<<t, w>>}) = {}
  BY <1>1, FiringTimer
<1> QED BY <1>1, <1>2

\* setLock on a file without armed timers starts a lease with one.
LEMMA NewLease ==
  ASSUME TypeOK, LeaseTimerIsTheHolders, NEW f \in Files, NEW w \in Workers,
         SetLock(f, w, {})
  PROVE  /\ locks' = [locks EXCEPT ![f] = w]
         /\ locks' \in [Files -> Workers \union {Nobody}]
         /\ lockTimers' \in [Files -> Timers \union {NoTimer}]
         /\ armed' \in [Files -> SUBSET (Timers \X Workers)]
         /\ LeaseTimerIsTheHolders'
<1> DEFINE t == CHOOSE u \in Timers : \A x \in {} : x[1] # u
<1>1. t \in Timers
  <2>1. \E u \in Timers : \A x \in {} : x[1] # u
    OBVIOUS
  <2> QED BY <2>1
<1>2. /\ locks'      = [locks EXCEPT ![f] = w]
      /\ lockTimers' = [lockTimers EXCEPT ![f] = t]
      /\ armed'      = [armed EXCEPT ![f] = {<<t, w>>}]
  <2>1. {} \union {<<t, w>>} = {<<t, w>>}
    OBVIOUS
  <2> QED BY <2>1 DEF SetLock
<1> HIDE DEF t
<1>3. /\ locks' \in [Files -> Workers \union {Nobody}]
      /\ lockTimers' \in [Files -> Timers \union {NoTimer}]
      /\ armed' \in [Files -> SUBSET (Timers \X Workers)]
  BY <1>1, <1>2 DEF TypeOK
<1>4. ASSUME NEW g \in Files
      PROVE  armed'[g] = IF locks'[g] = Nobody THEN {} ELSE {<<lockTimers'[g], locks'[g]>>}
  <2>1. CASE g = f
    BY <1>1, <1>2, <2>1 DEF TypeOK
  <2>2. CASE g # f
    BY <1>2, <2>2 DEF TypeOK, LeaseTimerIsTheHolders
  <2> QED BY <2>1, <2>2
<1> QED BY <1>2, <1>3, <1>4 DEF LeaseTimerIsTheHolders

\* Handing a lock over (or freeing it) keeps the invariant, whatever promises
\* the caller settles on the way, as long as it settles no queued one.
LEMMA HandoverKeepsIInv ==
  ASSUME IInv, NEW f \in Files, NEW p \in [Clients -> [Files -> Answers]],
         \A c \in Clients, g \in Files :
           p[c][g] = "pending" <=> promise[c][g] = "pending",
         NEW ts, ClearLock(f, ts) = {}, ClearAndProcessQueue(f, p, ts),
         lapsed' \subseteq Clients \X Files
  PROVE  IInv'
<1> USE DEF IInv
<1>1. CASE /\ queues[f] = <<>>
           /\ locks'      = [locks EXCEPT ![f] = Nobody]
           /\ lockTimers' = [lockTimers EXCEPT ![f] = NoTimer]
           /\ armed'      = [armed EXCEPT ![f] = {}]
           /\ promise'    = p
           /\ UNCHANGED <<queues, waitTimers>>
  <2>1. TypeOK'
    BY <1>1 DEF TypeOK
  <2>2. PendingRequestsAreQueued'
    BY <1>1, QueuesUntouched
  <2>3. NobodyWaitsForAFreeFile'
    BY <1>1 DEF NobodyWaitsForAFreeFile, TypeOK
  <2>4. LeaseTimerIsTheHolders'
    BY <1>1 DEF LeaseTimerIsTheHolders, TypeOK
  <2> QED BY <2>1, <2>2, <2>3, <2>4
<1>2. ASSUME queues[f] # <<>>, NEW c, c = NextRequest(f),
             SetLock(f, WorkerOf[c], {}),
             queues'     = [queues EXCEPT ![f] = Tail(@)],
             waitTimers' = waitTimers \ {<<c, f>>},
             promise'    = [p EXCEPT ![c][f] = "granted"]
      PROVE  IInv'
  <2>1. IsInjective(queues[f])
    BY DEF PendingRequestsAreQueued
  <2>2. /\ c \in Clients
        /\ WorkerOf[c] \in Workers
        /\ Tail(queues[f]) \in Seq(Clients)
        /\ ToSet(Tail(queues[f])) = ToSet(queues[f]) \ {c}
        /\ IsInjective(Tail(queues[f]))
    BY <1>2, <2>1, TailElements DEF TypeOK, NextRequest
  <2>3. TypeOK'
    <3>1. /\ locks'      \in [Files -> Workers \union {Nobody}]
          /\ lockTimers' \in [Files -> Timers \union {NoTimer}]
          /\ armed'      \in [Files -> SUBSET (Timers \X Workers)]
      BY <1>2, <2>2, NewLease
    <3>2. queues' \in [Files -> Seq(Clients)]
      BY <1>2, <2>2 DEF TypeOK
    <3>3. promise' \in [Clients -> [Files -> Answers]]
      BY <1>2, <2>2 DEF Answers
    <3> QED BY <1>2, <3>1, <3>2, <3>3 DEF TypeOK
  <2>4. ASSUME NEW d \in Clients, NEW g \in Files
        PROVE  promise'[d][g] =
                 IF d = c /\ g = f THEN "granted" ELSE p[d][g]
    BY <1>2, <2>2
  <2>5. PendingRequestsAreQueued'
    <3>1. ASSUME NEW g \in Files
          PROVE  /\ ToSet(queues'[g]) = {d \in Clients : promise'[d][g] = "pending"}
                 /\ IsInjective(queues'[g])
      <4>1. /\ ToSet(queues[g]) = {d \in Clients : promise[d][g] = "pending"}
            /\ IsInjective(queues[g])
        BY DEF PendingRequestsAreQueued
      <4>2. CASE g # f
        <5>1. queues'[g] = queues[g]
          BY <1>2, <4>2 DEF TypeOK
        <5> QED BY <2>4, <4>1, <4>2, <5>1
      <4>3. CASE g = f
        <5>1. queues'[f] = Tail(queues[f])
          BY <1>2 DEF TypeOK
        <5> QED BY <2>2, <2>4, <4>1, <4>3, <5>1
      <4> QED BY <4>2, <4>3
    <3>2. ASSUME NEW d \in Clients, NEW g \in Files
          PROVE  <<d, g>> \in waitTimers' <=> promise'[d][g] = "pending"
      BY <1>2, <2>2, <2>4, ZenonT(30) DEF PendingRequestsAreQueued
    <3> QED BY <3>1, <3>2 DEF PendingRequestsAreQueued
  <2>6. NobodyWaitsForAFreeFile'
    BY <1>2, <2>2, NewLease DEF NobodyWaitsForAFreeFile, TypeOK
  <2>7. LeaseTimerIsTheHolders'
    BY <1>2, <2>2, NewLease
  <2> QED BY <2>3, <2>5, <2>6, <2>7
<1> QED BY <1>1, <1>2 DEF ClearAndProcessQueue

\* Every step of the manager keeps the invariant.
LEMMA NextKeepsIInv == IInv /\ [Next]_vars => IInv'
<1> SUFFICES ASSUME IInv, [Next]_vars PROVE IInv'
  OBVIOUS
<1> USE DEF IInv
<1>1. ASSUME NEW c \in Clients, NEW f \in Files, AcquireAgain(c, f) \/ AcquireFree(c, f)
      PROVE  IInv'
  <2>1. SetLock(f, WorkerOf[c], {})
    <3>1. CASE AcquireAgain(c, f)
      BY <3>1, ClearLockCancels DEF AcquireAgain
    <3>2. CASE AcquireFree(c, f)
      BY <3>2 DEF AcquireFree, LeaseTimerIsTheHolders
    <3> QED BY <1>1, <3>1, <3>2
  <2>2. /\ locks' = [locks EXCEPT ![f] = WorkerOf[c]]
        /\ locks' \in [Files -> Workers \union {Nobody}]
        /\ lockTimers' \in [Files -> Timers \union {NoTimer}]
        /\ armed' \in [Files -> SUBSET (Timers \X Workers)]
        /\ LeaseTimerIsTheHolders'
    BY <2>1, NewLease
  <2>3. /\ promise[c][f] # "pending"
        /\ promise' = [promise EXCEPT ![c][f] = "granted"]
        /\ lapsed'  = lapsed \ {<<c, f>>}
        /\ UNCHANGED <<queues, waitTimers>>
    BY <1>1 DEF AcquireAgain, AcquireFree
  <2>4. TypeOK'
    BY <2>2, <2>3 DEF TypeOK, Answers
  <2>5. PendingRequestsAreQueued'
    BY <2>3, QueuesUntouched DEF TypeOK
  <2>6. NobodyWaitsForAFreeFile'
    BY <2>2, <2>3 DEF NobodyWaitsForAFreeFile, TypeOK
  <2> QED BY <2>2, <2>4, <2>5, <2>6
<1>2. ASSUME NEW c \in Clients, NEW f \in Files, AcquireQueued(c, f)
      PROVE  IInv'
  <2>1. /\ ToSet(queues[f]) = {d \in Clients : promise[d][f] = "pending"}
        /\ IsInjective(queues[f])
        /\ c \notin ToSet(queues[f])
    BY <1>2 DEF AcquireQueued, PendingRequestsAreQueued
  <2>2. /\ Append(queues[f], c) \in Seq(Clients)
        /\ ToSet(Append(queues[f], c)) = ToSet(queues[f]) \union {c}
        /\ IsInjective(Append(queues[f], c))
    BY <2>1, AppendElements DEF TypeOK
  <2>3. TypeOK'
    BY <1>2, <2>2 DEF TypeOK, AcquireQueued, Answers
  <2>4. ASSUME NEW d \in Clients, NEW g \in Files
        PROVE  promise'[d][g] =
                 IF d = c /\ g = f THEN "pending" ELSE promise[d][g]
    BY <1>2 DEF AcquireQueued, TypeOK
  <2>5. PendingRequestsAreQueued'
    <3>1. ASSUME NEW g \in Files
          PROVE  /\ ToSet(queues'[g]) = {d \in Clients : promise'[d][g] = "pending"}
                 /\ IsInjective(queues'[g])
      <4>1. CASE g # f
        BY <1>2, <2>4, <4>1 DEF AcquireQueued, PendingRequestsAreQueued, TypeOK
      <4>2. CASE g = f
        <5>1. queues'[f] = Append(queues[f], c)
          BY <1>2 DEF AcquireQueued, TypeOK
        <5> QED BY <2>1, <2>2, <2>4, <4>2, <5>1
      <4> QED BY <4>1, <4>2
    <3>2. ASSUME NEW d \in Clients, NEW g \in Files
          PROVE  <<d, g>> \in waitTimers' <=> promise'[d][g] = "pending"
      BY <1>2, <2>4 DEF AcquireQueued, PendingRequestsAreQueued
    <3> QED BY <3>1, <3>2 DEF PendingRequestsAreQueued
  <2>6. NobodyWaitsForAFreeFile'
    BY <1>2 DEF NobodyWaitsForAFreeFile, TypeOK, AcquireQueued
  <2>7. LeaseTimerIsTheHolders'
    BY <1>2 DEF LeaseTimerIsTheHolders, AcquireQueued
  <2> QED BY <2>3, <2>5, <2>6, <2>7
<1>3. ASSUME NEW c \in Clients, NEW f \in Files, RequestTimesOut(c, f)
      PROVE  IInv'
  <2>1. PICK k \in 1 .. Len(queues[f]) :
          /\ queues[f][k] = c
          /\ queues' = [queues EXCEPT ![f] = RemoveAt(@, k)]
    BY <1>3 DEF RequestTimesOut
  <2>2. /\ RemoveAt(queues[f], k) \in Seq(Clients)
        /\ ToSet(RemoveAt(queues[f], k)) = ToSet(queues[f]) \ {c}
        /\ IsInjective(RemoveAt(queues[f], k))
    BY <2>1, RemoveAtProperties, RemoveAtElements
       DEF TypeOK, PendingRequestsAreQueued
  <2>3. TypeOK'
    BY <1>3, <2>1, <2>2 DEF TypeOK, RequestTimesOut, Answers
  <2>4. PendingRequestsAreQueued'
    <3>1. ASSUME NEW d \in Clients, NEW g \in Files
          PROVE  promise'[d][g] =
                   IF d = c /\ g = f THEN "refused" ELSE promise[d][g]
      BY <1>3 DEF RequestTimesOut, TypeOK
    <3>2. ASSUME NEW g \in Files
          PROVE  /\ ToSet(queues'[g]) = {d \in Clients : promise'[d][g] = "pending"}
                 /\ IsInjective(queues'[g])
      <4>1. CASE g # f
        BY <2>1, <3>1, <4>1 DEF PendingRequestsAreQueued, TypeOK
      <4>2. CASE g = f
        <5>1. queues'[f] = RemoveAt(queues[f], k)
          BY <2>1 DEF TypeOK
        <5> QED BY <2>2, <3>1, <4>2, <5>1 DEF PendingRequestsAreQueued
      <4> QED BY <4>1, <4>2
    <3>3. ASSUME NEW d \in Clients, NEW g \in Files
          PROVE  <<d, g>> \in waitTimers' <=> promise'[d][g] = "pending"
      BY <1>3, <3>1 DEF RequestTimesOut, PendingRequestsAreQueued
    <3> QED BY <3>2, <3>3 DEF PendingRequestsAreQueued
  <2>5. NobodyWaitsForAFreeFile'
    <3>1. queues[f] # <<>>
      BY <2>1
    <3> QED BY <1>3, <2>1, <3>1 DEF NobodyWaitsForAFreeFile, RequestTimesOut, TypeOK
  <2>6. LeaseTimerIsTheHolders'
    BY <1>3 DEF LeaseTimerIsTheHolders, RequestTimesOut
  <2> QED BY <2>3, <2>4, <2>5, <2>6
<1>4. ASSUME NEW c \in Clients, NEW f \in Files, Release(c, f)
      PROVE  IInv'
  <2>1. [promise EXCEPT ![c][f] = "none"] \in [Clients -> [Files -> Answers]]
    BY DEF TypeOK, Answers
  <2>2. \A d \in Clients, g \in Files :
          [promise EXCEPT ![c][f] = "none"][d][g] = "pending" <=>
            promise[d][g] = "pending"
    BY <1>4 DEF Release, TypeOK
  <2>3. lapsed' \subseteq Clients \X Files
    BY <1>4 DEF Release, TypeOK
  <2>4. ClearAndProcessQueue(f, [promise EXCEPT ![c][f] = "none"], armed[f])
    BY <1>4 DEF Release
  <2>5. ClearLock(f, armed[f]) = {}
    BY ClearLockCancels
  <2> QED BY ONLY IInv, <2>1, <2>2, <2>3, <2>4, <2>5, HandoverKeepsIInv
<1>5. ASSUME NEW c \in Clients, NEW f \in Files, ReleaseLate(c, f)
      PROVE  IInv'
  <2>1. TypeOK'
    BY <1>5 DEF TypeOK, ReleaseLate, Answers
  <2>2. PendingRequestsAreQueued'
    BY <1>5, QueuesUntouched DEF TypeOK, ReleaseLate
  <2>3. NobodyWaitsForAFreeFile' /\ LeaseTimerIsTheHolders'
    BY <1>5 DEF NobodyWaitsForAFreeFile, LeaseTimerIsTheHolders, ReleaseLate
  <2> QED BY <2>1, <2>2, <2>3
<1>6. ASSUME NEW f \in Files, NEW w \in Workers, LeaseExpires(f, w)
      PROVE  IInv'
  <2>1. PICK ts : /\ ClearLock(f, ts) = {}
                  /\ ClearAndProcessQueue(f, promise, ts)
                  /\ lapsed' = lapsed \union HeldBy(w, f)
    BY <1>6, ExpiryHandsOver
  <2>2. lapsed' \subseteq Clients \X Files
    BY <2>1 DEF HeldBy, TypeOK
  <2> QED BY <2>1, <2>2, HandoverKeepsIInv DEF TypeOK
<1>7. ASSUME NEW f \in Files, ForceRelease(f)
      PROVE  IInv'
  <2>1. lapsed' \subseteq Clients \X Files
    BY <1>7 DEF ForceRelease, HeldBy, TypeOK
  <2>2. ClearLock(f, armed[f]) = {}
    BY ClearLockCancels
  <2> QED BY <1>7, <2>1, <2>2, HandoverKeepsIInv DEF ForceRelease, TypeOK
<1>8. CASE UNCHANGED vars
  BY <1>8 DEF vars, TypeOK, PendingRequestsAreQueued, NobodyWaitsForAFreeFile,
              LeaseTimerIsTheHolders
<1> QED
  BY <1>1, <1>2, <1>3, <1>4, <1>5, <1>6, <1>7, <1>8 DEF Next

\* The invariant holds in every state.
LEMMA Invariance == Spec => []IInv
<1>1. Init => IInv
  <2> SUFFICES ASSUME Init PROVE IInv
    OBVIOUS
  <2>1. TypeOK
    BY EmptySeq DEF Init, TypeOK, Answers
  <2>2. PendingRequestsAreQueued
    <3>1. ASSUME NEW f \in Files
          PROVE  /\ ToSet(queues[f]) = {}
                 /\ IsInjective(queues[f])
      <4>1. queues[f] = <<>> /\ DOMAIN queues[f] = {}
        BY EmptySeq DEF Init
      <4> QED BY <4>1 DEF ToSet, IsInjective
    <3>2. \A c \in Clients, f \in Files : promise[c][f] # "pending"
      BY DEF Init
    <3> QED BY <3>1, <3>2 DEF Init, PendingRequestsAreQueued
  <2>3. NobodyWaitsForAFreeFile /\ LeaseTimerIsTheHolders
    BY DEF Init, NobodyWaitsForAFreeFile, LeaseTimerIsTheHolders
  <2> QED BY <2>1, <2>2, <2>3 DEF IInv
<1> QED BY <1>1, NextKeepsIInv, PTL DEF Spec

-----------------------------------------------------------------------------
(* The theorems.                                                           *)

\* Type correctness of the lock manager.
THEOREM TypeCorrect == Spec => []TypeOK
BY Invariance, PTL DEF IInv

\* A pending request is queued exactly once, with its timer armed, and only
\* pending requests are queued.
THEOREM QueuesHoldThePendingRequests == Spec => []PendingRequestsAreQueued
BY Invariance, PTL DEF IInv

\* No wakeup is lost: nobody waits for a file that is free.
THEOREM NoLostWakeup == Spec => []NobodyWaitsForAFreeFile
BY Invariance, PTL DEF IInv

\* The only auto-release timer a file has is the one of its present lease.
THEOREM LeaseTimers == Spec => []LeaseTimerIsTheHolders
BY Invariance, PTL DEF IInv

\* A client owns its file, rather than only believing that it does, unless
\* its lease lapsed or a client of the same worker id releases the file.
Owns(c, f) ==
  promise[c][f] = "granted" /\ <<c, f>> \notin lapsed => locks[f] = WorkerOf[c]

LEMMA OwnershipStays ==
  ASSUME IInv, [Next]_vars, NEW c \in Clients, NEW f \in Files, Owns(c, f),
         \A d \in Clients \ {c} : WorkerOf[d] = WorkerOf[c] => ~ Release(d, f)
  PROVE  Owns(c, f)'
<1> SUFFICES ASSUME promise'[c][f] = "granted", <<c, f>> \notin lapsed'
             PROVE  locks'[f] = WorkerOf[c]
  BY DEF Owns
<1> USE DEF IInv, Owns
\* A handover of g that leaves c no unlapsed grant of it.
<1>1. ASSUME NEW g \in Files, NEW p \in [Clients -> [Files -> Answers]],
             NEW ts, ClearAndProcessQueue(g, p, ts),
             \A d \in Clients, h \in Files :
               p[d][h] = "granted" => promise[d][h] = "granted",
             g = f /\ p[c][f] = "granted" => <<c, f>> \in lapsed',
             g # f => (<<c, f>> \in lapsed' <=> <<c, f>> \in lapsed)
      PROVE  locks'[f] = WorkerOf[c]
  <2>1. CASE queues[g] = <<>>
    <3>1. /\ locks' = [locks EXCEPT ![g] = Nobody]
          /\ promise' = p
      BY <1>1, <2>1 DEF ClearAndProcessQueue
    <3>2. g # f
      BY <1>1, <3>1
    <3>3. promise[c][f] = "granted" /\ <<c, f>> \notin lapsed
      BY <1>1, <3>1, <3>2
    <3> QED BY <3>1, <3>2, <3>3 DEF TypeOK
  <2>2. CASE queues[g] # <<>>
    <3> DEFINE e == NextRequest(g)
    <3>1. e \in Clients
      <4>1. queues[g] \in Seq(Clients)
        BY DEF TypeOK
      <4> QED BY <2>2, <4>1, HeadTailProperties DEF NextRequest
    <3>2. /\ locks' = [locks EXCEPT ![g] = WorkerOf[e]]
          /\ promise' = [p EXCEPT ![e][g] = "granted"]
      BY <1>1, <2>2 DEF ClearAndProcessQueue, SetLock
    <3> HIDE DEF e
    <3>3. CASE g = f
      BY <1>1, <3>1, <3>2, <3>3 DEF TypeOK
    <3>4. CASE g # f
      BY <1>1, <3>1, <3>2, <3>4 DEF TypeOK
    <3> QED BY <3>3, <3>4
  <2> QED BY <2>1, <2>2
<1>2. ASSUME NEW d \in Clients, NEW g \in Files, AcquireAgain(d, g)
      PROVE  locks'[f] = WorkerOf[c]
  BY <1>2 DEF AcquireAgain, SetLock, TypeOK
<1>3. ASSUME NEW d \in Clients, NEW g \in Files, AcquireFree(d, g)
      PROVE  locks'[f] = WorkerOf[c]
  BY <1>3 DEF AcquireFree, SetLock, TypeOK
<1>4. ASSUME NEW d \in Clients, NEW g \in Files, AcquireQueued(d, g)
      PROVE  locks'[f] = WorkerOf[c]
  BY <1>4 DEF AcquireQueued, TypeOK
<1>5. ASSUME NEW d \in Clients, NEW g \in Files, RequestTimesOut(d, g)
      PROVE  locks'[f] = WorkerOf[c]
  BY <1>5 DEF RequestTimesOut, TypeOK
<1>6. ASSUME NEW d \in Clients, NEW g \in Files, Release(d, g)
      PROVE  locks'[f] = WorkerOf[c]
  <2> DEFINE p == [promise EXCEPT ![d][g] = "none"]
  <2>1. p \in [Clients -> [Files -> Answers]]
    BY DEF TypeOK, Answers
  <2>2. \A b \in Clients, h \in Files :
          p[b][h] = "granted" => promise[b][h] = "granted" /\ <<b, h>> # <<d, g>>
    BY DEF TypeOK
  <2>3. g = f /\ p[c][f] = "granted" => <<c, f>> \in lapsed'
    BY <1>6, <2>2 DEF Release
  <2>4. ClearAndProcessQueue(g, p, armed[g])
    BY <1>6 DEF Release
  <2>5. g # f => (<<c, f>> \in lapsed' <=> <<c, f>> \in lapsed)
    BY <1>6 DEF Release
  <2>6. \A b \in Clients, h \in Files :
          p[b][h] = "granted" => promise[b][h] = "granted"
    BY <2>2
  <2> HIDE DEF p
  <2> QED BY ONLY IInv, <1>1, <2>1, <2>3, <2>4, <2>5, <2>6
<1>7. ASSUME NEW d \in Clients, NEW g \in Files, ReleaseLate(d, g)
      PROVE  locks'[f] = WorkerOf[c]
  BY <1>7 DEF ReleaseLate, TypeOK
<1>8. ASSUME NEW g \in Files, NEW w \in Workers, LeaseExpires(g, w)
      PROVE  locks'[f] = WorkerOf[c]
  <2>1. PICK ts : /\ locks[g] = w
                  /\ ClearAndProcessQueue(g, promise, ts)
                  /\ lapsed' = lapsed \union HeldBy(w, g)
    BY <1>8, ExpiryHandsOver
  <2>2. g = f /\ promise[c][f] = "granted" => <<c, f>> \in lapsed'
    BY <2>1 DEF HeldBy
  <2>3. g # f => (<<c, f>> \in lapsed' <=> <<c, f>> \in lapsed)
    BY <2>1 DEF HeldBy
  <2> QED BY <1>1, <2>1, <2>2, <2>3 DEF TypeOK
<1>9. ASSUME NEW g \in Files, ForceRelease(g)
      PROVE  locks'[f] = WorkerOf[c]
  BY <1>1, <1>9 DEF ForceRelease, HeldBy, TypeOK
<1>10. CASE UNCHANGED vars
  BY <1>10 DEF vars
<1> QED BY <1>2, <1>3, <1>4, <1>5, <1>6, <1>7, <1>8, <1>9, <1>10 DEF Next

\* When no two clients share a worker id, a client with a lease that has not
\* lapsed holds its file alone.
THEOREM MutualExclusion ==
  ASSUME \A c, d \in Clients : WorkerOf[c] = WorkerOf[d] => c = d
  PROVE  Spec => []HoldersAreExclusive
<1> DEFINE AllOwn == \A f \in Files, c \in Clients : Owns(c, f)
<1>1. Init => AllOwn
  BY DEF Init, Owns
<1>2. IInv /\ AllOwn /\ [Next]_vars => AllOwn'
  BY OwnershipStays
<1>3. IInv /\ AllOwn => HoldersAreExclusive
  BY DEF HoldersAreExclusive, Owns
<1> QED BY <1>1, <1>2, <1>3, Invariance, PTL DEF Spec

-----------------------------------------------------------------------------
(* The order of grants, and the abstract lock service.                     *)

Waiting(f) == {c \in Clients : promise[c][f] = "pending"}

\* A handover of f frees the file, for which nobody waits, or grants it to the
\* head of its queue.
Handover(f, p) ==
  \/ /\ Waiting(f) = {}
     /\ locks' = [locks EXCEPT ![f] = Nobody]
     /\ promise' = p
  \/ \E c \in Waiting(f) :
       /\ c = Head(queues[f])
       /\ locks' = [locks EXCEPT ![f] = WorkerOf[c]]
       /\ promise' = [p EXCEPT ![c][f] = "granted"]

LEMMA HandoverGrants ==
  ASSUME IInv, NEW f \in Files, NEW p \in [Clients -> [Files -> Answers]],
         NEW ts, ClearAndProcessQueue(f, p, ts)
  PROVE  Handover(f, p)
<1> USE DEF IInv
<1>1. CASE queues[f] = <<>>
  <2>1. Waiting(f) = {}
    <3>1. ToSet(queues[f]) = {}
      BY <1>1, EmptySeq DEF ToSet
    <3> QED BY <3>1 DEF PendingRequestsAreQueued, Waiting
  <2> QED BY <1>1, <2>1 DEF ClearAndProcessQueue, Handover
<1>2. CASE queues[f] # <<>>
  <2> DEFINE c == Head(queues[f])
  <2>1. c \in Waiting(f)
    <3>1. queues[f] \in Seq(Clients)
      BY DEF TypeOK
    <3>2. c = queues[f][1] /\ 1 \in DOMAIN queues[f]
      BY <1>2, <3>1, HeadTailProperties, EmptySeq, LenProperties
    <3>3. c \in ToSet(queues[f])
      BY <3>2 DEF ToSet
    <3> QED BY <3>3 DEF PendingRequestsAreQueued, Waiting
  <2>2. /\ locks' = [locks EXCEPT ![f] = WorkerOf[c]]
        /\ promise' = [p EXCEPT ![c][f] = "granted"]
    BY <1>2 DEF ClearAndProcessQueue, SetLock, NextRequest
  <2> QED BY <2>1, <2>2 DEF Handover
<1> QED BY <1>1, <1>2

\* A handover answers nobody but a client that waits.
LEMMA HandoverAnswers ==
  ASSUME IInv, NEW f \in Files, NEW p \in [Clients -> [Files -> Answers]],
         NEW ts, ClearAndProcessQueue(f, p, ts), NEW c \in Clients, NEW g \in Files
  PROVE  promise'[c][g] = p[c][g] \/ promise[c][g] = "pending"
<1>1. Handover(f, p)
  BY HandoverGrants
<1> QED BY <1>1 DEF Handover, Waiting

\* The steps that hand a file over, with the promise its caller settles.
LEMMA Handovers ==
  ASSUME IInv, NEW f \in Files,
         \/ \E c \in Clients : Release(c, f)
         \/ \E w \in Workers : LeaseExpires(f, w)
         \/ ForceRelease(f)
  PROVE  \E p \in [Clients -> [Files -> Answers]] :
           /\ Handover(f, p)
           /\ \A c \in Clients, g \in Files :
                \/ p[c][g] = promise[c][g]
                \/ p[c][g] = "none" /\ promise[c][g] = "granted"
<1> USE DEF IInv, TypeOK
<1>1. CASE \E c \in Clients : Release(c, f)
  <2>1. PICK c \in Clients : Release(c, f)
    BY <1>1
  <2> DEFINE p == [promise EXCEPT ![c][f] = "none"]
  <2>2. p \in [Clients -> [Files -> Answers]] /\ ClearAndProcessQueue(f, p, armed[f])
    BY <2>1 DEF Release, Answers
  <2>3. ASSUME NEW d \in Clients, NEW g \in Files
        PROVE  p[d][g] = promise[d][g] \/ (p[d][g] = "none" /\ promise[d][g] = "granted")
    BY <2>1 DEF Release
  <2> HIDE DEF p
  <2>4. Handover(f, p)
    BY <2>2, HandoverGrants
  <2> QED BY <2>2, <2>3, <2>4
<1>2. CASE (\E w \in Workers : LeaseExpires(f, w)) \/ ForceRelease(f)
  <2>1. \E ts : ClearAndProcessQueue(f, promise, ts)
    BY <1>2, ExpiryHandsOver DEF ForceRelease
  <2>2. Handover(f, promise)
    BY <2>1, HandoverGrants
  <2> QED BY <2>2
<1> QED BY <1>1, <1>2

\* First come, first served.
THEOREM GrantsInOrder == Spec => GrantsAreFifo
<1>1. ASSUME IInv, [Next]_vars,
             NEW f \in Files, NEW c \in Clients,
             queues[f] # <<>>, promise[c][f] # "granted", promise'[c][f] = "granted"
      PROVE  c = Head(queues[f]) \/ WorkerOf[c] = locks[f]
  <2> USE <1>1 DEF IInv
  <2>1. locks[f] # Nobody
    BY DEF NobodyWaitsForAFreeFile
  <2>2. ASSUME NEW d \in Clients, NEW g \in Files,
               \/ AcquireAgain(d, g) \/ AcquireFree(d, g) \/ AcquireQueued(d, g)
               \/ RequestTimesOut(d, g) \/ ReleaseLate(d, g)
        PROVE  WorkerOf[c] = locks[f]
    <3>1. CASE AcquireAgain(d, g)
      BY <3>1 DEF TypeOK, AcquireAgain
    <3>2. CASE AcquireFree(d, g)
      BY <2>1, <3>2 DEF TypeOK, AcquireFree
    <3>3. CASE AcquireQueued(d, g)
      BY <3>3 DEF TypeOK, AcquireQueued
    <3>4. CASE RequestTimesOut(d, g)
      BY <3>4 DEF TypeOK, RequestTimesOut
    <3>5. CASE ReleaseLate(d, g)
      BY <3>5 DEF TypeOK, ReleaseLate
    <3> QED BY <2>2, <3>1, <3>2, <3>3, <3>4, <3>5
  <2>3. ASSUME NEW g \in Files,
               \/ \E d \in Clients : Release(d, g)
               \/ \E w \in Workers : LeaseExpires(g, w)
               \/ ForceRelease(g)
        PROVE  c = Head(queues[f])
    <3>1. PICK p \in [Clients -> [Files -> Answers]] :
            /\ Handover(g, p)
            /\ \A d \in Clients, h \in Files :
                 \/ p[d][h] = promise[d][h]
                 \/ p[d][h] = "none" /\ promise[d][h] = "granted"
      BY <2>3, Handovers
    <3>2. p[c][f] # "granted"
      BY <3>1
    <3>3. PICK d \in Waiting(g) :
            d = Head(queues[g]) /\ promise' = [p EXCEPT ![d][g] = "granted"]
      BY <3>1, <3>2 DEF Handover
    <3>4. d = c /\ g = f
      BY <3>2, <3>3 DEF Waiting
    <3> QED BY <3>3, <3>4
  <2>4. CASE UNCHANGED vars
    BY <2>4 DEF vars
  <2> QED BY <2>2, <2>3, <2>4 DEF Next
<1>2. IInv /\ [Next]_vars =>
        [\A f \in Files, c \in Clients :
           /\ queues[f] # <<>>
           /\ promise[c][f] # "granted"
           /\ promise'[c][f] = "granted"
           => \/ c = Head(queues[f])
              \/ WorkerOf[c] = locks[f]]_vars
  BY <1>1
<1> QED BY <1>2, Invariance, PTL DEF Spec, GrantsAreFifo

\* The manager implements the abstract lock service.
THEOREM ServiceIsImplemented == Spec => ImplementsLockService
<1> DEFINE W == [f \in Files |-> {c \in Clients : promise[c][f] = "pending"}]
<1>1. Init => Service!SInit
  BY DEF Init, Service!SInit
<1>2. ASSUME IInv, [Next]_vars
      PROVE  [Service!SNext]_(Service!svars)
  <2> USE <1>2 DEF IInv
  <2>1. ASSUME NEW c \in Clients, NEW f \in Files, AcquireAgain(c, f)
        PROVE  UNCHANGED Service!svars
    <3>1. locks' = locks
      BY <2>1 DEF AcquireAgain, SetLock, TypeOK
    <3>2. W' = W
      BY <2>1 DEF AcquireAgain, TypeOK
    <3> QED BY <3>1, <3>2 DEF Service!svars
  <2>2. ASSUME NEW c \in Clients, NEW f \in Files, AcquireFree(c, f)
        PROVE  Service!Take(c, f)
    <3>1. W' = W
      BY <2>2 DEF AcquireFree, TypeOK
    <3> QED BY <2>2, <3>1 DEF AcquireFree, SetLock, Service!Take
  <2>3. ASSUME NEW c \in Clients, NEW f \in Files, AcquireQueued(c, f)
        PROVE  Service!Wait(c, f)
    <3>1. W' = [W EXCEPT ![f] = @ \union {c}]
      BY <2>3 DEF AcquireQueued, TypeOK
    <3> QED BY <2>3, <3>1 DEF AcquireQueued, Service!Wait
  <2>4. ASSUME NEW c \in Clients, NEW f \in Files, RequestTimesOut(c, f)
        PROVE  Service!GiveUp(c, f)
    <3>1. promise[c][f] = "pending" /\ promise' = [promise EXCEPT ![c][f] = "refused"]
      BY <2>4 DEF RequestTimesOut, PendingRequestsAreQueued
    <3>2. W' = [W EXCEPT ![f] = @ \ {c}] /\ c \in W[f]
      BY <3>1 DEF TypeOK
    <3> QED BY <2>4, <3>2 DEF RequestTimesOut, Service!GiveUp
  <2>5. ASSUME NEW c \in Clients, NEW f \in Files, ReleaseLate(c, f)
        PROVE  UNCHANGED Service!svars
    <3>1. W' = W
      BY <2>5 DEF ReleaseLate, TypeOK
    <3> QED BY <2>5, <3>1 DEF ReleaseLate, Service!svars
  <2>6. ASSUME NEW f \in Files,
               \/ \E c \in Clients : Release(c, f)
               \/ \E w \in Workers : LeaseExpires(f, w)
               \/ ForceRelease(f)
        PROVE  Service!Free(f) \/ \E c \in Clients : Service!PassOn(c, f)
    <3>1. PICK p \in [Clients -> [Files -> Answers]] :
            /\ Handover(f, p)
            /\ \A d \in Clients, h \in Files :
                 \/ p[d][h] = promise[d][h]
                 \/ p[d][h] = "none" /\ promise[d][h] = "granted"
      BY <2>6, Handovers
    <3>2. CASE /\ Waiting(f) = {}
               /\ locks' = [locks EXCEPT ![f] = Nobody]
               /\ promise' = p
      <4>1. W' = W
        BY <3>1, <3>2
      <4> QED BY <3>2, <4>1 DEF Waiting, Service!Free
    <3>3. ASSUME NEW c \in Waiting(f),
                 locks' = [locks EXCEPT ![f] = WorkerOf[c]],
                 promise' = [p EXCEPT ![c][f] = "granted"]
          PROVE  c \in Clients /\ Service!PassOn(c, f)
      <4>1. c \in Clients /\ c \in W[f]
        BY DEF Waiting
      <4>2. ASSUME NEW g \in Files, NEW d \in Clients
            PROVE  promise'[d][g] = "pending"
                     <=> promise[d][g] = "pending" /\ ~ (g = f /\ d = c)
        BY <3>1, <3>3, <4>1
      <4>3. ASSUME NEW g \in Files
            PROVE  {d \in Clients : promise'[d][g] = "pending"}
                     = IF g = f THEN W[f] \ {c} ELSE W[g]
        BY <4>2
      <4>4. W' = [W EXCEPT ![f] = @ \ {c}]
        BY <4>3
      <4> QED BY <3>3, <4>1, <4>4 DEF Service!PassOn
    <3> QED BY <3>1, <3>2, <3>3 DEF Handover
  <2>7. CASE UNCHANGED vars
    BY <2>7 DEF vars, Service!svars
  <2> QED BY <2>1, <2>2, <2>3, <2>4, <2>5, <2>6, <2>7 DEF Next, Service!SNext
<1> QED BY <1>1, <1>2, Invariance, PTL DEF Spec, ImplementsLockService, Service!SSpec

=============================================================================
