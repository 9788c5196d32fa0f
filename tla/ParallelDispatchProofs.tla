----------------------- MODULE ParallelDispatchProofs -----------------------
(***************************************************************************)
(* Proofs about SubagentSlots, for any number of dispatches and slots, and *)
(* about ParallelDispatch, whose batches run their dispatches as           *)
(* SubagentSlots specifies: everything proved of the slots holds of a      *)
(* batch.                                                                  *)
(***************************************************************************)
EXTENDS ParallelDispatch, SequenceTheorems, FiniteSetTheorems, TLAPS

-----------------------------------------------------------------------------
(* Queues without repetitions.                                             *)

\* The same of the head of the queue.
LEMMA TailElements ==
  ASSUME NEW S, NEW q \in Seq(S), q # <<>>, IsInjective(q)
  PROVE  /\ Tail(q) \in Seq(S)
         /\ Head(q) \in S
         /\ ToSet(Tail(q)) = ToSet(q) \ {Head(q)}
         /\ IsInjective(Tail(q))
<1>1. /\ Len(q) \in Nat \ {0}
      /\ DOMAIN q = 1 .. Len(q)
      /\ Head(q) = q[1]
      /\ Head(q) \in S
      /\ Tail(q) \in Seq(S)
      /\ Len(Tail(q)) = Len(q) - 1
      /\ DOMAIN Tail(q) = 1 .. Len(q) - 1
      /\ \A j \in 1 .. Len(q) - 1 : Tail(q)[j] = q[j + 1]
  BY HeadTailProperties, LenProperties, EmptySeq
<1>2. \A i, j \in 1 .. Len(q) : q[i] = q[j] => i = j
  BY <1>1 DEF IsInjective
<1>3. IsInjective(Tail(q))
  BY <1>1, <1>2 DEF IsInjective
<1>4. ASSUME NEW i \in 1 .. Len(q), i # 1
      PROVE  \E j \in 1 .. Len(q) - 1 : Tail(q)[j] = q[i]
  <2>1. i - 1 \in 1 .. Len(q) - 1
    BY <1>1, <1>4
  <2>2. Tail(q)[i - 1] = q[(i - 1) + 1] /\ (i - 1) + 1 = i
    BY <1>1, <2>1
  <2> QED BY <2>1, <2>2
<1>5. ToSet(Tail(q)) = ToSet(q) \ {Head(q)}
  <2>1. ASSUME NEW x \in ToSet(Tail(q)) PROVE x \in ToSet(q) \ {Head(q)}
    <3>1. PICK j \in 1 .. Len(q) - 1 : Tail(q)[j] = x
      BY <1>1, <2>1 DEF ToSet
    <3>2. x = q[j + 1] /\ j + 1 \in 1 .. Len(q) /\ j + 1 # 1
      BY <1>1, <3>1
    <3> QED BY <1>1, <1>2, <3>2 DEF ToSet
  <2>2. ASSUME NEW x \in ToSet(q), x # Head(q) PROVE x \in ToSet(Tail(q))
    <3>1. PICK i \in 1 .. Len(q) : q[i] = x /\ i # 1
      BY <1>1, <2>2 DEF ToSet
    <3>2. PICK j \in 1 .. Len(q) - 1 : Tail(q)[j] = q[i]
      BY <1>4, <3>1
    <3> QED BY <1>1, <3>1, <3>2 DEF ToSet
  <2> QED BY <2>1, <2>2
<1> QED BY <1>1, <1>3, <1>5

\* The elements of a queue that one more joins.
LEMMA AppendElements ==
  ASSUME NEW S, NEW q \in Seq(S), NEW e \in S, IsInjective(q), e \notin ToSet(q)
  PROVE  /\ Append(q, e) \in Seq(S)
         /\ ToSet(Append(q, e)) = ToSet(q) \union {e}
         /\ IsInjective(Append(q, e))
<1>1. /\ Len(q) \in Nat
      /\ DOMAIN q = 1 .. Len(q)
      /\ Append(q, e) \in Seq(S)
      /\ DOMAIN Append(q, e) = 1 .. Len(q) + 1
      /\ \A i \in 1 .. Len(q) : Append(q, e)[i] = q[i]
      /\ Append(q, e)[Len(q) + 1] = e
  BY AppendProperties, LenProperties
<1>2. \A i \in 1 .. Len(q) : q[i] # e
  BY <1>1 DEF ToSet
<1>3. \A i, j \in 1 .. Len(q) : q[i] = q[j] => i = j
  BY <1>1 DEF IsInjective
<1>4. ASSUME NEW i \in 1 .. Len(q) + 1, NEW j \in 1 .. Len(q) + 1,
             Append(q, e)[i] = Append(q, e)[j]
      PROVE  i = j
  <2>1. CASE i \in 1 .. Len(q) /\ j \in 1 .. Len(q)
    BY <1>1, <1>3, <1>4, <2>1
  <2>2. CASE i = Len(q) + 1 \/ j = Len(q) + 1
    BY <1>1, <1>2, <1>4, <2>2
  <2> QED BY <1>1, <2>1, <2>2
<1>5. ToSet(Append(q, e)) = ToSet(q) \union {e}
  <2>1. ASSUME NEW x \in ToSet(Append(q, e)) PROVE x \in ToSet(q) \union {e}
    <3>1. PICK i \in 1 .. Len(q) + 1 : Append(q, e)[i] = x
      BY <1>1, <2>1 DEF ToSet
    <3>2. CASE i \in 1 .. Len(q)
      BY <1>1, <3>1, <3>2 DEF ToSet
    <3>3. CASE i = Len(q) + 1
      BY <1>1, <3>1, <3>3
    <3> QED BY <1>1, <3>2, <3>3
  <2>2. ASSUME NEW x \in ToSet(q) PROVE x \in ToSet(Append(q, e))
    BY <1>1, <2>2 DEF ToSet
  <2>3. e \in ToSet(Append(q, e))
    BY <1>1 DEF ToSet
  <2> QED BY <2>1, <2>2, <2>3
<1>6. IsInjective(Append(q, e))
  BY <1>1, <1>4 DEF IsInjective
<1> QED BY <1>1, <1>5, <1>6

-----------------------------------------------------------------------------
(* The slots: the inductive invariant.                                     *)

IInv ==
  /\ TypeOK
  /\ WidthIsBounded
  /\ NoSlotIdles
  /\ ShownAsItIs

Busy == {"working", "delegating"}

LEMMA HoldingIsFinite == IsFiniteSet(Holding) /\ Cardinality(Holding) \in Nat
<1>1. Holding \subseteq Dispatches
  BY DEF Holding
<1> QED BY <1>1, DispatchesAssumption, FS_Subset, FS_CardinalityType

-----------------------------------------------------------------------------
(* The semaphore.                                                          *)

\* A dispatch takes a slot or joins the queue, while its caller, if any, goes
\* from one busy stage to the other.
LEMMA AcquireKeepsSlots ==
  ASSUME IInv, NEW d \in Dispatches, stage[d] = "idle",
         NEW stages \in [Dispatches -> Stages],
         \A x \in Dispatches : \/ stages[x] = stage[x]
                               \/ stages[x] \in Busy /\ stage[x] \in Busy,
         AcquireSubagentSlot(d, stages)
  PROVE  /\ subagentActive' \in Nat /\ subagentWaitQueue' \in Seq(Dispatches)
         /\ stage' \in [Dispatches -> Stages]
         /\ WidthIsBounded' /\ NoSlotIdles'
         /\ stage'[d] \in {"setup", "waiting"}
         /\ \A x \in Dispatches : x # d => stage'[x] = stages[x]
<1> USE DEF IInv, TypeOK
<1>1. stages[d] = "idle"
  BY DEF Busy
<1>2. {x \in Dispatches : stages[x] \in Announced \cup {"setup"}} = Holding
  BY DEF Holding, Announced, Busy
<1>3. {x \in Dispatches : stages[x] = "waiting"} = ToSet(subagentWaitQueue)
  BY DEF NoSlotIdles, Busy
<1>4. CASE /\ subagentActive < Limit
           /\ subagentActive' = subagentActive + 1
           /\ stage' = [stages EXCEPT ![d] = "setup"]
           /\ UNCHANGED subagentWaitQueue
  <2>1. /\ stage' \in [Dispatches -> Stages]
        /\ stage'[d] = "setup"
        /\ \A x \in Dispatches : x # d => stage'[x] = stages[x]
    BY <1>4 DEF Stages, Ended
  <2>2. Holding' = Holding \cup {d} /\ d \notin Holding
    BY <1>1, <1>2, <2>1 DEF Holding, Announced
  <2>3. Cardinality(Holding') = Cardinality(Holding) + 1
    BY <2>2, HoldingIsFinite, FS_AddElement
  <2>4. WidthIsBounded'
    BY <1>4, <2>3, LimitAssumption DEF WidthIsBounded
  <2>5. {x \in Dispatches : stage'[x] = "waiting"} = ToSet(subagentWaitQueue)
    BY <1>1, <1>3, <2>1
  <2>6. subagentWaitQueue = <<>>
    BY <1>4, LimitAssumption DEF NoSlotIdles
  <2>7. NoSlotIdles'
    BY <1>4, <2>5, <2>6 DEF NoSlotIdles
  <2> QED BY <1>4, <2>1, <2>4, <2>7
<1>5. CASE /\ subagentActive >= Limit
           /\ subagentWaitQueue' = Append(subagentWaitQueue, d)
           /\ stage' = [stages EXCEPT ![d] = "waiting"]
           /\ UNCHANGED subagentActive
  <2>1. /\ stage' \in [Dispatches -> Stages]
        /\ stage'[d] = "waiting"
        /\ \A x \in Dispatches : x # d => stage'[x] = stages[x]
    BY <1>5 DEF Stages, Ended
  <2>2. Holding' = Holding
    BY <1>1, <1>2, <2>1 DEF Holding, Announced
  <2>3. WidthIsBounded'
    BY <1>5, <2>2 DEF WidthIsBounded
  <2>4. d \notin ToSet(subagentWaitQueue)
    BY DEF NoSlotIdles
  <2>5. /\ subagentWaitQueue' \in Seq(Dispatches)
        /\ ToSet(subagentWaitQueue') = ToSet(subagentWaitQueue) \cup {d}
        /\ IsInjective(subagentWaitQueue')
    BY <1>5, <2>4, AppendElements DEF NoSlotIdles
  <2>6. ToSet(subagentWaitQueue') = {x \in Dispatches : stage'[x] = "waiting"}
    BY <1>1, <1>3, <2>1, <2>5
  <2>7. subagentActive' = Limit
    BY <1>5, LimitAssumption DEF WidthIsBounded
  <2>8. NoSlotIdles'
    BY <2>5, <2>6, <2>7 DEF NoSlotIdles
  <2> QED BY <1>5, <2>1, <2>3, <2>5, <2>8
<1> QED BY <1>4, <1>5 DEF AcquireSubagentSlot

\* What the other dispatches do when d ends: only its caller may go on.
LEMMA ResumedStages ==
  ASSUME IInv, NEW d \in Holding, NEW end \in Ended
  PROVE  /\ Resumed(d, end) \in [Dispatches -> Stages]
         /\ Resumed(d, end)[d] = end
         /\ \A x \in Dispatches : x # d =>
              \/ Resumed(d, end)[x] = stage[x]
              \/ Resumed(d, end)[x] \in Busy /\ stage[x] \in Busy
<1>1. d \in Dispatches
  BY DEF Holding
<1>2. ASSUME NEW x \in Dispatches
      PROVE  /\ Resumed(d, end)[x] \in Stages
             /\ x # d => \/ Resumed(d, end)[x] = stage[x]
                         \/ Resumed(d, end)[x] \in Busy /\ stage[x] \in Busy
  BY DEF IInv, TypeOK, Resumed, Stages, Ended, Announced, Busy
<1> QED BY <1>1, <1>2 DEF Resumed

\* A dispatch gives its slot back, or on to the head of the queue.
LEMMA SettleKeepsSlots ==
  ASSUME IInv, NEW d \in Holding, NEW end \in Ended, NEW code \in {0, 1},
         Settle(d, end, code)
  PROVE  /\ subagentActive' \in Nat /\ subagentWaitQueue' \in Seq(Dispatches)
         /\ stage' \in [Dispatches -> Stages]
         /\ exitCode' \in [Dispatches -> {0, 1}]
         /\ WidthIsBounded' /\ NoSlotIdles'
         /\ stage'[d] = end
         /\ \A x \in Dispatches : x # d =>
              \/ stage'[x] = stage[x]
              \/ stage'[x] \in Busy /\ stage[x] \in Busy
              \/ stage[x] = "waiting" /\ stage'[x] = "setup"
<1> DEFINE r == Resumed(d, end)
<1> USE DEF IInv, TypeOK
<1>1. d \in Dispatches /\ stage[d] \in Announced \cup {"setup"}
  BY DEF Holding
<1>2. /\ r \in [Dispatches -> Stages]
      /\ r[d] = end
      /\ \A x \in Dispatches : x # d =>
           r[x] = stage[x] \/ (r[x] \in Busy /\ stage[x] \in Busy)
  BY ResumedStages
<1>3. exitCode' \in [Dispatches -> {0, 1}]
  BY DEF Settle
<1>4. ReleaseSubagentSlot(r)
  BY DEF Settle
<1> HIDE DEF r
<1>5. {x \in Dispatches : r[x] \in Announced \cup {"setup"}} = Holding \ {d}
  BY <1>1, <1>2 DEF Holding, Announced, Ended, Busy
<1>6. {x \in Dispatches : r[x] = "waiting"} = ToSet(subagentWaitQueue)
  BY <1>1, <1>2 DEF NoSlotIdles, Busy, Announced, Ended
<1>7. /\ IsFiniteSet(Holding \ {d})
      /\ Cardinality(Holding \ {d}) = Cardinality(Holding) - 1
      /\ Cardinality(Holding \ {d}) \in Nat
  BY HoldingIsFinite, FS_RemoveElement, FS_CardinalityType
<1>8. CASE /\ subagentWaitQueue = <<>>
           /\ subagentActive' = subagentActive - 1
           /\ stage' = r
           /\ UNCHANGED subagentWaitQueue
  <2>1. Holding' = Holding \ {d}
    BY <1>5, <1>8 DEF Holding
  <2>2. WidthIsBounded' /\ subagentActive' \in Nat
    BY <1>7, <1>8, <2>1, LimitAssumption DEF WidthIsBounded
  <2>3. NoSlotIdles'
    BY <1>6, <1>8 DEF NoSlotIdles
  <2> QED BY <1>2, <1>3, <1>8, <2>2, <2>3
<1>9. CASE /\ subagentWaitQueue # <<>>
           /\ stage' = [r EXCEPT ![Head(subagentWaitQueue)] = "setup"]
           /\ subagentWaitQueue' = Tail(subagentWaitQueue)
           /\ UNCHANGED subagentActive
  <2> DEFINE h == Head(subagentWaitQueue)
  <2>1. /\ Tail(subagentWaitQueue) \in Seq(Dispatches)
        /\ h \in Dispatches
        /\ ToSet(Tail(subagentWaitQueue)) = ToSet(subagentWaitQueue) \ {h}
        /\ IsInjective(Tail(subagentWaitQueue))
    BY <1>9, TailElements DEF NoSlotIdles
  <2>2. h \in ToSet(subagentWaitQueue)
    <3>1. h = subagentWaitQueue[1] /\ 1 \in 1 .. Len(subagentWaitQueue)
      BY <1>9, HeadTailProperties, EmptySeq, LenProperties
    <3>2. DOMAIN subagentWaitQueue = 1 .. Len(subagentWaitQueue)
      BY LenProperties
    <3>3. ToSet(subagentWaitQueue)
            = {subagentWaitQueue[i] : i \in DOMAIN subagentWaitQueue}
      BY Zenon DEF ToSet
    <3> HIDE DEF h
    <3> QED BY ONLY <3>1, <3>2, <3>3, Zenon
  <2>3. r[h] = "waiting" /\ stage[h] = "waiting" /\ h # d
    BY <1>1, <1>6, <2>2 DEF NoSlotIdles, Announced
  <2> HIDE DEF h
  <2>4. stage' = [r EXCEPT ![h] = "setup"]
    BY <1>9 DEF h
  <2>5. /\ stage' \in [Dispatches -> Stages]
        /\ stage'[h] = "setup"
        /\ \A x \in Dispatches : x # h => stage'[x] = r[x]
    BY <1>2, <2>1, <2>4 DEF Stages, Ended
  <2>6. Holding' = (Holding \ {d}) \cup {h} /\ h \notin Holding \ {d}
    BY <1>5, <2>1, <2>3, <2>5, ZenonT(30) DEF Holding, Announced
  <2>7. Cardinality(Holding') = Cardinality(Holding)
    <3>1. Cardinality((Holding \ {d}) \cup {h}) = Cardinality(Holding \ {d}) + 1
      BY <1>7, <2>6, FS_AddElement
    <3>2. Cardinality(Holding) \in Nat
      BY HoldingIsFinite, FS_CardinalityType
    <3> QED BY <1>7, <2>6, <3>1, <3>2
  <2>8. WidthIsBounded'
    BY <1>9, <2>7 DEF WidthIsBounded
  <2>9. {x \in Dispatches : stage'[x] = "waiting"} = ToSet(subagentWaitQueue) \ {h}
    BY <1>6, <2>1, <2>3, <2>5
  <2>10. NoSlotIdles'
    BY <1>9, <2>1, <2>9 DEF NoSlotIdles
  <2>11. stage'[d] = end
    BY <1>1, <1>2, <2>3, <2>5
  <2>12. ASSUME NEW x \in Dispatches, x # d
         PROVE  \/ stage'[x] = stage[x]
                \/ stage'[x] \in Busy /\ stage[x] \in Busy
                \/ stage[x] = "waiting" /\ stage'[x] = "setup"
    BY <1>2, <2>3, <2>5, <2>12
  <2> QED BY <1>3, <1>9, <2>1, <2>5, <2>8, <2>10, <2>11, <2>12
<1> QED BY <1>4, <1>8, <1>9 DEF ReleaseSubagentSlot

-----------------------------------------------------------------------------
(* The steps.                                                              *)

LEMMA InitIInv == Init => IInv
<1> SUFFICES ASSUME Init PROVE IInv
  OBVIOUS
<1>1. Holding = {} /\ {d \in Dispatches : stage[d] = "waiting"} = {}
  BY DEF Init, Holding, Announced
<1>2. TypeOK
  BY EmptySeq DEF Init, TypeOK, Stages, Ended
<1>3. WidthIsBounded
  BY <1>1, FS_EmptySet, LimitAssumption DEF Init, WidthIsBounded
<1>4. NoSlotIdles
  BY <1>1, EmptySeq DEF Init, NoSlotIdles, ToSet, IsInjective
<1>5. ShownAsItIs
  BY DEF Init, ShownAsItIs, Announced
<1> QED BY <1>2, <1>3, <1>4, <1>5 DEF IInv

\* A dispatch that ends in one way or another is not shown as running any more,
\* unless it is stuck.
LEMMA EndKeepsIInv ==
  ASSUME IInv, NEW d \in Holding, NEW end \in Ended, NEW code \in {0, 1},
         Settle(d, end, code),
         aborted' \subseteq Dispatches,
         NEW s \in {"nothing", "running", "finished", "error"},
         s = "running" <=> end = "stuck",
         shown' = [shown EXCEPT ![d] = s],
         inFlight' = inFlight \ {d}
  PROVE  IInv'
<1>1. /\ stage' \in [Dispatches -> Stages]
      /\ stage'[d] = end
      /\ \A x \in Dispatches : x # d =>
           \/ stage'[x] = stage[x]
           \/ stage'[x] \in Busy /\ stage[x] \in Busy
           \/ stage[x] = "waiting" /\ stage'[x] = "setup"
  BY SettleKeepsSlots
<1>2. d \in Dispatches
  BY DEF Holding
<1>3. TypeOK'
  BY <1>1, <1>2, SettleKeepsSlots DEF IInv, TypeOK, Settle
<1>4. ShownAsItIs'
  <2>1. shown' \in [Dispatches -> {"nothing", "running", "finished", "error"}]
    BY <1>3 DEF TypeOK
  <2>2. ASSUME NEW x \in Dispatches
        PROVE  /\ shown'[x] = "running" <=> stage'[x] \in Announced \cup {"stuck"}
               /\ x \in inFlight' <=> stage'[x] \in {"working", "delegating"}
    BY <1>1, <1>2, <2>1 DEF IInv, TypeOK, ShownAsItIs, Announced, Ended, Busy
  <2> QED BY <1>3, <2>2 DEF ShownAsItIs, TypeOK
<1> QED BY <1>3, <1>4, SettleKeepsSlots DEF IInv

\* A dispatch that holds a slot and keeps it.
LEMMA StayKeepsIInv ==
  ASSUME IInv, NEW d \in Dispatches, Announce(d) \/ Prepare(d) \/ Begin(d)
  PROVE  IInv'
<1> USE DEF IInv
<1>1. /\ stage' \in [Dispatches -> Stages]
      /\ \A x \in Dispatches : x # d => stage'[x] = stage[x]
      /\ stage[d] \in {"setup", "announced", "routing"}
      /\ stage'[d] \in {"announced", "routing", "working"}
  BY DEF Announce, Prepare, Begin, TypeOK, Stages, Ended, Announced
<1>2. TypeOK'
  BY <1>1 DEF Announce, Prepare, Begin, TypeOK
<1>3. Holding' = Holding
  BY <1>1 DEF Holding, Announced
<1>4. {x \in Dispatches : stage'[x] = "waiting"} = {x \in Dispatches : stage[x] = "waiting"}
  BY <1>1
<1>5. WidthIsBounded' /\ NoSlotIdles'
  BY <1>3, <1>4 DEF WidthIsBounded, NoSlotIdles, Announce, Prepare, Begin
<1>6. ShownAsItIs'
  BY <1>1, <1>2 DEF Announce, Prepare, Begin, ShownAsItIs, Announced, TypeOK
<1> QED BY <1>2, <1>5, <1>6

LEMMA CallKeepsIInv ==
  ASSUME IInv, NEW d \in Dispatches,
         Call(d) \/ \E p \in Dispatches : Delegate(p, d)
  PROVE  IInv'
<1> USE DEF IInv
<1>1. CASE Call(d)
  <2>1. /\ stage[d] = "idle"
        /\ AcquireSubagentSlot(d, stage)
        /\ UNCHANGED <<chain, aborted, exitCode, shown, inFlight>>
    BY <1>1 DEF Call
  <2>2. stage \in [Dispatches -> Stages]
    BY DEF TypeOK
  <2>3. /\ subagentActive' \in Nat /\ subagentWaitQueue' \in Seq(Dispatches)
        /\ stage' \in [Dispatches -> Stages]
        /\ WidthIsBounded' /\ NoSlotIdles'
        /\ stage'[d] \in {"setup", "waiting"}
        /\ \A x \in Dispatches : x # d => stage'[x] = stage[x]
    BY <2>1, <2>2, AcquireKeepsSlots
  <2>4. TypeOK'
    BY <2>1, <2>3 DEF TypeOK
  <2>5. ShownAsItIs'
    BY <2>1, <2>3 DEF ShownAsItIs, Announced
  <2> QED BY <2>3, <2>4, <2>5
<1>2. ASSUME NEW p \in Dispatches, Delegate(p, d)
      PROVE  IInv'
  <2> DEFINE s == [stage EXCEPT ![p] = "delegating"]
  <2>1. /\ stage[d] = "idle" /\ stage[p] = "working" /\ d # p
        /\ AcquireSubagentSlot(d, s)
        /\ chain' = [chain EXCEPT ![d] = Append(chain[p], p)]
        /\ UNCHANGED <<aborted, exitCode, shown, inFlight>>
    BY <1>2 DEF Delegate
  <2>2. /\ s \in [Dispatches -> Stages]
        /\ s[p] = "delegating" /\ \A x \in Dispatches : x # p => s[x] = stage[x]
    BY DEF TypeOK, Stages, Ended, Announced
  <2> HIDE DEF s
  <2>3. \A x \in Dispatches : s[x] = stage[x] \/ (s[x] \in Busy /\ stage[x] \in Busy)
    BY <2>1, <2>2 DEF Busy
  <2>4. /\ subagentActive' \in Nat /\ subagentWaitQueue' \in Seq(Dispatches)
        /\ stage' \in [Dispatches -> Stages]
        /\ WidthIsBounded' /\ NoSlotIdles'
        /\ stage'[d] \in {"setup", "waiting"}
        /\ \A x \in Dispatches : x # d => stage'[x] = s[x]
    BY <2>1, <2>2, <2>3, AcquireKeepsSlots
  <2>5. chain' \in [Dispatches -> Seq(Dispatches)]
    BY <2>1, AppendProperties DEF TypeOK
  <2>6. TypeOK'
    BY <2>1, <2>4, <2>5 DEF TypeOK
  <2>7. ShownAsItIs'
    BY <2>1, <2>2, <2>4 DEF ShownAsItIs, Announced
  <2> QED BY <2>4, <2>6, <2>7
<1> QED BY <1>1, <1>2

\* The invariant is inductive.
LEMMA NextIInv == IInv /\ [Next]_vars => IInv'
<1> SUFFICES ASSUME IInv, [Next]_vars PROVE IInv'
  OBVIOUS
<1> USE DEF IInv
<1>1. ASSUME NEW d \in Dispatches, Call(d) \/ \E p \in Dispatches : Delegate(p, d)
      PROVE  IInv'
  BY <1>1, CallKeepsIInv
<1>2. ASSUME NEW d \in Dispatches, Announce(d) \/ Prepare(d) \/ Begin(d)
      PROVE  IInv'
  BY <1>2, StayKeepsIInv
<1>3. ASSUME NEW d \in Dispatches, Reject(d)
      PROVE  IInv'
  <2>1. d \in Holding /\ shown[d] # "running" /\ d \notin inFlight
    BY <1>3 DEF Reject, Holding, ShownAsItIs, Announced
  <2>2. /\ shown[d] \in {"nothing", "finished", "error"}
        /\ shown' = [shown EXCEPT ![d] = shown[d]]
        /\ inFlight' = inFlight \ {d}
    BY <1>3, <2>1 DEF Reject, TypeOK
  <2> QED BY <1>3, <2>1, <2>2, EndKeepsIInv DEF Reject, TypeOK, Ended
<1>4. ASSUME NEW d \in Dispatches, RoutingFails(d)
      PROVE  IInv'
  <2>1. d \in Holding /\ d \notin inFlight
    BY <1>4 DEF RoutingFails, Holding, ShownAsItIs, Announced
  <2>2. inFlight' = inFlight \ {d}
    BY <1>4, <2>1 DEF RoutingFails
  <2> QED BY <1>4, <2>1, <2>2, EndKeepsIInv DEF RoutingFails, TypeOK, Ended
<1>5. ASSUME NEW d \in Dispatches, NEW code \in {0, 1}, Finish(d, code)
      PROVE  IInv'
  <2>1. d \in Holding
    BY <1>5 DEF Finish, Holding, Announced
  <2> DEFINE s == IF code = 0 THEN "finished" ELSE "error"
  <2>2. s \in {"nothing", "finished", "error"} /\ shown' = [shown EXCEPT ![d] = s]
    BY <1>5 DEF Finish
  <2> HIDE DEF s
  <2> QED BY <1>5, <2>1, <2>2, EndKeepsIInv DEF Finish, TypeOK, Ended
<1>6. ASSUME NEW d \in Dispatches, CutShort(d)
      PROVE  IInv'
  <2>1. d \in Holding
    BY <1>6 DEF CutShort, Timed, Holding, Announced
  <2>2. aborted' \subseteq Dispatches
    BY <1>6 DEF CutShort, TypeOK
  <2> QED BY <1>6, <2>1, <2>2, EndKeepsIInv DEF CutShort, Ended
<1>7. CASE Abort \/ UNCHANGED vars
  <2>1. Holding' = Holding
    BY <1>7 DEF Abort, vars, Holding
  <2>2. TypeOK' /\ NoSlotIdles' /\ ShownAsItIs'
    BY <1>7 DEF Abort, vars, TypeOK, NoSlotIdles, ShownAsItIs
  <2>3. WidthIsBounded'
    BY <1>7, <2>1 DEF Abort, vars, WidthIsBounded
  <2> QED BY <2>2, <2>3
<1>8. ASSUME NEW d \in Dispatches, SkillsRootMissing(d)
      PROVE  IInv'
  <2>1. d \in Holding /\ shown[d] = "running" /\ d \notin inFlight
    BY <1>8 DEF SkillsRootMissing, Holding, ShownAsItIs, Announced
  <2>2. /\ shown' = [shown EXCEPT ![d] = "running"]
        /\ inFlight' = inFlight \ {d}
    BY <1>8, <2>1 DEF SkillsRootMissing, TypeOK
  <2> QED BY <1>8, <2>1, <2>2, EndKeepsIInv DEF SkillsRootMissing, TypeOK, Ended
<1> QED BY <1>1, <1>2, <1>3, <1>4, <1>5, <1>6, <1>7, <1>8 DEF Next

-----------------------------------------------------------------------------
(* The theorems.                                                           *)

\* The invariant holds in every reachable state.
THEOREM Invariance == Spec => []IInv
  BY InitIInv, NextIInv, PTL DEF Spec

\* Every variable keeps its type.
THEOREM TypeCorrect == Spec => []TypeOK
  BY Invariance, PTL DEF IInv

\* At most Limit dispatches hold a slot, and the count is exactly theirs.
THEOREM WidthHolds == Spec => []WidthIsBounded
  BY Invariance, PTL DEF IInv

\* No wakeup is lost: who waits is queued, and only while all slots are taken.
THEOREM NoWakeupIsLost == Spec => []NoSlotIdles
  BY Invariance, PTL DEF IInv

\* On every path, a dispatch is shown as running, and counted as busy, exactly
\* while it is.
THEOREM EventsTellTheTruth == Spec => []ShownAsItIs
  BY Invariance, PTL DEF IInv

-----------------------------------------------------------------------------
(* The batch refines the slots.                                            *)

LEMMA InitMaps == BatchInit => Init
  BY DEF BatchInit

LEMMA StepMaps == [BatchNext]_parallelVars => [Next]_vars
<1> SUFFICES ASSUME [BatchNext]_parallelVars PROVE [Next]_vars
  OBVIOUS
<1> USE DEF vars
<1>1. CASE BatchNext
  <2>1. CASE Start \/ StartFails \/ Merge \/ \E f \in Files : EditOutside(f)
    BY <2>1 DEF Start, StartFails, Merge, EditOutside
  <2>2. CASE BatchAbort
    BY <2>2 DEF BatchAbort, Next
  <2>3. ASSUME NEW m \in InBatch, Skip(m) \/ Enter(m)
        PROVE  Next \/ UNCHANGED vars
    <3>1. m \in Dispatches
      BY MembersAssumption DEF InBatch, ToSet
    <3>2. CASE Skip(m)
      BY <3>2 DEF Skip
    <3>3. CASE Enter(m)
      BY <3>1, <3>3 DEF Enter, Next
    <3> QED BY <2>3, <3>2, <3>3
  <2>4. ASSUME NEW d \in Dispatches, Proceed(d)
        PROVE  Next
    BY <2>4 DEF Proceed, Next
  <2>5. ASSUME NEW d \in Dispatches, BatchSettle(d)
        PROVE  Next
    BY <2>5 DEF BatchSettle, Next
  <2>6. ASSUME NEW d \in Dispatches, NEW p \in Dispatches, BatchDelegate(p, d)
        PROVE  Next
    BY <2>6 DEF BatchDelegate, Next
  <2>7. ASSUME NEW d \in Dispatches, NEW f \in Files, Edit(d, f)
        PROVE  UNCHANGED vars
    BY <2>7 DEF Edit
  <2> QED BY <1>1, <2>1, <2>2, <2>3, <2>4, <2>5, <2>6, <2>7 DEF BatchNext
<1>2. CASE UNCHANGED parallelVars
  BY <1>2 DEF parallelVars
<1> QED BY <1>1, <1>2

\* The batch implements the slots: every step of it is one of theirs, or none.
THEOREM SlotsAreImplemented == BatchSpec => ImplementsSlots
  BY InitMaps, StepMaps, PTL DEF BatchSpec, ImplementsSlots, Spec

-----------------------------------------------------------------------------
(* The merge.                                                              *)

\* Only a merge ends a batch that is under way.
LEMMA OnlyMergeReturns ==
  ASSUME [BatchNext]_parallelVars, phase = "dispatching", phase' # phase
  PROVE  Merge
<1>1. phase' = phase => FALSE
  OBVIOUS
<1>2. ~(UNCHANGED parallelVars)
  BY DEF parallelVars, batchVars
<1>3. ~(Start \/ StartFails)
  BY DEF Start, StartFails
<1>4. ~(BatchAbort \/ \E f \in Files : EditOutside(f))
  BY DEF BatchAbort, EditOutside, batchVars
<1>5. ~(\E m \in InBatch : Skip(m) \/ Enter(m))
  BY DEF Skip, Enter
<1>6. ~(\E d \in Dispatches : \/ Proceed(d) \/ BatchSettle(d)
                              \/ (\E p \in Dispatches : BatchDelegate(p, d))
                              \/ (\E f \in Files : Edit(d, f)))
  BY DEF Proceed, BatchSettle, BatchDelegate, Edit, batchVars
<1> QED BY <1>2, <1>3, <1>4, <1>5, <1>6 DEF BatchNext

\* What a merge writes of a file is what a successful member has of it.
LEMMA AppliedIsWritten ==
  ASSUME NEW files \in SUBSET Claimed, NEW f \in Files, Applied(files)[f] # root[f]
  PROVE  \E m \in Successful : f \in Changed(m) /\ Applied(files)[f] = clone[m][f]
<1>1. f \in files /\ Applied(files)[f] = clone[CHOOSE m \in Successful : f \in Changed(m)][f]
  BY DEF Applied
<1>2. \E m \in Successful : f \in Changed(m)
  BY <1>1 DEF Claimed
<1> QED BY <1>1, <1>2

LEMMA MergeTakesSuccesses ==
  ASSUME Merge, NEW f \in Files, root'[f] # root[f]
  PROVE  phase' # "conflict" /\ \E m \in InBatch : exitCode[m] = 0 /\ root'[f] = clone[m][f]
<1>1. PICK files \in SUBSET Claimed : phase' # "conflict" /\ root' = Applied(files)
  BY DEF Merge
<1>2. \E m \in Successful : f \in Changed(m) /\ Applied(files)[f] = clone[m][f]
  BY <1>1, AppliedIsWritten
<1> QED BY <1>1, <1>2 DEF Successful

\* A merge writes nothing but what successful members made of a file, and in a
\* conflict nothing.
THEOREM OnlySuccessesAreMerged == BatchSpec => MergesOnlySuccesses
<1>1. ASSUME [BatchNext]_parallelVars
      PROVE  [phase' # phase /\ phase = "dispatching" =>
                \A f \in Files : root'[f] # root[f] =>
                  /\ phase' # "conflict"
                  /\ \E m \in InBatch : exitCode[m] = 0 /\ root'[f] = clone[m][f]]_parallelVars
  BY <1>1, OnlyMergeReturns, MergeTakesSuccesses
<1> QED BY <1>1, PTL DEF BatchSpec, MergesOnlySuccesses
-----------------------------------------------------------------------------
(* Conflicts.                                                              *)

\* Until it is merged into, the project is what was copied but for the files
\* edited from outside.
ConflictInv ==
  /\ root = [f \in Files |-> root[f]]
  /\ phase \in {"idle", "dispatching"} =>
       conflicts = {} /\ \A f \in Files \ touched : root[f] = cloned[f]
  /\ ConflictsAreReal

Changing(f) == {m \in Successful : clone[m][f] # cloned[f]}

LEMMA PairIsPlural ==
  ASSUME NEW S \in SUBSET Dispatches, NEW m \in S, NEW n \in S, m # n
  PROVE  Cardinality(S) > 1
<1>1. IsFiniteSet({m}) /\ Cardinality({m}) = 1
  BY FS_Singleton
<1>2. IsFiniteSet({m} \cup {n}) /\ Cardinality({m} \cup {n}) = 2
  <2>1. n \notin {m}
    OBVIOUS
  <2>2. IsFiniteSet({m} \cup {n}) /\ Cardinality({m} \cup {n}) = Cardinality({m}) + 1
    BY <1>1, <2>1, FS_AddElement, Zenon
  <2> QED BY <1>1, <2>2
<1>3. IsFiniteSet(S) /\ Cardinality(S) \in Nat
  BY DispatchesAssumption, FS_Subset, FS_CardinalityType
<1>4. Cardinality({m} \cup {n}) <= Cardinality(S)
  BY <1>3, FS_Subset
<1> QED BY <1>2, <1>3, <1>4

\* What a dispatch has returned stays.
LEMMA SuccessStays ==
  ASSUME IInv, [Next]_vars, NEW m \in Dispatches, stage[m] = "done", exitCode[m] = 0
  PROVE  stage'[m] = "done" /\ exitCode'[m] = 0
<1> USE DEF IInv, TypeOK
<1>1. ASSUME NEW d \in Dispatches, Call(d) \/ \E p \in Dispatches : Delegate(p, d)
      PROVE  stage'[m] = "done" /\ exitCode'[m] = 0
  BY <1>1 DEF Call, Delegate, AcquireSubagentSlot
<1>2. ASSUME NEW d \in Dispatches, Announce(d) \/ Prepare(d) \/ Begin(d)
      PROVE  stage'[m] = "done" /\ exitCode'[m] = 0
  BY <1>2 DEF Announce, Prepare, Begin
<1>3. ASSUME NEW d \in Holding, NEW end \in Ended, NEW code \in {0, 1},
             Settle(d, end, code)
      PROVE  stage'[m] = "done" /\ exitCode'[m] = 0
  <2>1. d \in Dispatches /\ d # m
    BY DEF Holding, Announced, Ended
  <2>2. \/ stage'[m] = stage[m]
        \/ stage'[m] \in Busy /\ stage[m] \in Busy
        \/ stage[m] = "waiting" /\ stage'[m] = "setup"
    BY <1>3, <2>1, SettleKeepsSlots
  <2>3. exitCode'[m] = 0
    BY <1>3, <2>1 DEF Settle
  <2> QED BY <2>2, <2>3 DEF Busy
<1>4. ASSUME NEW d \in Dispatches, Reject(d) \/ SkillsRootMissing(d) \/ RoutingFails(d)
      PROVE  stage'[m] = "done" /\ exitCode'[m] = 0
  BY <1>3, <1>4 DEF Reject, SkillsRootMissing, RoutingFails, Holding, Announced, Ended
<1>5. ASSUME NEW d \in Dispatches, NEW code \in {0, 1}, Finish(d, code)
      PROVE  stage'[m] = "done" /\ exitCode'[m] = 0
  BY <1>3, <1>5 DEF Finish, Holding, Announced, Ended
<1>6. ASSUME NEW d \in Dispatches, CutShort(d)
      PROVE  stage'[m] = "done" /\ exitCode'[m] = 0
  BY <1>3, <1>6 DEF CutShort, Timed, Holding, Announced, Ended
<1>7. CASE Abort \/ UNCHANGED vars
  BY <1>7 DEF Abort, vars
<1> QED BY <1>1, <1>2, <1>4, <1>5, <1>6, <1>7 DEF Next

LEMMA ChangingGrows ==
  ASSUME IInv, [Next]_vars, UNCHANGED <<clone, cloned>>, NEW f,
         Cardinality(Changing(f)) > 1
  PROVE  Cardinality(Changing(f)') > 1
<1>1. InBatch \subseteq Dispatches
  BY MembersAssumption DEF InBatch, ToSet
<1>2. Changing(f) \subseteq Changing(f)'
  BY <1>1, SuccessStays DEF Changing, Successful
<1>3. Changing(f) \subseteq Dispatches /\ Changing(f)' \subseteq Dispatches
  BY <1>1 DEF Changing, Successful
<1>4. /\ IsFiniteSet(Changing(f)') /\ Cardinality(Changing(f)') \in Nat
      /\ Cardinality(Changing(f)) \in Nat
  BY <1>3, DispatchesAssumption, FS_Subset, FS_CardinalityType
<1>5. Cardinality(Changing(f)) <= Cardinality(Changing(f)')
  BY <1>2, <1>4, FS_Subset
<1> QED BY <1>4, <1>5

\* A step that leaves the files alone.
LEMMA NoFilesKeepConflicts ==
  ASSUME IInv, ConflictInv, [Next]_vars, UNCHANGED <<phase, fileVars>>
  PROVE  ConflictInv'
<1> USE DEF fileVars
<1>1. ASSUME NEW f \in conflicts', f \notin touched'
      PROVE  Cardinality(Changing(f)') > 1
  <2>1. Cardinality(Changing(f)) > 1
    BY <1>1 DEF ConflictInv, ConflictsAreReal, Changing
  <2> QED BY <2>1, ChangingGrows
<1>2. ConflictsAreReal'
  BY <1>1 DEF ConflictsAreReal, Changing
<1> QED BY <1>2 DEF ConflictInv

LEMMA NextConflictInv ==
  ASSUME IInv, ConflictInv, [BatchNext]_parallelVars
  PROVE  ConflictInv'
<1>0. [Next]_vars
  BY StepMaps
<1> USE DEF fileVars
<1>1. CASE Start
  BY <1>1 DEF Start, ConflictInv, ConflictsAreReal
<1>2. CASE StartFails
  BY <1>2 DEF StartFails, ConflictInv, ConflictsAreReal
<1>3. ASSUME NEW f \in Files, EditOutside(f) PROVE ConflictInv'
  BY <1>3 DEF EditOutside, ConflictInv, ConflictsAreReal
<1>4. ASSUME NEW d \in Dispatches, NEW f \in Files, Edit(d, f) PROVE ConflictInv'
  BY <1>4 DEF Edit, ConflictInv, ConflictsAreReal
<1>5. CASE Merge
  <2>1. phase = "dispatching" /\ phase' \notin {"idle", "dispatching"}
    BY <1>5 DEF Merge
  <2>2. root' = [f \in Files |-> root'[f]]
    BY <1>5 DEF Merge, Applied, ConflictInv
  <2>3. conflicts' = Overlapping
    BY <1>5 DEF Merge
  <2>4. UNCHANGED <<stage, exitCode, clone, cloned, touched>>
    BY <1>5 DEF Merge, vars
  <2>5. ASSUME NEW f \in Overlapping, f \notin touched
        PROVE  Cardinality(Changing(f)') > 1
    <3>1. PICK m, n \in Successful : m # n /\ f \in Changed(m) \cap Changed(n)
      BY DEF Overlapping
    <3>2. root[f] = cloned[f]
      BY <2>1, <2>5 DEF Overlapping, ConflictInv
    <3>3. {m, n} \subseteq Changing(f)
      BY <3>1, <3>2 DEF Changing, Changed
    <3>4. Changing(f) \subseteq Dispatches
      BY MembersAssumption DEF Changing, Successful, InBatch, ToSet
    <3>5. Cardinality(Changing(f)) > 1
      BY <3>1, <3>3, <3>4, PairIsPlural
    <3>6. Changing(f)' = Changing(f)
      BY <2>4 DEF Changing, Successful
    <3> QED BY <3>5, <3>6
  <2>6. ConflictsAreReal'
    BY <2>3, <2>4, <2>5 DEF ConflictsAreReal, Changing
  <2> QED BY <2>1, <2>2, <2>6 DEF ConflictInv
<1>6. CASE BatchAbort
  BY <1>0, <1>6, NoFilesKeepConflicts DEF BatchAbort, batchVars
<1>7. ASSUME NEW m \in InBatch, Skip(m) \/ Enter(m) PROVE ConflictInv'
  BY <1>0, <1>7, NoFilesKeepConflicts DEF Skip, Enter
<1>8. ASSUME NEW d \in Dispatches,
             Proceed(d) \/ BatchSettle(d) \/ \E p \in Dispatches : BatchDelegate(p, d)
      PROVE  ConflictInv'
  BY <1>0, <1>8, NoFilesKeepConflicts DEF Proceed, BatchSettle, BatchDelegate, batchVars
<1>9. CASE UNCHANGED parallelVars
  BY <1>0, <1>9, NoFilesKeepConflicts DEF parallelVars, batchVars
<1> QED BY <1>1, <1>2, <1>3, <1>4, <1>5, <1>6, <1>7, <1>8, <1>9 DEF BatchNext

\* Whatever is reported as a conflict was changed by two members that succeeded,
\* or from outside after the copies were made.
THEOREM ConflictsHaveReasons == BatchSpec => []ConflictsAreReal
<1>1. BatchInit => ConflictInv
  BY DEF BatchInit, ConflictInv, ConflictsAreReal
<1>2. BatchSpec => []IInv
  BY SlotsAreImplemented, Invariance DEF ImplementsSlots
<1>3. IInv /\ ConflictInv /\ [BatchNext]_parallelVars => ConflictInv'
  BY NextConflictInv
<1>4. ConflictInv => ConflictsAreReal
  BY DEF ConflictInv
<1> QED BY <1>1, <1>2, <1>3, <1>4, PTL DEF BatchSpec
-----------------------------------------------------------------------------
(* The batch's own semaphore.                                              *)

Places == {"out", "queued", "admitted", "entered", "settled"}
Inside == {m \in InBatch : member[m] \in {"admitted", "entered"}}

\* A member is dispatched only inside, and its dispatch has ended when it leaves.
MembersAndStages ==
  \A m \in InBatch :
    /\ member[m] \in {"out", "queued", "admitted"} => stage[m] = "idle"
    /\ member[m] = "settled" => stage[m] \in Ended \cup {"idle"}

QueuedWait ==
  /\ queue \in Seq(InBatch) /\ IsInjective(queue)
  /\ ToSet(queue) = {m \in InBatch : member[m] = "queued"}

BatchInv ==
  /\ member \in [InBatch -> Places]
  /\ phase = "idle" => \A m \in InBatch : member[m] = "out"
  /\ QueuedWait
  /\ MembersAndStages
  /\ BatchWidthIsBounded

LEMMA InsideIsFinite ==
  /\ InBatch \subseteq Dispatches
  /\ IsFiniteSet(Inside) /\ Cardinality(Inside) \in Nat
<1>1. InBatch \subseteq Dispatches
  BY MembersAssumption DEF InBatch, ToSet
<1> QED BY <1>1, DispatchesAssumption, FS_Subset, FS_CardinalityType DEF Inside

\* Who leaves is replaced by at most one that was queued.
LEMMA ReleaseKeepsWidth ==
  ASSUME BatchInv, NEW m \in Inside, Release(m)
  PROVE  /\ member' \in [InBatch -> Places] /\ QueuedWait' /\ BatchWidthIsBounded'
         /\ member'[m] = "settled"
         /\ \A x \in InBatch : x # m =>
              \/ member'[x] = member[x]
              \/ member[x] = "queued" /\ member'[x] = "admitted"
<1> USE DEF BatchInv
<1>0. m \in InBatch /\ member[m] \in {"admitted", "entered"}
  BY DEF Inside
<1>1. /\ IsFiniteSet(Inside \ {m})
      /\ Cardinality(Inside \ {m}) = Cardinality(Inside) - 1
  BY InsideIsFinite, FS_RemoveElement
<1>2. Cardinality(Inside) <= Limit
  BY DEF BatchWidthIsBounded, Inside
<1>3. CASE queue = <<>>
  <2>1. member' = [member EXCEPT ![m] = "settled"] /\ queue' = queue
    BY <1>3 DEF Release
  <2>2. Inside' = Inside \ {m}
    BY <1>0, <2>1 DEF Inside, Places
  <2>3. Cardinality(Inside') <= Limit
    BY <1>1, <1>2, <2>2, InsideIsFinite, LimitAssumption
  <2>4. QueuedWait'
    BY <1>0, <2>1 DEF QueuedWait, Places
  <2> QED BY <1>0, <2>1, <2>3, <2>4 DEF BatchWidthIsBounded, Inside, Places
<1>4. CASE queue # <<>>
  <2> DEFINE h == Head(queue)
  <2>1. /\ member' = [member EXCEPT ![m] = "settled", ![h] = "admitted"]
        /\ queue' = Tail(queue)
    BY <1>4 DEF Release
  <2>2. /\ queue' \in Seq(InBatch) /\ IsInjective(queue')
        /\ h \in InBatch /\ ToSet(queue') = ToSet(queue) \ {h}
    BY <1>4, <2>1, TailElements DEF QueuedWait
  <2>3. h \in ToSet(queue)
    BY <1>4, HeadTailProperties DEF QueuedWait, ToSet
  <2>4. member[h] = "queued" /\ h # m
    BY <1>0, <2>3 DEF QueuedWait
  <2> HIDE DEF h
  <2>5. /\ member' \in [InBatch -> Places]
        /\ member'[m] = "settled" /\ member'[h] = "admitted"
        /\ \A x \in InBatch \ {m, h} : member'[x] = member[x]
    BY <1>0, <2>1, <2>2, <2>4 DEF Places
  <2>6. Inside' = (Inside \ {m}) \cup {h}
    BY <1>0, <2>2, <2>4, <2>5 DEF Inside
  <2>7. Cardinality(Inside') <= Limit
    <3>1. /\ Cardinality(Inside') <= Cardinality(Inside \ {m}) + 1
          /\ Cardinality(Inside') \in Nat
      <4>1. Cardinality(Inside \ {m}) \in Nat
        BY <1>1, FS_CardinalityType
      <4>2. Cardinality((Inside \ {m}) \cup {h}) =
              IF h \in Inside \ {m} THEN Cardinality(Inside \ {m})
                                   ELSE Cardinality(Inside \ {m}) + 1
        BY <1>1, FS_AddElement
      <4> QED BY <2>6, <4>1, <4>2
    <3> QED BY <1>1, <1>2, <3>1, InsideIsFinite, LimitAssumption
  <2>8. QueuedWait'
    BY <2>2, <2>4, <2>5, <1>0 DEF QueuedWait
  <2> QED BY <2>2, <2>4, <2>5, <2>7, <2>8 DEF BatchWidthIsBounded, Inside
<1> QED BY <1>3, <1>4

\* The first members, as many as there are tokens, enter; the others are queued.
LEMMA StartKeepsBatchInv ==
  ASSUME BatchInv, Start
  PROVE  BatchInv'
<1> DEFINE E == Entering
           first == SubSeq(Members, 1, E)
           rest  == SubSeq(Members, E + 1, Len(Members))
<1>1. /\ Members \in Seq(InBatch) /\ Len(Members) \in Nat
      /\ DOMAIN Members = 1 .. Len(Members)
      /\ \A i, j \in 1 .. Len(Members) : Members[i] = Members[j] => i = j
      /\ \A i \in 1 .. Len(Members) : Members[i] \in InBatch
      /\ InBatch = {Members[i] : i \in 1 .. Len(Members)}
  BY MembersAssumption DEF InBatch, ToSet, IsInjective
<1>2. E \in 0 .. Len(Members) /\ E <= Limit
  BY <1>1, LimitAssumption DEF Entering
<1> HIDE DEF E
<1>3. /\ first \in Seq(InBatch) /\ Len(first) = E
      /\ \A i \in 1 .. E : first[i] = Members[i]
  BY <1>1, <1>2, SubSeqProperties
<1>4. /\ rest \in Seq(InBatch) /\ Len(rest) = Len(Members) - E
      /\ \A i \in 1 .. Len(Members) - E : rest[i] = Members[E + i]
  <2>1. /\ E + 1 \in Int /\ Len(Members) \in Int
        /\ \A i \in E + 1 .. Len(Members) : Members[i] \in InBatch
    BY <1>1, <1>2
  <2>2. /\ rest \in Seq(InBatch)
        /\ Len(rest) = IF E + 1 <= Len(Members) THEN Len(Members) - (E + 1) + 1 ELSE 0
        /\ \A i \in 1 .. Len(Members) - (E + 1) + 1 : rest[i] = Members[E + 1 + i - 1]
    BY <2>1, SubSeqProperties
  <2> HIDE DEF rest
  <2>3. Len(rest) = Len(Members) - E
    <3> DEFINE n == Len(Members)
    <3>1. n \in Nat /\ E \in 0 .. n
      BY <1>1, <1>2
    <3>2. Len(rest) = IF E + 1 <= n THEN n - (E + 1) + 1 ELSE 0
      BY <2>2
    <3> HIDE DEF n
    <3>3. Len(rest) = n - E
      BY <3>1, <3>2
    <3> QED BY <3>3 DEF n
  <2>4. ASSUME NEW i \in 1 .. Len(Members) - E
        PROVE  rest[i] = Members[E + i]
    <3>1. i \in 1 .. Len(Members) - (E + 1) + 1 /\ E + 1 + i - 1 = E + i
      BY <1>1, <1>2
    <3>2. rest[i] = Members[E + 1 + i - 1]
      BY <2>2, <3>1
    <3> QED BY <3>1, <3>2
  <2> QED BY <2>2, <2>3, <2>4
<1> HIDE DEF first, rest
<1> DEFINE early == {Members[i] : i \in 1 .. E}
           late  == {Members[i] : i \in (E + 1) .. Len(Members)}
<1>5. ToSet(first) = early
  <2>1. DOMAIN first = 1 .. E
    BY <1>3
  <2> QED BY <1>3, <2>1 DEF ToSet
<1>6. ToSet(rest) = late
  <2>1. DOMAIN rest = 1 .. Len(Members) - E
    BY <1>4
  <2>2. ASSUME NEW i \in (E + 1) .. Len(Members) PROVE Members[i] \in ToSet(rest)
    <3>1. i - E \in 1 .. Len(Members) - E /\ E + (i - E) = i
      BY <1>1, <1>2
    <3> QED BY <1>4, <2>1, <3>1 DEF ToSet
  <2>3. ASSUME NEW i \in 1 .. Len(Members) - E PROVE rest[i] \in late
    <3>1. E + i \in (E + 1) .. Len(Members)
      BY <1>1, <1>2
    <3> QED BY <1>4, <3>1
  <2> QED BY <2>1, <2>2, <2>3 DEF ToSet
<1>7. IsInjective(rest)
  <2>1. DOMAIN rest = 1 .. Len(Members) - E
    BY <1>4
  <2> SUFFICES ASSUME NEW i \in 1 .. Len(Members) - E, NEW j \in 1 .. Len(Members) - E,
                      rest[i] = rest[j]
               PROVE  i = j
    BY <2>1 DEF IsInjective
  <2>2. Members[E + i] = Members[E + j]
    BY <1>4
  <2>3. E + i \in 1 .. Len(Members) /\ E + j \in 1 .. Len(Members)
    BY <1>1, <1>2
  <2>4. E + i = E + j
    BY <1>1, <2>2, <2>3
  <2> QED BY <1>2, <2>4
<1>8. early \cap late = {} /\ early \cup late = InBatch
  BY <1>1, <1>2
<1>9. /\ queue' = rest /\ phase' = "dispatching" /\ stage' = stage
      /\ member' = [m \in InBatch |-> IF m \in early THEN "admitted" ELSE "queued"]
  BY <1>5 DEF Start, vars, E, first, rest
<1>10. Cardinality(early) <= Limit
  <2> DEFINE f == [i \in 1 .. E |-> Members[i]]
  <2>1. f \in Surjection(1 .. E, early)
    BY DEF Surjection
  <2>2. IsFiniteSet(1 .. E) /\ Cardinality(1 .. E) = E
    BY <1>2, FS_Interval
  <2>3. IsFiniteSet(early) /\ Cardinality(early) <= Cardinality(1 .. E)
    BY <2>1, <2>2, FS_Surjection
  <2>4. Cardinality(early) \in Nat
    BY <2>3, FS_CardinalityType
  <2> QED BY <1>2, <2>2, <2>3, <2>4, LimitAssumption
<1> HIDE DEF early, late
<1>11. {m \in InBatch : member'[m] \in {"admitted", "entered"}} = early
  BY <1>8, <1>9
<1>12. {m \in InBatch : member'[m] = "queued"} = late
  BY <1>8, <1>9
<1>13. BatchWidthIsBounded'
  BY <1>10, <1>11 DEF BatchWidthIsBounded
<1>14. QueuedWait'
  BY <1>4, <1>6, <1>7, <1>9, <1>12 DEF QueuedWait
<1>15. \A m \in InBatch : stage[m] = "idle"
  BY DEF Start, BatchInv, MembersAndStages
<1>16. MembersAndStages'
  BY <1>9, <1>15 DEF MembersAndStages
<1> QED BY <1>9, <1>13, <1>14, <1>16 DEF BatchInv, Places
\* A member that ends makes room; other dispatches do not matter to the batch.
LEMMA BatchSettleKeepsBatchInv ==
  ASSUME IInv, BatchInv, NEW d \in Dispatches, BatchSettle(d)
  PROVE  BatchInv'
<1> USE DEF IInv, TypeOK
<1>1. PICK end \in Ended, code \in {0, 1} : d \in Holding /\ Settle(d, end, code)
  BY DEF BatchSettle, Reject, SkillsRootMissing, RoutingFails, Finish, CutShort, Timed, Holding,
         Announced, Ended
<1>2. /\ stage'[d] = end
      /\ \A x \in Dispatches : x # d /\ stage[x] \in Ended \cup {"idle"} =>
           stage'[x] = stage[x]
  BY <1>1, SettleKeepsSlots, ZenonT(30) DEF Busy, Ended
<1>3. CASE d \in InBatch
  <2>1. Release(d) /\ phase' = phase
    BY <1>3 DEF BatchSettle
  <2>2. stage[d] \notin Ended \cup {"idle"}
    BY <1>1 DEF Holding, Announced, Ended
  <2>3. d \in Inside /\ member[d] = "entered"
    BY <1>3, <2>2 DEF BatchInv, MembersAndStages, Places, Inside
  <2>4. /\ member' \in [InBatch -> Places] /\ QueuedWait' /\ BatchWidthIsBounded'
        /\ member'[d] = "settled"
        /\ \A x \in InBatch : x # d =>
             \/ member'[x] = member[x]
             \/ member[x] = "queued" /\ member'[x] = "admitted"
    BY <2>1, <2>3, ReleaseKeepsWidth
  <2>5. MembersAndStages'
    BY <1>1, <1>2, <2>4, InsideIsFinite DEF BatchInv, MembersAndStages
  <2>6. phase # "idle"
    BY <1>3, <2>3 DEF BatchInv
  <2> QED BY <2>1, <2>4, <2>5, <2>6 DEF BatchInv
<1>4. CASE d \notin InBatch
  <2>1. UNCHANGED <<phase, queue, member>>
    BY <1>4 DEF BatchSettle
  <2>2. MembersAndStages'
    BY <1>2, <1>4, <2>1, InsideIsFinite DEF BatchInv, MembersAndStages
  <2> QED BY <2>1, <2>2 DEF BatchInv, QueuedWait, BatchWidthIsBounded
<1> QED BY <1>3, <1>4

LEMMA NextBatchInv ==
  ASSUME IInv, BatchInv, [BatchNext]_parallelVars
  PROVE  BatchInv'
<1>0. [Next]_vars
  BY StepMaps
<1>1. CASE Start
  BY <1>1, StartKeepsBatchInv
<1>2. CASE StartFails
  BY <1>2 DEF StartFails, vars, BatchInv, QueuedWait, MembersAndStages, BatchWidthIsBounded
<1>3. CASE Merge
  <2>1. phase' # "idle" /\ UNCHANGED <<stage, queue, member>>
    BY <1>3 DEF Merge, vars
  <2> QED BY <2>1 DEF BatchInv, QueuedWait, MembersAndStages, BatchWidthIsBounded
<1>4. ASSUME NEW m \in InBatch, Skip(m) PROVE BatchInv'
  <2>1. m \in Inside /\ Release(m) /\ UNCHANGED <<stage, phase>> /\ member[m] = "admitted"
    BY <1>4 DEF Skip, Inside, vars
  <2>2. /\ member' \in [InBatch -> Places] /\ QueuedWait' /\ BatchWidthIsBounded'
        /\ member'[m] = "settled"
        /\ \A x \in InBatch : x # m =>
             \/ member'[x] = member[x]
             \/ member[x] = "queued" /\ member'[x] = "admitted"
    BY <2>1, ReleaseKeepsWidth
  <2>3. MembersAndStages'
    BY <2>1, <2>2 DEF BatchInv, MembersAndStages
  <2> QED BY <2>1, <2>2, <2>3 DEF BatchInv
<1>5. ASSUME NEW m \in InBatch, Enter(m) PROVE BatchInv'
  <2>1. /\ member[m] = "admitted" /\ member' = [member EXCEPT ![m] = "entered"]
        /\ Call(m) /\ UNCHANGED <<phase, queue>>
    BY <1>5 DEF Enter
  <2>2. \A x \in InBatch : x # m => stage'[x] = stage[x]
    BY <2>1, InsideIsFinite DEF Call, AcquireSubagentSlot, IInv, TypeOK
  <2>3. /\ member' \in [InBatch -> Places] /\ member'[m] = "entered"
        /\ \A x \in InBatch : x # m => member'[x] = member[x]
    BY <2>1 DEF BatchInv, Places
  <2>4. Inside' = Inside
    BY <2>1, <2>3 DEF Inside
  <2>5. QueuedWait'
    BY <2>1, <2>3 DEF BatchInv, QueuedWait
  <2>6. MembersAndStages'
    BY <2>2, <2>3 DEF BatchInv, MembersAndStages
  <2>7. BatchWidthIsBounded'
    BY <2>4 DEF BatchInv, BatchWidthIsBounded, Inside
  <2>8. phase # "idle"
    BY <2>1 DEF BatchInv
  <2> QED BY <2>1, <2>3, <2>5, <2>6, <2>7, <2>8 DEF BatchInv
<1>6. ASSUME NEW d \in Dispatches, BatchSettle(d) PROVE BatchInv'
  BY <1>6, BatchSettleKeepsBatchInv
<1>7. CASE \/ BatchAbort \/ UNCHANGED parallelVars
           \/ \E f \in Files : EditOutside(f)
           \/ \E d \in Dispatches, f \in Files : Edit(d, f)
  <2>1. UNCHANGED <<stage, batchVars>>
    BY <1>7 DEF BatchAbort, Abort, EditOutside, Edit, parallelVars, vars, batchVars
  <2> QED BY <2>1
        DEF batchVars, BatchInv, QueuedWait, MembersAndStages, BatchWidthIsBounded
<1>8. ASSUME NEW d \in Dispatches, Proceed(d) PROVE BatchInv'
  <2>1. stage[d] \notin Ended \cup {"idle"} /\ UNCHANGED batchVars
    BY <1>8 DEF Proceed, Announce, Prepare, Begin, Ended
  <2>2. \A x \in Dispatches : x # d => stage'[x] = stage[x]
    BY <1>8 DEF Proceed, Announce, Prepare, Begin, IInv, TypeOK
  <2>3. MembersAndStages'
    <3>1. ASSUME NEW m \in InBatch, stage[m] \in Ended \cup {"idle"}
          PROVE  stage'[m] = stage[m]
      BY <2>1, <2>2, <3>1, InsideIsFinite
    <3> QED BY <2>1, <3>1 DEF batchVars, BatchInv, MembersAndStages
  <2> QED BY <2>1, <2>3 DEF batchVars, BatchInv, QueuedWait, BatchWidthIsBounded
<1>9. ASSUME NEW d \in Dispatches, NEW p \in Dispatches, BatchDelegate(p, d)
      PROVE  BatchInv'
  <2>1. d \notin InBatch /\ Delegate(p, d) /\ UNCHANGED batchVars
    BY <1>9 DEF BatchDelegate
  <2>2. ASSUME NEW m \in InBatch, stage[m] \in Ended \cup {"idle"}
        PROVE  stage'[m] = stage[m]
    BY <2>1, <2>2, InsideIsFinite DEF Delegate, AcquireSubagentSlot, IInv, TypeOK, Ended
  <2>3. MembersAndStages'
    BY <2>1, <2>2 DEF batchVars, BatchInv, MembersAndStages
  <2> QED BY <2>1, <2>3 DEF batchVars, BatchInv, QueuedWait, BatchWidthIsBounded
<1> QED BY <1>1, <1>2, <1>3, <1>4, <1>5, <1>6, <1>7, <1>8, <1>9 DEF BatchNext

\* A batch never has more members under way than its own semaphore allows.
THEOREM BatchWidthHolds == BatchSpec => []BatchWidthIsBounded
<1>1. BatchInit => BatchInv
  <2> SUFFICES ASSUME BatchInit PROVE BatchInv
    OBVIOUS
  <2>1. /\ member = [m \in InBatch |-> "out"] /\ queue = <<>>
        /\ \A m \in InBatch : stage[m] = "idle"
    BY InsideIsFinite DEF BatchInit, Init
  <2>2. Inside = {} /\ Cardinality(Inside) = 0
    BY <2>1, FS_EmptySet DEF Inside
  <2>3. BatchWidthIsBounded
    BY <2>2, LimitAssumption DEF BatchWidthIsBounded, Inside
  <2>4. QueuedWait
    BY <2>1 DEF QueuedWait, ToSet, IsInjective
  <2> QED BY <2>1, <2>3, <2>4 DEF BatchInv, Places, MembersAndStages
<1>2. BatchSpec => []IInv
  BY SlotsAreImplemented, Invariance DEF ImplementsSlots
<1>3. IInv /\ BatchInv /\ [BatchNext]_parallelVars => BatchInv'
  BY NextBatchInv
<1>4. BatchInv => BatchWidthIsBounded
  BY DEF BatchInv
<1> QED BY <1>1, <1>2, <1>3, <1>4, PTL DEF BatchSpec
=============================================================================
