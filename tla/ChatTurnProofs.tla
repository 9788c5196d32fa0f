--------------------------- MODULE ChatTurnProofs ---------------------------
(***************************************************************************)
(* Proofs about ChatTurn, for any calls, limits and number of turns.       *)
(***************************************************************************)
EXTENDS ChatTurn, FiniteSetTheorems, SequenceTheorems, TLAPS

Busy == phase # "idle"

CallEnds(i) == FinishTool(i) \/ FinishDispatch(i) \/ FinishOtherDispatch(i)

\* What ends a call changes nothing else of the turn.
LEMMA CallEndsAlone ==
  ASSUME NEW i \in DOMAIN toolCalls, CallEnds(i)
  PROVE  /\ Ended(i)
         /\ UNCHANGED <<delegation, reported>> \/ ReportBatch
BY DEF CallEnds, FinishTool, FinishDispatch, FinishOtherDispatch

\* A call that throws ends the turn.
LEMMA ThrowEndsTurn ==
  ASSUME NEW i \in DOMAIN toolCalls, CallThrows(i)
  PROVE  /\ phase = "tools" /\ EndTurn("failed") /\ LeaveBatch
         /\ UNCHANGED <<delegation, reported>> \/ ReportBatch
         /\ UNCHANGED <<turn, loopVars, filesWritten, resumeVars, attempts, toolCallHistory,
                        trippedReason, hasInjectedReflection, inSynthesisTurn, told>>
BY DEF CallThrows

\* Every step is one of these.
LEMMA Steps ==
  ASSUME [Next]_vars
  PROVE  \/ BeginTurn
         \/ CutOff \/ AutoContinue \/ Answer \/ Fail
         \/ \E r \in {"context", "transient"} : Retry(r)
         \/ \E calls \in Batches : RefuseMixed(calls) \/ Trip(calls) \/ Execute(calls)
         \/ \E i \in DOMAIN toolCalls : CallEnds(i) \/ CallThrows(i)
         \/ FinishInBackground
         \/ Mitigate
         \/ UNCHANGED vars
BY DEF Next, Complete, FinishCall, CallEnds

\* Every mitigation goes on after the batch, but for the pause.
LEMMA Mitigations ==
  ASSUME Mitigate
  PROVE  \/ Pause
         \/ /\ GoOn(trippedReason) /\ told' = told
            /\ phase \in {"tools", "paused"}
         \/ /\ GoOn(TRUE) /\ Told(TRUE)
            /\ phase \in {"tools", "paused"}
BY DEF Mitigate, Unmitigated, Reflect, AbortTurn, Resume, ResumeAborts, BatchEnded

-----------------------------------------------------------------------------
(* The budget of iterations.                                               *)

\* The files that a turn has written are finite in number, and every extension
\* of its budget has had one of its own.
BudgetInv ==
  /\ loopCount \in Nat /\ maxLoops \in Nat /\ filesAtLastExtension \in Nat
  /\ filesWritten \subseteq Writing
  /\ Busy => loopCount < maxLoops
  /\ loopCount <= maxLoops /\ maxLoops <= Ceiling
  /\ filesAtLastExtension <= Cardinality(filesWritten)
  /\ maxLoops <= BaseLoops * (1 + filesAtLastExtension)

LEMMA WrittenIsFinite ==
  ASSUME NEW S, S \subseteq Writing
  PROVE  IsFiniteSet(S) /\ Cardinality(S) \in Nat
BY CallsAssumption, FS_Subset, FS_CardinalityType

\* An extension is a budget of its own for each file it takes into account.
LEMMA ExtensionIsEarned ==
  ASSUME NEW b \in Nat, NEW m \in Nat, NEW x \in Nat, NEW y \in Nat,
         m <= b * (1 + x), x < y
  PROVE  m + b <= b * (1 + y)
<1>1. PICK k \in Nat : y = x + 1 + k
  <2>1. y - x - 1 \in Nat /\ y = x + 1 + (y - x - 1)
    OBVIOUS
  <2> QED BY <2>1
<1>2. b * (1 + y) = b * (1 + x) + b + b * k
  BY <1>1
<1>3. b * k \in Nat /\ b * (1 + x) \in Nat
  OBVIOUS
<1> QED BY <1>2, <1>3

LEMMA IterateKeepsBudget ==
  ASSUME BudgetInv, Busy, Iterate, filesWritten' = filesWritten
  PROVE  BudgetInv'
<1> USE DEF BudgetInv
<1> DEFINE n == Cardinality(filesWritten)
<1>1. n \in Nat /\ BaseLoops \in Nat \ {0} /\ Ceiling \in Nat
  BY WrittenIsFinite, BoundsAssumption DEF Ceiling
<1>2. loopCount' = loopCount + 1 /\ loopCount' <= maxLoops
  BY DEF Iterate
<1>3. CASE ~ Extended(loopCount + 1)
  <2>1. maxLoops' = maxLoops /\ filesAtLastExtension' = filesAtLastExtension
    BY <1>3 DEF Iterate
  <2>2. phase' = "idle" \/ loopCount' < maxLoops'
    BY <1>3 DEF Iterate, EndTurn
  <2> QED BY <1>1, <1>2, <2>1, <2>2 DEF Busy, Ceiling
<1>4. CASE Extended(loopCount + 1)
  <2>1. filesAtLastExtension < n
    BY <1>4 DEF Extended
  <2>2. maxLoops + BaseLoops <= BaseLoops * (1 + n)
    BY <1>1, <2>1, ExtensionIsEarned
  <2>3. /\ filesAtLastExtension' = n
        /\ maxLoops' \in {maxLoops + BaseLoops, Ceiling}
        /\ maxLoops' <= maxLoops + BaseLoops
        /\ maxLoops' <= Ceiling /\ maxLoops <= maxLoops'
    BY <1>1, <1>4 DEF Iterate
  <2>4. phase' = "idle" \/ loopCount' < maxLoops'
    BY <1>4 DEF Iterate, EndTurn
  <2>5. maxLoops' \in Nat /\ BaseLoops * (1 + n) \in Nat
    BY <1>1, <2>3
  <2>6. maxLoops' <= BaseLoops * (1 + n)
    BY <1>1, <2>2, <2>3, <2>5
  <2>7. Cardinality(filesWritten)' = n /\ Ceiling' = Ceiling
    BY DEF Ceiling
  <2> QED BY <1>1, <1>2, <2>3, <2>4, <2>5, <2>6, <2>7 DEF Busy
<1> QED BY <1>3, <1>4

LEMMA NextKeepsBudget ==
  ASSUME BudgetInv, [Next]_vars
  PROVE  BudgetInv'
<1> USE DEF BudgetInv
<1>1. CASE BeginTurn
  <2>1. BaseLoops \in Nat \ {0} /\ Cardinality({}) = 0
    BY BoundsAssumption, FS_EmptySet
  <2> QED BY <1>1, <2>1 DEF BeginTurn, Ceiling, Busy
<1>2. CASE CutOff \/ AutoContinue
  BY <1>2, IterateKeepsBudget DEF CutOff, AutoContinue, Busy
<1>3. CASE Answer \/ Fail \/ \E i \in DOMAIN toolCalls : CallThrows(i)
  BY <1>3, ThrowEndsTurn DEF Answer, Fail, EndTurn, loopVars, Busy, Ceiling
<1>4. CASE \/ \E r \in {"context", "transient"} : Retry(r)
           \/ \E calls \in Batches : RefuseMixed(calls) \/ Trip(calls)
           \/ \E i \in DOMAIN toolCalls : CallEnds(i)
           \/ FinishInBackground
           \/ Pause
           \/ UNCHANGED vars
  <2>1. /\ UNCHANGED <<loopVars, filesWritten>>
        /\ Busy' => Busy
    BY <1>4, CallEndsAlone DEF Retry, RefuseMixed, Trip, Ended, FinishInBackground,
                               Pause, BatchEnded, vars, Busy
  <2> QED BY <2>1 DEF loopVars, Ceiling, Busy
<1>5. ASSUME NEW calls \in Batches, Execute(calls) PROVE BudgetInv'
  <2>1. /\ UNCHANGED loopVars /\ Busy
        /\ filesWritten \subseteq filesWritten'
        /\ filesWritten' \subseteq Writing
    BY <1>5 DEF Execute, Busy
  <2>2. /\ Cardinality(filesWritten) \in Nat /\ Cardinality(filesWritten') \in Nat
        /\ Cardinality(filesWritten) <= Cardinality(filesWritten')
    BY <2>1, WrittenIsFinite, FS_Subset
  <2> QED BY <2>1, <2>2 DEF loopVars, Ceiling, Busy
<1>6. ASSUME NEW tripped, GoOn(tripped), phase \in {"tools", "paused"} PROVE BudgetInv'
  <2>1. CASE Iterate
    BY <1>6, <2>1, IterateKeepsBudget DEF GoOn, Busy
  <2>2. CASE EndTurn("tripped") /\ UNCHANGED loopVars
    BY <1>6, <2>2 DEF GoOn, EndTurn, loopVars, Busy, Ceiling
  <2> QED BY <1>6, <2>1, <2>2 DEF GoOn
<1> QED BY <1>1, <1>2, <1>3, <1>4, <1>5, <1>6, Steps, Mitigations

LEMMA BudgetIsKept == Spec => []BudgetInv
<1>1. Init => BudgetInv
  <2>1. BaseLoops \in Nat \ {0} /\ Cardinality({}) = 0
    BY BoundsAssumption, FS_EmptySet
  <2> QED BY <2>1 DEF Init, BudgetInv, Busy, Ceiling
<1>2. BudgetInv /\ [Next]_vars => BudgetInv'
  BY NextKeepsBudget
<1> QED BY <1>1, <1>2, PTL DEF Spec

\* The budget of iterations grows only with the files that were written.
THEOREM ExtensionsAreEarned == Spec => []LoopsAreEarned
<1>1. BudgetInv => LoopsAreEarned
  <2> SUFFICES ASSUME BudgetInv PROVE LoopsAreEarned
    OBVIOUS
  <2>1. /\ Cardinality(filesWritten) \in Nat /\ BaseLoops \in Nat
        /\ filesAtLastExtension \in Nat /\ maxLoops \in Nat
        /\ filesAtLastExtension <= Cardinality(filesWritten)
        /\ maxLoops <= BaseLoops * (1 + filesAtLastExtension)
    BY WrittenIsFinite, BoundsAssumption DEF BudgetInv
  <2>2. maxLoops <= BaseLoops * (1 + Cardinality(filesWritten))
    <3>1. CASE filesAtLastExtension = Cardinality(filesWritten)
      BY <2>1, <3>1
    <3>2. CASE filesAtLastExtension < Cardinality(filesWritten)
      <4>1. maxLoops + BaseLoops <= BaseLoops * (1 + Cardinality(filesWritten))
        BY <2>1, <3>2, ExtensionIsEarned
      <4>2. BaseLoops * (1 + Cardinality(filesWritten)) \in Nat
        BY <2>1
      <4> QED BY <2>1, <4>1, <4>2
    <3> QED BY <2>1, <3>1, <3>2
  <2> QED BY <2>2 DEF BudgetInv, LoopsAreEarned
<1> QED BY <1>1, BudgetIsKept, PTL

-----------------------------------------------------------------------------
(* The synthesis of a delegation report.                                   *)

\* The next completion after a batch with a report is its synthesis.  Turns
\* count from 1, so a report that came between batches is of none.
SynthesisInv ==
  /\ turn \in Nat /\ reported \in Nat /\ reported <= turn
  /\ Busy => outcome = "none"
  /\ Busy \/ outcome # "none" => turn # 0
  /\ phase = "request" /\ reported = turn /\ delegation = "awaiting_synthesis"
       => inSynthesisTurn
  /\ ReportsAreSynthesized

\* An iteration does not end in an answer.
LEMMA IterateOutcome ==
  ASSUME Iterate
  PROVE  \/ phase' = "request" /\ outcome' = outcome
         \/ phase' = "idle" /\ outcome' = "exhausted"
BY DEF Iterate, EndTurn

LEMMA NextKeepsSynthesis ==
  ASSUME SynthesisInv, [Next]_vars
  PROVE  SynthesisInv'
<1> USE DEF SynthesisInv, ReportsAreSynthesized
<1>1. CASE BeginTurn
  BY <1>1 DEF BeginTurn, Busy
<1>2. CASE CutOff \/ AutoContinue
  BY <1>2, IterateOutcome DEF CutOff, AutoContinue, delegationVars, Busy
<1>3. CASE Answer
  BY <1>3 DEF Answer, EndTurn, SynthesisDone, Busy
<1>4. CASE Fail
  BY <1>4 DEF Fail, EndTurn, delegationVars, Busy
<1>5. CASE \E calls \in Batches : RefuseMixed(calls) \/ Trip(calls) \/ Execute(calls)
  BY <1>5 DEF RefuseMixed, Trip, Execute, delegationVars, Busy
<1>6. CASE \E i \in DOMAIN toolCalls : CallEnds(i)
  BY <1>6, CallEndsAlone DEF Ended, ReportBatch, Busy
<1>7. ASSUME NEW tripped, GoOn(tripped), phase \in {"tools", "paused"}
      PROVE  SynthesisInv'
  BY <1>7, IterateOutcome DEF GoOn, EndTurn, Busy
<1>8. CASE Pause \/ UNCHANGED vars \/ \E r \in {"context", "transient"} : Retry(r)
  BY <1>8 DEF Pause, BatchEnded, Retry, vars, delegationVars, Busy
<1>9. CASE FinishInBackground
  BY <1>9 DEF FinishInBackground, ReportBatch, Busy
<1>10. CASE \E i \in DOMAIN toolCalls : CallThrows(i)
  BY <1>10, ThrowEndsTurn DEF EndTurn, ReportBatch, Busy
<1> QED
  BY <1>1, <1>2, <1>3, <1>4, <1>5, <1>6, <1>7, <1>8, <1>9, <1>10, Steps, Mitigations

LEMMA SynthesisFollows == Spec => []SynthesisInv
<1>1. Init => SynthesisInv
  BY DEF Init, SynthesisInv, ReportsAreSynthesized, Busy
<1>2. SynthesisInv /\ [Next]_vars => SynthesisInv'
  BY NextKeepsSynthesis
<1> QED BY <1>1, <1>2, PTL DEF Spec

\* No turn answers the user and leaves a report aside that came in during one
\* of its batches.
THEOREM NoReportIsDropped == Spec => []ReportsAreSynthesized
BY SynthesisFollows, PTL DEF SynthesisInv

-----------------------------------------------------------------------------
(* Stopping.                                                               *)

\* A turn that goes on after it was told to stop does so for a synthesis, and
\* remembers that it was told.
ToldInv ==
  /\ told \in Nat
  /\ StopsWhenTold
  /\ told # NotTold /\ Busy => trippedReason
  /\ told # NotTold /\ phase = "request" => told = 1 /\ inSynthesisTurn

LEMMA NextKeepsTold ==
  ASSUME ToldInv, [Next]_vars
  PROVE  ToldInv'
<1> USE DEF ToldInv, StopsWhenTold, NotTold
<1>1. CASE BeginTurn
  BY <1>1 DEF BeginTurn
<1>2. CASE CutOff \/ AutoContinue
  BY <1>2, IterateOutcome DEF CutOff, AutoContinue, delegationVars, breakerVars, batchVars, Busy
<1>3. CASE Answer \/ Fail
  BY <1>3 DEF Answer, Fail, EndTurn, delegationVars, breakerVars, batchVars, Busy
<1>4. ASSUME NEW calls \in Batches, RefuseMixed(calls) PROVE ToldInv'
  BY <1>4 DEF RefuseMixed, Heed, delegationVars, breakerVars, Busy
<1>5. ASSUME NEW calls \in Batches, Trip(calls) PROVE ToldInv'
  BY <1>5 DEF Trip, Heed, delegationVars, Busy
<1>6. ASSUME NEW calls \in Batches, Execute(calls) PROVE ToldInv'
  <2>1. inSynthesisTurn => launched' \subseteq Reading \cup Subagents
    BY <1>6 DEF Execute, Blocked
  <2>2. /\ phase = "request" /\ phase' = "tools"
        /\ told' = IF told # 0 THEN told + 1 ELSE 0
        /\ UNCHANGED <<trippedReason, inSynthesisTurn>>
    BY <1>6 DEF Execute, Heed
  <2> QED BY <2>1, <2>2 DEF Busy
<1>7. CASE \E i \in DOMAIN toolCalls : CallEnds(i)
  BY <1>7, CallEndsAlone DEF Ended, Busy
<1>8. CASE GoOn(trippedReason) /\ told' = told /\ phase \in {"tools", "paused"}
  BY <1>8, IterateOutcome DEF GoOn, LeaveBatch, EndTurn, Busy
<1>9. CASE GoOn(TRUE) /\ Told(TRUE) /\ phase \in {"tools", "paused"}
  BY <1>9, IterateOutcome DEF GoOn, LeaveBatch, Told, EndTurn, Busy
<1>10. CASE \/ Pause \/ FinishInBackground \/ UNCHANGED vars
            \/ \E r \in {"context", "transient"} : Retry(r)
  BY <1>10 DEF Pause, BatchEnded, FinishInBackground, Retry, vars, delegationVars, breakerVars, batchVars, Busy
<1>11. CASE \E i \in DOMAIN toolCalls : CallThrows(i)
  BY <1>11, ThrowEndsTurn DEF LeaveBatch, EndTurn, Busy
<1> QED
  BY <1>1, <1>2, <1>3, <1>4, <1>5, <1>6, <1>7, <1>8, <1>9, <1>10, <1>11, Steps, Mitigations

LEMMA ToldIsKept == Spec => []ToldInv
<1>1. Init => ToldInv
  BY DEF Init, ToldInv, StopsWhenTold, NotTold
<1>2. ToldInv /\ [Next]_vars => ToldInv'
  BY NextKeepsTold
<1> QED BY <1>1, <1>2, PTL DEF Spec

\* A turn that was told to stop ends, with one more batch at most, which
\* writes nothing.
THEOREM TurnsStopWhenTold == Spec => []StopsWhenTold
BY ToldIsKept, PTL DEF ToldInv

-----------------------------------------------------------------------------
(* Types.                                                                  *)

Marks == {"running", "dispatched", "ended"}

\* The batches are sequences of calls, and so are the marks of their calls.
LEMMA BatchTypes ==
  ASSUME NEW calls \in Batches
  PROVE  /\ calls \in Seq(Calls)
         /\ DOMAIN calls = 1 .. Len(calls)
BY SeqDef, LenProperties DEF Batches

LEMMA MarksOfBatch ==
  ASSUME NEW calls \in Seq(Calls), NEW marks \in [DOMAIN calls -> Marks]
  PROVE  marks \in Seq(Marks) /\ Len(marks) = Len(calls)
<1>1. DOMAIN calls = 1 .. Len(calls) /\ Len(calls) \in Nat
  BY LenProperties
<1>2. marks \in Seq(Marks)
  BY <1>1, SeqDef
<1>3. DOMAIN marks = 1 .. Len(marks) /\ Len(marks) \in Nat /\ DOMAIN marks = 1 .. Len(calls)
  BY <1>1, <1>2, LenProperties
<1> QED BY <1>1, <1>2, <1>3

\* The breaker's history keeps to its bound.
LEMMA KeptIsBounded ==
  ASSUME NEW calls \in Seq(Calls)
  PROVE  Kept(calls) \in Seq(Calls) /\ Len(Kept(calls)) <= MaxHistory
<1> DEFINE first == IF Len(calls) > MaxHistory THEN Len(calls) - MaxHistory + 1 ELSE 1
<1>1. /\ Len(calls) \in Nat /\ MaxHistory \in Nat \ {0}
      /\ \A i \in 1 .. Len(calls) : calls[i] \in Calls
  BY LenProperties, ElementOfSeq, BoundsAssumption
<1>2. /\ first \in Nat \ {0} /\ Len(calls) - first + 1 <= MaxHistory
  BY <1>1
<1> HIDE DEF first
<1>3. /\ SubSeq(calls, first, Len(calls)) \in Seq(Calls)
      /\ Len(SubSeq(calls, first, Len(calls))) =
           IF first <= Len(calls) THEN Len(calls) - first + 1 ELSE 0
  BY <1>1, <1>2, SubSeqProperties
<1>4. Kept(calls) = SubSeq(calls, first, Len(calls))
  BY DEF Kept, first
<1> QED BY <1>1, <1>2, <1>3, <1>4

LEMMA FreshAttempts ==
  [context |-> 0, transient |-> 0] \in [{"context", "transient"} -> 0 .. MaxAttempts]
<1>1. [context |-> 0, transient |-> 0]
        \in [context : 0 .. MaxAttempts, transient : 0 .. MaxAttempts]
  BY BoundsAssumption
<1> QED BY <1>1

LEMMA IterateTypes ==
  ASSUME TypeOK, Iterate
  PROVE  /\ phase' \in {"idle", "request"}
         /\ outcome' \in {"none", "answered", "tripped", "exhausted", "failed"}
         /\ attempts' \in [{"context", "transient"} -> 0 .. MaxAttempts]
BY FreshAttempts, IterateOutcome DEF Iterate, TypeOK

\* A call that throws leaves finitely many dispatches behind.
LEMMA BackgroundIsCounted ==
  ASSUME TypeOK, [Next]_vars
  PROVE  background' \in Nat
<1> USE DEF TypeOK
<1>1. CASE \E i \in DOMAIN toolCalls : CallThrows(i)
  <2>1. PICK i \in DOMAIN toolCalls : CallThrows(i)
    BY <1>1
  <2> DEFINE left == {j \in DOMAIN status : j # i /\ status[j] = "dispatched"}
  <2>2. DOMAIN status = 1 .. Len(status) /\ Len(status) \in Nat
    BY LenProperties
  <2>3. IsFiniteSet(1 .. Len(status))
    BY <2>2, FS_Interval
  <2>4. Cardinality(left) \in Nat
    BY <2>2, <2>3, FS_Subset, FS_CardinalityType
  <2> QED BY <2>1, <2>4 DEF CallThrows
<1>2. CASE FinishInBackground
  BY <1>2 DEF FinishInBackground
<1>3. CASE \E i \in DOMAIN toolCalls : CallEnds(i)
  BY <1>3 DEF CallEnds, FinishTool, FinishDispatch, FinishOtherDispatch
<1>4. CASE \/ BeginTurn \/ CutOff \/ AutoContinue \/ Answer \/ Fail
           \/ \E r \in {"context", "transient"} : Retry(r)
           \/ \E calls \in Batches : RefuseMixed(calls) \/ Trip(calls) \/ Execute(calls)
           \/ Pause \/ UNCHANGED vars
  BY <1>4 DEF BeginTurn, CutOff, AutoContinue, Answer, Fail, Retry, RefuseMixed, Trip,
              Execute, Pause, delegationVars, vars
<1>5. ASSUME NEW tripped, GoOn(tripped) PROVE background' \in Nat
  BY <1>5 DEF GoOn
<1> QED BY <1>1, <1>2, <1>3, <1>4, <1>5, Steps, Mitigations

LEMMA NextKeepsTypes ==
  ASSUME TypeOK, BudgetInv', SynthesisInv', ToldInv', [Next]_vars
  PROVE  TypeOK'
<1>0. background' \in Nat
  BY BackgroundIsCounted
<1> USE DEF TypeOK
<1>1. /\ background' \in Nat /\ turn' \in Nat /\ reported' \in Nat /\ told' \in Nat
      /\ loopCount' \in Nat /\ maxLoops' \in Nat /\ filesAtLastExtension' \in Nat
      /\ filesWritten' \subseteq Writing
      /\ 0 \in 0 .. MaxAutoContinue /\ 0 \in 0 .. MaxTotalAutoContinue
  BY <1>0, BoundsAssumption DEF BudgetInv, SynthesisInv, ToldInv
<1>2. CASE BeginTurn
  <2>1. /\ <<>> \in Seq(Calls) /\ <<>> \in Seq(Marks) /\ Len(<<>>) = 0
        /\ 0 <= MaxHistory
    BY EmptySeq, BoundsAssumption
  <2> QED BY <1>1, <1>2, <2>1, FreshAttempts DEF BeginTurn, Marks
<1>3. CASE CutOff \/ AutoContinue
  <2>1. /\ autoContinueCount' \in 0 .. MaxAutoContinue
        /\ totalAutoContinueCount' \in 0 .. MaxTotalAutoContinue
    <3>1. MaxAutoContinue \in Nat /\ MaxTotalAutoContinue \in Nat
      BY BoundsAssumption
    <3>2. CASE CutOff
      BY <3>2 DEF CutOff, resumeVars
    <3>3. CASE AutoContinue
      BY <3>1, <3>3 DEF AutoContinue
    <3> QED BY <1>3, <3>2, <3>3
  <2> QED
    BY <1>1, <1>3, <2>1, IterateTypes DEF CutOff, AutoContinue, breakerVars, delegationVars, batchVars
<1>4. CASE Answer \/ Fail
  BY <1>1, <1>4 DEF Answer, Fail, EndTurn, SynthesisDone, resumeVars, breakerVars,
                    delegationVars, batchVars
<1>5. CASE \E r \in {"context", "transient"} : Retry(r)
  <2>1. PICK r \in {"context", "transient"} : Retry(r)
    BY <1>5
  <2>2. attempts[r] + 1 \in 0 .. MaxAttempts
    <3>1. attempts[r] \in 0 .. MaxAttempts /\ MaxAttempts \in Nat
      BY <1>1, BoundsAssumption
    <3>2. attempts[r] < MaxAttempts
      BY <2>1 DEF Retry
    <3> QED BY <3>1, <3>2
  <2>3. attempts' \in [{"context", "transient"} -> 0 .. MaxAttempts]
    BY <2>1, <2>2 DEF Retry
  <2> QED
    BY <1>1, <2>1, <2>3 DEF Retry, resumeVars, breakerVars, delegationVars, batchVars
<1>6. ASSUME NEW calls \in Batches, RefuseMixed(calls) \/ Trip(calls) \/ Execute(calls)
      PROVE  TypeOK'
  <2>1. calls \in Seq(Calls) /\ toolCallHistory \o calls \in Seq(Calls)
    BY BatchTypes, ConcatProperties
  <2>2. /\ toolCalls' = calls
        /\ status' \in [DOMAIN calls -> Marks]
        /\ launched' \subseteq Calls
    <3>1. ToSet(calls) \subseteq Calls
      BY <2>1, BatchTypes, ElementOfSeq DEF ToSet
    <3> QED BY <1>6, <3>1 DEF RefuseMixed, Trip, Execute, Marks
  <2>3. status' \in Seq(Marks) /\ Len(status') = Len(toolCalls')
    BY <2>1, <2>2, MarksOfBatch
  <2>4. toolCallHistory' \in Seq(Calls) /\ Len(toolCallHistory') <= MaxHistory
    BY <1>6, <2>1, KeptIsBounded DEF RefuseMixed, Trip, Execute, breakerVars
  <2>5. /\ phase' = "tools" /\ UNCHANGED <<outcome, attempts, autoContinueCount, totalAutoContinueCount>>
        /\ consecutiveFailures' = consecutiveFailures
        /\ hasInjectedReflection' = hasInjectedReflection /\ inSynthesisTurn' = inSynthesisTurn
        /\ trippedReason' \in {trippedReason, TRUE}
        /\ delegation' \in {delegation, "executing_batch"}
    BY <1>6 DEF RefuseMixed, Trip, Execute, breakerVars, delegationVars, resumeVars
  <2> QED BY <1>1, <2>1, <2>2, <2>3, <2>4, <2>5 DEF Marks
<1>7. ASSUME NEW i \in DOMAIN toolCalls, CallEnds(i) PROVE TypeOK'
  <2>1. /\ status' \in Seq(Marks) /\ Len(status') = Len(status)
    <3>1. i \in 1 .. Len(status) /\ status \in Seq(Marks)
      BY LenProperties DEF Marks
    <3>2. status' = [status EXCEPT ![i] = "ended"]
      BY <1>7, CallEndsAlone DEF Ended
    <3> QED BY <3>1, <3>2, ExceptSeq DEF Marks
  <2>2. consecutiveFailures' \in Nat
    BY <1>7 DEF CallEnds, FinishTool, FinishDispatch, FinishOtherDispatch
  <2>3. delegation' \in {delegation, "awaiting_synthesis"}
    BY <1>7, CallEndsAlone DEF ReportBatch
  <2>4. UNCHANGED <<phase, outcome, resumeVars, attempts, toolCallHistory, trippedReason,
                    hasInjectedReflection, inSynthesisTurn, toolCalls, launched>>
    BY <1>7, CallEndsAlone DEF Ended
  <2> QED BY <1>1, <2>1, <2>2, <2>3, <2>4 DEF resumeVars, Marks
<1>8. ASSUME NEW tripped \in BOOLEAN, GoOn(tripped), hasInjectedReflection' \in BOOLEAN
      PROVE  TypeOK'
  <2>1. /\ <<>> \in Seq(Calls) /\ <<>> \in Seq(Marks) /\ Len(<<>>) = 0
        /\ toolCalls' = <<>> /\ status' = <<>> /\ launched' = {}
        /\ UNCHANGED <<toolCallHistory, consecutiveFailures, delegation>>
    BY <1>8, EmptySeq DEF GoOn, LeaveBatch
  <2>2. /\ phase' \in {"idle", "request"}
        /\ outcome' \in {"none", "answered", "tripped", "exhausted", "failed"}
        /\ attempts' \in [{"context", "transient"} -> 0 .. MaxAttempts]
    BY <1>8, IterateTypes DEF GoOn, EndTurn
  <2>3. /\ autoContinueCount' \in 0 .. MaxAutoContinue
        /\ totalAutoContinueCount' \in 0 .. MaxTotalAutoContinue
    BY <1>1, <1>8 DEF GoOn, resumeVars
  <2>4. trippedReason' \in BOOLEAN /\ inSynthesisTurn' \in BOOLEAN
    BY <1>8 DEF GoOn
  <2> QED BY <1>1, <1>8, <2>1, <2>2, <2>3, <2>4 DEF Marks
<1>9. CASE Mitigate
  <2>1. hasInjectedReflection' \in BOOLEAN
    BY <1>9 DEF Mitigate, Unmitigated, Reflect, AbortTurn, Pause, Resume, ResumeAborts
  <2>2. CASE Pause
    BY <1>1, <2>1, <2>2 DEF Pause, resumeVars, delegationVars, batchVars
  <2> QED BY <1>8, <1>9, <2>1, <2>2, Mitigations
<1>10. CASE UNCHANGED vars
  BY <1>1, <1>10 DEF vars, resumeVars, breakerVars, delegationVars, batchVars
<1>11. ASSUME NEW i \in DOMAIN toolCalls, CallThrows(i) PROVE TypeOK'
  <2>1. /\ <<>> \in Seq(Calls) /\ <<>> \in Seq(Marks) /\ Len(<<>>) = 0
        /\ toolCalls' = <<>> /\ status' = <<>> /\ launched' = {}
    BY <1>11, EmptySeq DEF CallThrows, LeaveBatch
  <2>2. /\ phase' = "idle" /\ outcome' = "failed"
        /\ consecutiveFailures' \in Nat
        /\ delegation' \in {delegation, "awaiting_synthesis"}
    BY <1>11 DEF CallThrows, EndTurn, ReportBatch
  <2>3. UNCHANGED <<resumeVars, attempts, toolCallHistory, trippedReason,
                    hasInjectedReflection, inSynthesisTurn>>
    BY <1>11 DEF CallThrows
  <2> QED BY <1>1, <2>1, <2>2, <2>3 DEF resumeVars, Marks
<1>12. CASE FinishInBackground
  <2>1. delegation' \in {delegation, "awaiting_synthesis"}
    BY <1>12 DEF FinishInBackground, ReportBatch
  <2> QED BY <1>1, <1>12, <2>1 DEF FinishInBackground, resumeVars, breakerVars, batchVars
<1> QED BY <1>2, <1>3, <1>4, <1>5, <1>6, <1>7, <1>9, <1>10, <1>11, <1>12, Steps

\* Every variable of a turn keeps its type, whatever the model asks for.
THEOREM TypeCorrect == Spec => []TypeOK
<1>1. Init => TypeOK
  <2> SUFFICES ASSUME Init PROVE TypeOK
    OBVIOUS
  <2>1. /\ <<>> \in Seq(Calls) /\ <<>> \in Seq(Marks) /\ Len(<<>>) = 0
        /\ 0 <= MaxHistory /\ BaseLoops \in Nat
        /\ 0 \in 0 .. MaxAutoContinue /\ 0 \in 0 .. MaxTotalAutoContinue
    BY EmptySeq, BoundsAssumption
  <2>2. attempts \in [{"context", "transient"} -> 0 .. MaxAttempts]
    BY FreshAttempts DEF Init
  <2>3. {trippedReason, hasInjectedReflection, inSynthesisTurn} \subseteq BOOLEAN
    BY DEF Init
  <2>4. /\ toolCallHistory \in Seq(Calls) /\ Len(toolCallHistory) <= MaxHistory
        /\ toolCalls \in Seq(Calls) /\ status \in Seq(Marks)
        /\ Len(status) = Len(toolCalls) /\ launched \subseteq Calls
    BY <2>1 DEF Init
  <2>5. /\ turn \in Nat /\ background \in Nat /\ reported \in Nat /\ told \in Nat
        /\ loopCount \in Nat /\ maxLoops \in Nat /\ filesAtLastExtension \in Nat
        /\ filesWritten \subseteq Writing /\ consecutiveFailures \in Nat
        /\ autoContinueCount \in 0 .. MaxAutoContinue
        /\ totalAutoContinueCount \in 0 .. MaxTotalAutoContinue
        /\ phase = "idle" /\ outcome = "none" /\ delegation = "idle"
    BY <2>1 DEF Init, NotTold
  <2> QED BY <2>2, <2>3, <2>4, <2>5 DEF TypeOK, Marks
<1>2. TypeOK /\ BudgetInv' /\ SynthesisInv' /\ ToldInv' /\ [Next]_vars => TypeOK'
  BY NextKeepsTypes
<1> QED BY <1>1, <1>2, BudgetIsKept, SynthesisFollows, ToldIsKept, PTL DEF Spec

=============================================================================
