------------------------------ MODULE ChatTurn ------------------------------
(***************************************************************************)
(* Turns of a chat session: completions of the model, the batches of tool  *)
(* calls that they ask for, the circuit breaker and the loop mitigation    *)
(* that stop a turn which only fails or repeats itself, the budget of      *)
(* iterations, and the forced synthesis after a parallel dispatch          *)
(* (packages/core/src/chat/stream.ts, turn-loop.ts, circuit-breaker.ts,    *)
(* loop-mitigation.ts, delegation-cycle.ts; executeTool of                 *)
(* skill/tool-harness.ts).                                                 *)
(*                                                                         *)
(* The flags are those of the hardened profile: the breaker belongs to the *)
(* turn, synthesis is forced, both kinds of auto-continuation are on.  A   *)
(* call is a name with its arguments; a writing call stands for its file.  *)
(***************************************************************************)
EXTENDS Naturals, Sequences, FiniteSets, SequencesExt

CONSTANTS
  Reading, Writing, Subagents, Parallel,  \* the calls, by their tool
  Threshold,           \* circuitBreakerThreshold: 6
  ReflectAt, PauseAt,  \* consecutive failures: 3 and 5
  BaseLoops,           \* resolveMaxLoops: 25, or 3
  MaxAutoContinue, MaxTotalAutoContinue,  \* 3 and 8
  MaxAttempts,         \* retries of a completion: 3, for each of two reasons
  MaxHistory,          \* MAX_HISTORY: 50
  MaxBatch, MaxTurns   \* bounds: calls of a completion, turns of the session

Calls == Reading \cup Writing \cup Subagents \cup Parallel

ASSUME BoundsAssumption ==
  /\ {Threshold, ReflectAt, PauseAt, BaseLoops, MaxHistory} \subseteq Nat \ {0}
  /\ {MaxAutoContinue, MaxTotalAutoContinue, MaxAttempts, MaxBatch, MaxTurns}
       \subseteq Nat
ASSUME CallsAssumption ==
  /\ IsFiniteSet(Writing)
  /\ \A s, t \in {Reading, Writing, Subagents, Parallel} : s = t \/ s \cap t = {}

VARIABLES
  turn, phase, outcome,     \* turns begun; where the turn is; how the last one ended
  loopCount, maxLoops, filesAtLastExtension,
  filesWritten,
  autoContinueCount, totalAutoContinueCount,
  attempts,                 \* retries of this completion, for each reason
  toolCallHistory, consecutiveFailures, trippedReason,  \* of the breaker
  hasInjectedReflection,
  inSynthesisTurn,
  delegation,               \* the session's DelegationPhase, across turns
  toolCalls, status,        \* the batch, and where each call of it is
  background,               \* dispatches under way whose call nobody awaits any more
  told,                     \* history: batches run after the turn was told to stop
  reported,                 \* history: the turn in whose batch the delegation report
                            \* came in, or 0 if it came between batches
  launched                  \* history: calls of this batch that took effect

loopVars    == <<loopCount, maxLoops, filesAtLastExtension>>
resumeVars  == <<autoContinueCount, totalAutoContinueCount>>
breakerVars == <<toolCallHistory, consecutiveFailures, trippedReason, hasInjectedReflection>>
delegationVars == <<inSynthesisTurn, delegation, background, reported>>
batchVars   == <<toolCalls, status, launched>>
vars == <<turn, phase, outcome, loopVars, filesWritten, resumeVars, attempts,
          breakerVars, delegationVars, batchVars, told>>

NotTold == 0  \* told counts from 1

Init ==
  /\ turn = 0 /\ phase = "idle" /\ outcome = "none"
  /\ loopCount = 0 /\ maxLoops = BaseLoops /\ filesAtLastExtension = 0
  /\ filesWritten = {}
  /\ autoContinueCount = 0 /\ totalAutoContinueCount = 0
  /\ attempts = [context |-> 0, transient |-> 0]
  /\ toolCallHistory = <<>> /\ consecutiveFailures = 0
  /\ trippedReason = FALSE /\ hasInjectedReflection = FALSE
  /\ inSynthesisTurn = FALSE /\ delegation = "idle" /\ background = 0 /\ reported = 0
  /\ toolCalls = <<>> /\ status = <<>> /\ launched = {}
  /\ told = NotTold

\* All but the delegation cycle, and what still runs for it, is the turn's own.
BeginTurn ==
  /\ phase = "idle" /\ turn < MaxTurns
  /\ turn' = turn + 1 /\ phase' = "request" /\ outcome' = "none"
  /\ loopCount' = 0 /\ maxLoops' = BaseLoops /\ filesAtLastExtension' = 0
  /\ filesWritten' = {}
  /\ autoContinueCount' = 0 /\ totalAutoContinueCount' = 0
  /\ attempts' = [context |-> 0, transient |-> 0]
  /\ toolCallHistory' = <<>> /\ consecutiveFailures' = 0
  /\ trippedReason' = FALSE /\ hasInjectedReflection' = FALSE
  /\ inSynthesisTurn' = FALSE /\ toolCalls' = <<>> /\ status' = <<>> /\ launched' = {}
  /\ told' = NotTold
  /\ UNCHANGED <<delegation, background, reported>>

EndTurn(how) == phase' = "idle" /\ outcome' = how

-----------------------------------------------------------------------------
(* The budget of iterations.                                               *)

Ceiling == 4 * BaseLoops

\* Faulty variant: the files of the last extension are not remembered.
ExtendedAgain(count) ==
  /\ count >= maxLoops /\ count < Ceiling
  /\ filesWritten # {}

\* extendLoopBudgetIfProgressing.
Extended(count) ==
  /\ count >= maxLoops /\ count < Ceiling
  /\ Cardinality(filesWritten) > filesAtLastExtension

\* loopCount++, and the test of the loop.
Iterate ==
  LET count == loopCount + 1
      limit == IF ~Extended(count) THEN maxLoops
               ELSE IF maxLoops + BaseLoops < Ceiling THEN maxLoops + BaseLoops
               ELSE Ceiling
  IN /\ loopCount' = count /\ maxLoops' = limit
     /\ filesAtLastExtension' =
          IF Extended(count) THEN Cardinality(filesWritten) ELSE filesAtLastExtension
     /\ attempts' = [context |-> 0, transient |-> 0]
     /\ IF count < limit THEN phase' = "request" /\ UNCHANGED outcome
                         ELSE EndTurn("exhausted")

-----------------------------------------------------------------------------
(* Completions.                                                            *)

\* An error that a shorter history, or waiting, may cure.
Retry(reason) ==
  /\ phase = "request" /\ attempts[reason] < MaxAttempts
  /\ attempts' = [attempts EXCEPT ![reason] = @ + 1]
  /\ UNCHANGED <<turn, phase, outcome, loopVars, filesWritten, resumeVars,
                 breakerVars, delegationVars, batchVars, told>>

\* Any other error, the abort of the user included, ends the turn.
Fail ==
  /\ phase = "request"
  /\ EndTurn("failed")
  /\ UNCHANGED <<turn, loopVars, filesWritten, resumeVars, attempts, breakerVars,
                 delegationVars, batchVars, told>>

\* Faulty variant: a continuation of a cut-off completion is not counted.
CutOffUncounted ==
  /\ phase = "request"
  /\ attempts' = [context |-> 0, transient |-> 0]
  /\ UNCHANGED <<turn, phase, outcome, loopVars, filesWritten, resumeVars,
                 breakerVars, delegationVars, batchVars, told>>

\* A completion without calls that was cut off at its token limit.
CutOff ==
  /\ phase = "request"
  /\ Iterate
  /\ UNCHANGED <<turn, filesWritten, resumeVars, breakerVars, delegationVars, batchVars, told>>

\* A completion without calls that looks unfinished.
AutoContinue ==
  /\ phase = "request"
  /\ autoContinueCount < MaxAutoContinue
  /\ totalAutoContinueCount < MaxTotalAutoContinue
  /\ autoContinueCount' = autoContinueCount + 1
  /\ totalAutoContinueCount' = totalAutoContinueCount + 1
  /\ Iterate
  /\ UNCHANGED <<turn, filesWritten, breakerVars, delegationVars, batchVars, told>>

\* Faulty variant: the synthesis is not marked complete.
SynthesisLeft == delegation

SynthesisDone == IF inSynthesisTurn THEN "complete" ELSE delegation

Answer ==
  /\ phase = "request"
  /\ EndTurn("answered")
  /\ delegation' = SynthesisDone
  /\ inSynthesisTurn' = FALSE
  /\ UNCHANGED <<turn, loopVars, filesWritten, resumeVars, attempts, breakerVars,
                 background, reported, batchVars, told>>

-----------------------------------------------------------------------------
(* A batch of tool calls.                                                  *)

\* How often c was called before the last of the calls, without a break.
Repeats(c, calls) ==
  LET n == Len(calls) IN
  Cardinality({i \in 1 .. n - 1 : \A j \in i .. n - 1 : calls[j] = c})

Kept(calls) == SubSeq(calls, IF Len(calls) > MaxHistory THEN Len(calls) - MaxHistory + 1 ELSE 1,
                      Len(calls))

Repeating(calls) == Repeats(Last(calls), toolCallHistory \o calls) >= Threshold
Failing == consecutiveFailures >= Threshold

Mixed(calls) == \E i, j \in DOMAIN calls : calls[i] \in Parallel /\ calls[j] \notin Parallel

\* told: the turn was told to stop before, and goes on.
Heed(stop) ==
  told' = IF told # NotTold THEN told + 1 ELSE IF stop THEN 1 ELSE NotTold

\* dispatch_parallel with other calls: every call is answered with an error.
RefuseMixed(calls) ==
  /\ phase = "request" /\ Mixed(calls)
  /\ phase' = "tools" /\ toolCalls' = calls
  /\ status' = [i \in DOMAIN calls |-> "ended"] /\ launched' = {}
  /\ Heed(FALSE)
  /\ UNCHANGED <<turn, outcome, loopVars, filesWritten, resumeVars, attempts,
                 breakerVars, delegationVars>>

\* Faulty variant: the calls are blocked, but the turn is not told so.
TripUnlatched(calls) ==
  /\ phase = "request" /\ ~Mixed(calls)
  /\ Repeating(calls) \/ Failing
  /\ toolCallHistory' = IF Repeating(calls) THEN toolCallHistory
                        ELSE Kept(toolCallHistory \o calls)
  /\ phase' = "tools" /\ toolCalls' = calls
  /\ status' = [i \in DOMAIN calls |-> "ended"] /\ launched' = {}
  /\ Heed(TRUE)
  /\ UNCHANGED <<turn, outcome, loopVars, filesWritten, resumeVars, attempts,
                 consecutiveFailures, trippedReason, hasInjectedReflection, delegationVars>>

\* The breaker blocks every call of the batch.
Trip(calls) ==
  /\ phase = "request" /\ ~Mixed(calls)
  /\ Repeating(calls) \/ Failing
  /\ trippedReason' = TRUE
  /\ toolCallHistory' = IF Repeating(calls) THEN toolCallHistory
                        ELSE Kept(toolCallHistory \o calls)
  /\ phase' = "tools" /\ toolCalls' = calls
  /\ status' = [i \in DOMAIN calls |-> "ended"] /\ launched' = {}
  /\ Heed(TRUE)
  /\ UNCHANGED <<turn, outcome, loopVars, filesWritten, resumeVars, attempts,
                 consecutiveFailures, hasInjectedReflection, delegationVars>>

Blocked(c) == inSynthesisTurn /\ c \notin Reading

\* A third identical call is answered with an error at once.
Redundant(c, calls) ==
  LET n == Repeats(c, calls) IN n >= 2 /\ n < Threshold - 1

\* The first dispatch_parallel of a batch is awaited, however long it takes; any
\* other one is a tool call like the rest, with the time limit of its category.
Awaited(i, calls) == \A j \in 1 .. i - 1 : calls[j] \notin Parallel

MayDispatch(i, calls) ==
  /\ calls[i] \in Parallel /\ ~Blocked(calls[i])
  /\ Awaited(i, calls) \/ ~Redundant(calls[i], Kept(toolCallHistory \o calls))

\* All calls start at once.  Subagents have been dispatched before a call is
\* blocked, and a path counts as written when it is asked for.  A parallel
\* dispatch starts a batch of the session, if its tasks can be parsed.
Execute(calls) ==
  /\ phase = "request" /\ ~Mixed(calls)
  /\ ~Repeating(calls) /\ ~Failing
  /\ toolCallHistory' = Kept(toolCallHistory \o calls)
  /\ filesWritten' = filesWritten \cup (ToSet(calls) \cap Writing)
  /\ phase' = "tools" /\ toolCalls' = calls
  /\ \E parsed \in SUBSET {i \in DOMAIN calls : MayDispatch(i, calls)} :
       /\ status' = [i \in DOMAIN calls |-> IF Blocked(calls[i]) THEN "ended"
                                            ELSE IF i \in parsed THEN "dispatched"
                                            ELSE "running"]
       /\ delegation' = IF parsed # {} THEN "executing_batch" ELSE delegation
  /\ launched' = {c \in ToSet(calls) : ~Blocked(c) \/ c \in Subagents}
  /\ Heed(FALSE)
  /\ UNCHANGED <<turn, outcome, loopVars, resumeVars, attempts, consecutiveFailures,
                 trippedReason, hasInjectedReflection, inSynthesisTurn, background, reported>>

Ended(i) ==
  /\ phase = "tools" /\ status[i] # "ended"
  /\ status' = [status EXCEPT ![i] = "ended"]
  /\ UNCHANGED <<turn, phase, outcome, loopVars, filesWritten, resumeVars, attempts,
                 toolCallHistory, trippedReason, hasInjectedReflection, inSynthesisTurn,
                 toolCalls, launched, told>>

\* completeDelegationBatch, whatever the phase of the cycle is by now.
ReportBatch ==
  /\ delegation' = "awaiting_synthesis"
  /\ reported' = IF phase \in {"tools", "paused"} THEN turn ELSE 0

\* executeTool, which records success and failure, unless the call is redundant
\* or a write that looks truncated.
FinishTool(i) ==
  /\ toolCalls[i] \in Reading \cup Writing
  /\ Ended(i)
  /\ \/ /\ Redundant(toolCalls[i], toolCallHistory) \/ toolCalls[i] \in Writing
        /\ UNCHANGED consecutiveFailures
     \/ /\ ~Redundant(toolCalls[i], toolCallHistory)
        /\ consecutiveFailures' \in {0, consecutiveFailures + 1}
  /\ UNCHANGED <<delegation, background, reported>>

\* The dispatches that are awaited are not recorded; a parallel one has its
\* report, unless a task of it was invalid or its dispatch failed.
FinishDispatch(i) ==
  /\ toolCalls[i] \in Subagents \cup Parallel /\ Awaited(i, toolCalls)
  /\ Ended(i)
  /\ \/ UNCHANGED <<delegation, reported>>
     \/ status[i] = "dispatched" /\ ReportBatch
  /\ UNCHANGED <<consecutiveFailures, background>>

\* Another parallel dispatch goes through executeTool: it is redundant, fails,
\* has its report, or is given up after its time limit and runs on.
FinishOtherDispatch(i) ==
  /\ toolCalls[i] \in Parallel /\ ~Awaited(i, toolCalls)
  /\ Ended(i)
  /\ \/ /\ status[i] = "running"
        /\ consecutiveFailures' = IF Redundant(toolCalls[i], toolCallHistory)
                                  THEN consecutiveFailures ELSE consecutiveFailures + 1
        /\ UNCHANGED <<delegation, background, reported>>
     \/ /\ status[i] = "dispatched"
        /\ consecutiveFailures' = consecutiveFailures + 1
        /\ background' \in {background, background + 1}
        /\ UNCHANGED <<delegation, reported>>
     \/ /\ status[i] = "dispatched"
        /\ ReportBatch
        /\ consecutiveFailures' \in {0, consecutiveFailures + 1}
        /\ UNCHANGED background

\* A dispatch that nobody awaits reports to the session, whatever its turn, or
\* a later one, is doing, or fails.
FinishInBackground ==
  /\ background > 0 /\ background' = background - 1
  /\ ReportBatch \/ UNCHANGED <<delegation, reported>>
  /\ UNCHANGED <<turn, phase, outcome, loopVars, filesWritten, resumeVars, attempts,
                 breakerVars, inSynthesisTurn, batchVars, told>>

LeaveBatch == toolCalls' = <<>> /\ status' = <<>> /\ launched' = {}

\* A call that throws ends the turn with it, before or after its report; the
\* other calls run on.
CallThrows(i) ==
  /\ phase = "tools" /\ status[i] # "ended"
  /\ EndTurn("failed")
  /\ LeaveBatch
  /\ background' = background
       + Cardinality({j \in DOMAIN status : j # i /\ status[j] = "dispatched"})
  /\ \/ UNCHANGED <<delegation, reported>>
     \/ status[i] = "dispatched" /\ ReportBatch
  /\ consecutiveFailures' \in {consecutiveFailures, consecutiveFailures + 1}
  /\ UNCHANGED <<turn, loopVars, filesWritten, resumeVars, attempts, toolCallHistory,
                 trippedReason, hasInjectedReflection, inSynthesisTurn, told>>

-----------------------------------------------------------------------------
(* After the batch.                                                        *)

BatchEnded == phase = "tools" /\ \A i \in DOMAIN status : status[i] = "ended"

Productive(c) == c \in Writing \cup Subagents \cup Parallel

\* What follows the mitigation: synthesis, the end by the breaker, or the next
\* completion.
GoOn(tripped) ==
  /\ \/ /\ delegation = "awaiting_synthesis" /\ ~inSynthesisTurn
        /\ inSynthesisTurn' = TRUE
        /\ trippedReason' = tripped
        /\ Iterate
        /\ UNCHANGED resumeVars
     \/ /\ ~(delegation = "awaiting_synthesis" /\ ~inSynthesisTurn)
        /\ tripped
        /\ EndTurn("tripped") /\ trippedReason' = FALSE
        /\ UNCHANGED <<loopVars, attempts, resumeVars, inSynthesisTurn>>
     \/ /\ ~(delegation = "awaiting_synthesis" /\ ~inSynthesisTurn)
        /\ ~tripped
        /\ Iterate
        /\ autoContinueCount' = IF \E i \in DOMAIN toolCalls : Productive(toolCalls[i])
                                THEN 0 ELSE autoContinueCount
        /\ UNCHANGED <<totalAutoContinueCount, trippedReason, inSynthesisTurn>>
  /\ LeaveBatch
  /\ UNCHANGED <<turn, filesWritten, toolCallHistory, consecutiveFailures, delegation,
                 background, reported>>

Told(stop) == told' = IF told = NotTold /\ stop THEN 1 ELSE told

Unmitigated ==
  /\ BatchEnded /\ consecutiveFailures < ReflectAt
  /\ GoOn(trippedReason)
  /\ UNCHANGED <<hasInjectedReflection, told>>

\* The reflection is injected once.
Reflect ==
  /\ BatchEnded /\ consecutiveFailures >= ReflectAt /\ consecutiveFailures < PauseAt
  /\ hasInjectedReflection' = TRUE
  /\ GoOn(trippedReason)
  /\ UNCHANGED told

\* Without somebody who can resume the turn, it is aborted...
AbortTurn ==
  /\ BatchEnded /\ consecutiveFailures >= PauseAt
  /\ hasInjectedReflection' = TRUE
  /\ GoOn(TRUE)
  /\ Told(TRUE)

\* ... else it waits for them,
Pause ==
  /\ BatchEnded /\ consecutiveFailures >= PauseAt
  /\ hasInjectedReflection' = TRUE
  /\ phase' = "paused"
  /\ UNCHANGED <<turn, outcome, loopVars, filesWritten, resumeVars, attempts,
                 toolCallHistory, consecutiveFailures, trippedReason, delegationVars,
                 batchVars, told>>

Resume ==
  /\ phase = "paused"
  /\ GoOn(trippedReason)
  /\ UNCHANGED <<hasInjectedReflection, told>>

\* until they abort it, or time is up.
ResumeAborts ==
  /\ phase = "paused"
  /\ GoOn(TRUE)
  /\ Told(TRUE)
  /\ UNCHANGED hasInjectedReflection

Batches == UNION {[1 .. n -> Calls] : n \in 1 .. MaxBatch}

Complete ==
  \/ CutOff \/ AutoContinue \/ Answer
  \/ \E calls \in Batches : RefuseMixed(calls) \/ Trip(calls) \/ Execute(calls)
FinishCall ==
  \E i \in DOMAIN toolCalls :
    FinishTool(i) \/ FinishDispatch(i) \/ FinishOtherDispatch(i) \/ CallThrows(i)
Mitigate == Unmitigated \/ Reflect \/ AbortTurn \/ Pause \/ Resume \/ ResumeAborts

Next ==
  \/ BeginTurn \/ Complete \/ Fail \/ (\E r \in {"context", "transient"} : Retry(r))
  \/ FinishCall \/ FinishInBackground \/ Mitigate

Spec == Init /\ [][Next]_vars

\* A request for a completion ends, so does every call, and a pause by its timer.
Fairness ==
  /\ WF_vars(Complete \/ Fail \/ \E r \in {"context", "transient"} : Retry(r))
  /\ WF_vars(FinishCall) /\ WF_vars(Mitigate)

FairSpec == Spec /\ Fairness

-----------------------------------------------------------------------------
(* Properties.                                                             *)

TypeOK ==
  /\ turn \in Nat /\ background \in Nat /\ reported \in Nat /\ told \in Nat
  /\ phase \in {"idle", "request", "tools", "paused"}
  /\ outcome \in {"none", "answered", "tripped", "exhausted", "failed"}
  /\ loopCount \in Nat /\ maxLoops \in Nat /\ filesAtLastExtension \in Nat
  /\ filesWritten \subseteq Writing
  /\ autoContinueCount \in 0 .. MaxAutoContinue
  /\ totalAutoContinueCount \in 0 .. MaxTotalAutoContinue
  /\ attempts \in [{"context", "transient"} -> 0 .. MaxAttempts]
  /\ toolCallHistory \in Seq(Calls) /\ Len(toolCallHistory) <= MaxHistory
  /\ consecutiveFailures \in Nat
  /\ {trippedReason, hasInjectedReflection, inSynthesisTurn} \subseteq BOOLEAN
  /\ delegation \in {"idle", "executing_batch", "awaiting_synthesis", "complete"}
  /\ toolCalls \in Seq(Calls) /\ status \in Seq({"running", "dispatched", "ended"})
  /\ Len(status) = Len(toolCalls) /\ launched \subseteq Calls

\* "The model kept ignoring" a blocked call: once the breaker or the mitigation
\* has told the turn to stop, it ends with that batch, or, when a report still
\* has to be synthesized, with the next one; it writes and dispatches nothing
\* any more, but for single subagents, which start before a call is blocked.
StopsWhenTold ==
  /\ told <= 2 /\ (told = 2 => inSynthesisTurn)
  /\ told # NotTold => launched \subseteq Reading \cup Subagents

\* "Only while the set of files written keeps GROWING, and only up to the hard
\* ceiling": no iteration beyond the base is without a file of its own.
LoopsAreEarned ==
  /\ loopCount <= maxLoops /\ maxLoops <= Ceiling
  /\ maxLoops <= BaseLoops * (1 + Cardinality(filesWritten))

\* A report that comes in during a batch of the turn, from its own dispatch or
\* from one of an earlier batch that nobody awaited, is not left waiting when
\* the turn answers, whatever retries, continuations and calls came in between.
\* One that comes between batches has no such promise.
ReportsAreSynthesized ==
  outcome = "answered" /\ reported = turn => delegation # "awaiting_synthesis"

\* Every turn ends: whatever the model answers, and however its calls end.
TurnsEnd == phase # "idle" ~> phase = "idle"
=============================================================================
