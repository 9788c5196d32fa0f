--------------------------- MODULE SubagentSlots ---------------------------
(***************************************************************************)
(* Dispatches of subagents behind the semaphore that the whole process     *)
(* shares (packages/core/src/agents/orchestrator.ts, dispatchAgent and the *)
(* frame of dispatchAgentImpl).  A dispatch waits for a slot, sets up,     *)
(* works within its budget of time, and gives the slot to the longest      *)
(* waiting one.  While it works it may dispatch another agent itself: it   *)
(* then keeps its slot and waits for that one, which needs a slot too.     *)
(*                                                                         *)
(* The flags are those of the hardened profile: the concurrency cap is on  *)
(* and every dispatch has a deadline.                                      *)
(***************************************************************************)
EXTENDS Naturals, Sequences, FiniteSets, SequencesExt

CONSTANTS
  Dispatches,
  Limit     \* maxParallelAgents

ASSUME DispatchesAssumption == IsFiniteSet(Dispatches)
ASSUME LimitAssumption == Limit \in Nat \ {0}

VARIABLES
  subagentActive,     \* slots taken
  subagentWaitQueue,  \* dispatches that wait for a slot
  stage,              \* where each dispatch is
  chain,              \* chain[d]: the dispatches it was made under, outermost first
  aborted,            \* the dispatches whose signal is aborted
  exitCode,           \* exitCode[d]: 0, or 1 for a failure, once d is done
  shown,              \* what the last event about d says
  inFlight            \* the dispatches the capability registry counts as busy

vars == <<subagentActive, subagentWaitQueue, stage, chain, aborted, exitCode,
          shown, inFlight>>

Announced == {"announced", "routing", "working", "delegating"}
Ended     == {"done", "cut", "stuck"}
Stages    == Announced \cup Ended \cup {"idle", "waiting", "setup"}
Holding   == {d \in Dispatches : stage[d] \in Announced \cup {"setup"}}

Init ==
  /\ subagentActive = 0 /\ subagentWaitQueue = <<>>
  /\ stage    = [d \in Dispatches |-> "idle"]
  /\ chain    = [d \in Dispatches |-> <<>>]
  /\ aborted  = {}
  /\ exitCode = [d \in Dispatches |-> 1]
  /\ shown    = [d \in Dispatches |-> "nothing"]
  /\ inFlight = {}

-----------------------------------------------------------------------------
(* Slots.                                                                  *)

\* stages: those of the other dispatches that the same step changes.
AcquireSubagentSlot(d, stages) ==
  \/ /\ subagentActive < Limit
     /\ subagentActive' = subagentActive + 1
     /\ stage' = [stages EXCEPT ![d] = "setup"]
     /\ UNCHANGED subagentWaitQueue
  \/ /\ subagentActive >= Limit
     /\ subagentWaitQueue' = Append(subagentWaitQueue, d)
     /\ stage' = [stages EXCEPT ![d] = "waiting"]
     /\ UNCHANGED subagentActive

\* Faulty variant: the count goes down although the slot is handed on.
ReleaseAndWake(stages) ==
  /\ subagentActive' = subagentActive - 1
  /\ IF subagentWaitQueue = <<>>
     THEN stage' = stages /\ UNCHANGED subagentWaitQueue
     ELSE /\ stage' = [stages EXCEPT ![Head(subagentWaitQueue)] = "setup"]
          /\ subagentWaitQueue' = Tail(subagentWaitQueue)

\* Faulty variant: a released slot is not handed on.
ReleaseOnly(stages) ==
  /\ subagentActive' = subagentActive - 1
  /\ stage' = stages
  /\ UNCHANGED subagentWaitQueue

\* The slot goes to the head of the queue, without being counted down.
ReleaseSubagentSlot(stages) ==
  IF subagentWaitQueue = <<>>
  THEN /\ subagentActive' = subagentActive - 1
       /\ stage' = stages
       /\ UNCHANGED subagentWaitQueue
  ELSE /\ stage' = [stages EXCEPT ![Head(subagentWaitQueue)] = "setup"]
       /\ subagentWaitQueue' = Tail(subagentWaitQueue)
       /\ UNCHANGED subagentActive

-----------------------------------------------------------------------------
(* The life of a dispatch.                                                 *)

\* dispatchAgent, called by the chat turn or by a batch.
Call(d) ==
  /\ stage[d] = "idle"
  /\ AcquireSubagentSlot(d, stage)
  /\ UNCHANGED <<chain, aborted, exitCode, shown, inFlight>>

\* dispatchAgent, called by a tool of a working dispatch, whose signal it gets.
Delegate(p, d) ==
  /\ stage[p] = "working" /\ p \notin aborted
  /\ stage[d] = "idle" /\ d # p
  /\ AcquireSubagentSlot(d, [stage EXCEPT ![p] = "delegating"])
  /\ chain' = [chain EXCEPT ![d] = Append(chain[p], p)]
  /\ UNCHANGED <<aborted, exitCode, shown, inFlight>>

\* d ends; the turn of the dispatch that waits for it goes on.
Resumed(d, end) ==
  [x \in Dispatches |->
     IF x = d THEN end
     ELSE IF chain[d] # <<>> /\ x = Last(chain[d]) /\ stage[x] = "delegating"
          THEN "working"
     ELSE stage[x]]

\* What a dispatch leaves behind when it returns or throws: finally.
Settle(d, end, code) ==
  /\ ReleaseSubagentSlot(Resumed(d, end))
  /\ exitCode' = [exitCode EXCEPT ![d] = code]
  /\ UNCHANGED chain

\* A delegation limit throws before the dispatch is announced.
Reject(d) ==
  /\ stage[d] = "setup"
  /\ Settle(d, "done", 1)
  /\ UNCHANGED <<aborted, shown, inFlight>>

\* subagent:started is published.
Announce(d) ==
  /\ stage[d] = "setup"
  /\ stage' = [stage EXCEPT ![d] = "announced"]
  /\ shown' = [shown EXCEPT ![d] = "running"]
  /\ UNCHANGED <<subagentActive, subagentWaitQueue, chain, aborted, exitCode, inFlight>>

\* The skills pack is found, and the prompt is about to be routed.
Prepare(d) ==
  /\ stage[d] = "announced"
  /\ stage' = [stage EXCEPT ![d] = "routing"]
  /\ UNCHANGED <<subagentActive, subagentWaitQueue, chain, aborted, exitCode,
                 shown, inFlight>>

\* resolveSkillsRoot finds no skills pack: it throws outside the try block that
\* would publish the end of the dispatch.
SkillsRootMissing(d) ==
  /\ stage[d] = "announced"
  /\ Settle(d, "stuck", 1)
  /\ UNCHANGED <<aborted, shown, inFlight>>

\* Faulty variant: a failed routing throws without an event of its own.
RoutingFailsSilently(d) ==
  /\ stage[d] = "routing"
  /\ Settle(d, "done", 1)
  /\ UNCHANGED <<aborted, shown, inFlight>>

\* "Pair it with a terminal subagent:error": the task has not begun yet.
RoutingFails(d) ==
  /\ stage[d] = "routing"
  /\ Settle(d, "done", 1)
  /\ shown' = [shown EXCEPT ![d] = "error"]
  /\ UNCHANGED <<aborted, inFlight>>

Begin(d) ==
  /\ stage[d] = "routing"
  /\ stage' = [stage EXCEPT ![d] = "working"]
  /\ inFlight' = inFlight \cup {d}
  /\ UNCHANGED <<subagentActive, subagentWaitQueue, chain, aborted, exitCode, shown>>

\* The task ends, well or not: the registry and the event bus learn of it.
Finish(d, code) ==
  /\ stage[d] = "working"
  /\ code = 0 => d \notin aborted
  /\ Settle(d, "done", code)
  /\ shown' = [shown EXCEPT ![d] = IF code = 0 THEN "finished" ELSE "error"]
  /\ inFlight' = inFlight \ {d}
  /\ UNCHANGED aborted

\* Faulty variant: a dispatch that waits for another one has no deadline.
TimedWhenWorking(d) == stage[d] = "working"

Timed(d) == stage[d] \in {"working", "delegating"}

\* The deadline, or the caller's abort, ends the task at its await: the dispatch
\* returns, though its turn may not have noticed.  The signal reaches everything
\* dispatched below, also what still waits for a slot.
CutShort(d) ==
  /\ Timed(d)
  /\ Settle(d, "cut", 1)
  /\ aborted' = aborted \cup {x \in Dispatches : d \in ToSet(chain[x])}
  /\ shown' = [shown EXCEPT ![d] = "error"]
  /\ inFlight' = inFlight \ {d}

\* The user aborts the turn: its signal is that of every dispatch, also of
\* those that are made later on.
Abort ==
  /\ aborted # Dispatches
  /\ aborted' = Dispatches
  /\ UNCHANGED <<subagentActive, subagentWaitQueue, stage, chain, exitCode,
                 shown, inFlight>>

Next ==
  \/ \E d \in Dispatches :
       \/ Call(d) \/ (\E p \in Dispatches : Delegate(p, d))
       \/ Reject(d) \/ Announce(d) \/ Prepare(d) \/ SkillsRootMissing(d)
       \/ RoutingFails(d) \/ Begin(d)
       \/ (\E code \in {0, 1} : Finish(d, code)) \/ CutShort(d)
  \/ Abort

Spec == Init /\ [][Next]_vars

-----------------------------------------------------------------------------
(* Properties.                                                             *)

TypeOK ==
  /\ subagentActive \in Nat /\ subagentWaitQueue \in Seq(Dispatches)
  /\ stage \in [Dispatches -> Stages]
  /\ chain \in [Dispatches -> Seq(Dispatches)]
  /\ aborted \subseteq Dispatches /\ inFlight \subseteq Dispatches
  /\ exitCode \in [Dispatches -> {0, 1}]
  /\ shown \in [Dispatches -> {"nothing", "running", "finished", "error"}]

\* "No more than maxParallelAgents subagents run at once": the count is that of
\* the dispatches that hold a slot, nested ones and their callers included.
WidthIsBounded ==
  /\ subagentActive = Cardinality(Holding)
  /\ subagentActive <= Limit

\* Who waits is in the queue, once, and only while every slot is taken: no
\* order of failures, deadlines and aborts loses a wakeup or a slot.
NoSlotIdles ==
  /\ ToSet(subagentWaitQueue) = {d \in Dispatches : stage[d] = "waiting"}
  /\ IsInjective(subagentWaitQueue)
  /\ subagentWaitQueue # <<>> => subagentActive = Limit

\* What the events and the registry say of a dispatch is what it does, on every
\* path but one: without a skills pack a dispatch ends and is shown as running.
ShownAsItIs ==
  /\ \A d \in Dispatches : shown[d] = "running" <=> stage[d] \in Announced \cup {"stuck"}
  /\ inFlight = {d \in Dispatches : stage[d] \in {"working", "delegating"}}

\* What dispatchAgentImpl says of the same: "pair it with a terminal
\* subagent:error. Otherwise the worker panel shows a stuck 'running' worker
\* forever".
NoStuckWorkers == \A d \in Dispatches : shown[d] = "running" => stage[d] \notin Ended
=============================================================================
