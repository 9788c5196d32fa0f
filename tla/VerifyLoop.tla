----------------------------- MODULE VerifyLoop -----------------------------
(***************************************************************************)
(* The verify and self-correct loop around an agent's edits                *)
(* (packages/core/src/task/verify-loop.ts): attempt, verify, and again     *)
(* with the failures fed back, until verification passes, the rounds or    *)
(* the budget run out, or the same failure keeps coming back.              *)
(***************************************************************************)
EXTENDS Naturals, Sequences

CONSTANTS
  Signatures,       \* what a failed verification may look like, normalised
  MaxRounds,        \* opts.maxRounds, floored at 1
  NoProgressLimit   \* opts.noProgressLimit, floored at 1

ASSUME MaxRoundsAssumption       == MaxRounds \in Nat \ {0}
ASSUME NoProgressLimitAssumption == NoProgressLimit \in Nat \ {0}

Passed == "passed"  \* the entry of history for a verification that passed
Nothing == "none"   \* no signature yet, no previous failures

ASSUME SignaturesAssumption == {Passed, Nothing} \cap Signatures = {}

VARIABLES
  pc,               \* "round", "attempt", "verify", or "stopped"
  round,            \* the number of the current round
  previousFailures, \* the failures of the previous round
  lastSignature,
  sameCount,        \* how often in a row lastSignature has been seen
  context,          \* the AttemptContext of the current attempt
  history,          \* the result of each verification
  result            \* the VerifyLoopResult, or "threw"

loopVars == <<pc, round, previousFailures, lastSignature, sameCount, context,
              history, result>>

NoContext == [round |-> 0, previousFailures |-> Nothing, isRepeatedFailure |-> FALSE]
NoResult  == [success |-> FALSE, rounds |-> 0, stopReason |-> "running"]

LoopInit ==
  /\ pc = "round"
  /\ round = 1
  /\ previousFailures = Nothing
  /\ lastSignature = Nothing
  /\ sameCount = 0
  /\ context = NoContext
  /\ history = <<>>
  /\ result = NoResult

Stop(success, rounds, reason) ==
  /\ pc' = "stopped"
  /\ result' = [success |-> success, rounds |-> rounds, stopReason |-> reason]

\* hasBudget says no before the round.
BudgetExhausted ==
  /\ pc = "round"
  /\ Stop(FALSE, round - 1, "budget-exhausted")
  /\ UNCHANGED <<round, previousFailures, lastSignature, sameCount, context, history>>

\* The attempt is called.
Attempt ==
  /\ pc = "round"
  /\ context' = [round |-> round,
                 previousFailures |-> previousFailures,
                 isRepeatedFailure |-> round > 1 /\ sameCount > 0]
  /\ pc' = "attempt"
  /\ UNCHANGED <<round, previousFailures, lastSignature, sameCount, history, result>>

\* The attempt returns, and verification starts.
Verify ==
  /\ pc = "attempt"
  /\ pc' = "verify"
  /\ UNCHANGED <<round, previousFailures, lastSignature, sameCount, context,
                 history, result>>

\* The attempt, or the verification, throws out of the loop.
Throws ==
  /\ pc \in {"attempt", "verify"}
  /\ Stop(FALSE, round, "threw")
  /\ UNCHANGED <<round, previousFailures, lastSignature, sameCount, context, history>>

VerifyPasses ==
  /\ pc = "verify"
  /\ history' = Append(history, Passed)
  /\ Stop(TRUE, round, "passed")
  /\ UNCHANGED <<round, previousFailures, lastSignature, sameCount, context>>

\* Faulty variant: the count goes on from the last different failure.
CountAccumulates(sig) == IF sig = lastSignature THEN sameCount + 1 ELSE sameCount

\* sameCount after a failure.
Count(sig) == IF sig = lastSignature THEN sameCount + 1 ELSE 1

\* What the next attempt gets to see of a failure.
FeedBack(sig) == sig

RoundsLeft == round < MaxRounds

\* Verification fails: give up on a dead end or after the last round, or go on.
VerifyFails(sig) ==
  /\ pc = "verify"
  /\ history' = Append(history, sig)
  /\ previousFailures' = FeedBack(sig)
  /\ lastSignature' = sig
  /\ sameCount' = Count(sig)
  /\ \/ /\ sameCount' >= NoProgressLimit
        /\ RoundsLeft
        /\ Stop(FALSE, round, "no-progress")
        /\ UNCHANGED round
     \/ /\ sameCount' < NoProgressLimit
        /\ RoundsLeft
        /\ round' = round + 1
        /\ pc' = "round"
        /\ UNCHANGED result
     \/ /\ ~ RoundsLeft
        /\ Stop(FALSE, MaxRounds, "max-rounds")
        /\ UNCHANGED round
  /\ UNCHANGED context

LoopNext ==
  \/ BudgetExhausted \/ Attempt \/ Verify \/ Throws \/ VerifyPasses
  \/ \E sig \in Signatures : VerifyFails(sig)

LoopSpec == LoopInit /\ [][LoopNext]_loopVars

-----------------------------------------------------------------------------
(* Properties.                                                             *)

\* Every variable has its type.
LoopTypeOK ==
  /\ pc \in {"round", "attempt", "verify", "stopped"}
  /\ round \in 1 .. MaxRounds
  /\ previousFailures \in Signatures \union {Nothing}
  /\ lastSignature \in Signatures \union {Nothing}
  /\ sameCount \in 0 .. MaxRounds
  /\ context \in [round : 0 .. MaxRounds,
                  previousFailures : Signatures \union {Nothing},
                  isRepeatedFailure : BOOLEAN]
  /\ history \in Seq(Signatures \union {Passed})
  /\ result \in [success : BOOLEAN, rounds : 0 .. MaxRounds,
                 stopReason : {"running", "passed", "max-rounds", "no-progress",
                               "budget-exhausted", "threw"}]

\* The last n verifications gave the same result.
SameLast(n) ==
  /\ Len(history) >= n
  /\ \A i \in Len(history) - n + 1 .. Len(history) : history[i] = history[Len(history)]

\* No round is spent on a dead end, and only a dead end is given up: the
\* agent tries again exactly while the last NoProgressLimit failures were not
\* all alike.
GivesUpExactlyWhenStuck ==
  /\ pc \in {"round", "attempt", "verify"} => ~ SameLast(NoProgressLimit)
  /\ result.stopReason = "no-progress" =>
       SameLast(NoProgressLimit) /\ ~ SameLast(NoProgressLimit + 1)

=============================================================================
