----------------------------- MODULE MCEventBus -----------------------------
(* Two instances of EventBus for TLC in one run: a process whose queues    *)
(* fill up ("load"), and one that publishes little but crashes and shares  *)
(* its journal ("restart").                                                *)
EXTENDS EventBus, TLC

CONSTANTS stop, failed, state, log, MaxShort

\* An event of each class.
MCClassOf == (stop :> CRITICAL) @@ (failed :> HIGH) @@ (state :> NORMAL) @@ (log :> LOW)
MCSizeOf  == [e \in Events |-> 1]
MCQuota   == <<1, 1, 1, 1>>

VARIABLE scenario

MCInit == TurnInit /\ scenario \in {"load", "restart"}

MCNext ==
  /\ TurnNext
  /\ scenario' = scenario
  /\ IF scenario = "load"
     THEN durableVars' = durableVars
     ELSE /\ counter' <= MaxShort
          /\ age'[failed] = Forgotten /\ age'[log] = Forgotten
          /\ other' <= MaxShort

MCSpec == MCInit /\ [][MCNext]_<<vars, waited, scenario>>
=============================================================================
