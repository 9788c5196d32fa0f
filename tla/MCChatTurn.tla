----------------------------- MODULE MCChatTurn -----------------------------
(* Two instances of ChatTurn for TLC in one run: one turn of tools that    *)
(* fail and repeat themselves ("breaker"), and two turns with dispatches   *)
(* ("delegation").                                                         *)
EXTENDS ChatTurn

VARIABLE scenario

MCInit == Init /\ scenario \in {"breaker", "delegation"}
MCNext ==
  /\ Next
  /\ scenario' = scenario
  /\ IF scenario = "breaker"
     THEN /\ turn' <= 1 /\ attempts'.context = 0 /\ attempts'.transient = 0
          /\ ToSet(toolCalls') \subseteq Reading \cup Writing
     ELSE filesWritten' = {} /\ maxLoops' = BaseLoops
MCSpec == MCInit /\ [][MCNext]_<<vars, scenario>> /\ Fairness
=============================================================================
