--------------------------- MODULE MCEditDispatch ---------------------------
(* Instances of EditDispatch for TLC.                                      *)
EXTENDS EditDispatch, TLC

CONSTANTS d1, d2, d3, w1, w2, f1

\* Two dispatches of one agent and one of another.
WorkerOfEach == (d1 :> w1) @@ (d2 :> w1) @@ (d3 :> w2)

\* While leases are kept two dispatches of different agents edit two files in
\* two rounds.  Otherwise all three edit one file, in one round, and
\* verification may take longer than a lease.
Active == IF overruns THEN Dispatches ELSE {d1, d3}

OneRound == INSTANCE EditDispatch WITH MaxRounds <- 1

MCNext ==
  /\ \/ ~ overruns /\ Next
     \/ overruns /\ OneRound!Next /\ \A d \in Dispatches : ToSet(todo'[d]) \subseteq {f1}
  /\ \A d \in Dispatches \ Active : pc'[d] = pc[d]

MCSpec ==
  /\ Init /\ [][MCNext]_vars
  /\ \A d \in Dispatches : WF_vars(d \in Active /\ DispatchStep(d))
  /\ \A d \in Dispatches, f \in Files : WF_vars(RequestTimer(d, f))

\* Dispatches that lock the same files in different orders do not wait for
\* each other for ever: each that takes part ends.
ActiveDispatchesEnd ==
  \A d \in Dispatches : <>(d \notin Active \/ pc[d] \in {"done", "failing"})

=============================================================================
