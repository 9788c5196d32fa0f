------------------------- MODULE MCParallelDispatch -------------------------
(* Two instances of ParallelDispatch for TLC in one run: three members, two *)
(* of which make nested dispatches, without edits ("slots"), and two        *)
(* members that edit two files while the user does ("merge").  Those always *)
(* have their skills pack.                                                  *)
EXTENDS ParallelDispatch

CONSTANTS m1, m2, m3, n1, n2

MCMembers == <<m1, m2, m3>>

VARIABLE scenario

MCInit ==
  /\ BatchInit
  /\ scenario \in {"slots", "merge"}
  /\ scenario = "slots" => \A f \in Files : root[f] = {Before}
MCNext ==
  /\ BatchNext
  /\ scenario' = scenario
  /\ IF scenario = "slots"
     THEN /\ root' = root /\ clone' = clone
          /\ stage'[m3] # "delegating"
     ELSE /\ \A d \in {m3, n1, n2} : stage'[d] = "idle"
          /\ \A d \in {m1, m2} : stage'[d] # "stuck"
          /\ aborted' = aborted
MCSpec == MCInit /\ [][MCNext]_<<parallelVars, scenario>> /\ Fairness
=============================================================================
