---------------------------- MODULE LockService ----------------------------
(***************************************************************************)
(* What the file lock manager promises, without queues or timers: a file   *)
(* has one owner at most, changes hands only by going to a client that     *)
(* waits for it, and is not left free while a client waits.                *)
(***************************************************************************)
CONSTANTS Files, Clients, Workers, WorkerOf, Nobody

VARIABLES
  owner,    \* owner[f]: the worker that owns f, or Nobody
  waiting   \* waiting[f]: the clients whose request for f has no answer yet

svars == <<owner, waiting>>

SInit ==
  /\ owner   = [f \in Files |-> Nobody]
  /\ waiting = [f \in Files |-> {}]

\* A client takes a file that is free.
Take(c, f) ==
  /\ owner[f] = Nobody
  /\ owner' = [owner EXCEPT ![f] = WorkerOf[c]]
  /\ UNCHANGED waiting

\* A client waits for a file that another worker owns.
Wait(c, f) ==
  /\ owner[f] \notin {Nobody, WorkerOf[c]}
  /\ waiting' = [waiting EXCEPT ![f] = @ \union {c}]
  /\ UNCHANGED owner

\* A client gives up waiting.
GiveUp(c, f) ==
  /\ c \in waiting[f]
  /\ waiting' = [waiting EXCEPT ![f] = @ \ {c}]
  /\ UNCHANGED owner

\* The file passes to a client that waits.
PassOn(c, f) ==
  /\ c \in waiting[f]
  /\ owner'   = [owner EXCEPT ![f] = WorkerOf[c]]
  /\ waiting' = [waiting EXCEPT ![f] = @ \ {c}]

\* The file becomes free, and only if no client waits for it.
Free(f) ==
  /\ waiting[f] = {}
  /\ owner' = [owner EXCEPT ![f] = Nobody]
  /\ UNCHANGED waiting

SNext ==
  \/ \E c \in Clients, f \in Files :
       Take(c, f) \/ Wait(c, f) \/ GiveUp(c, f) \/ PassOn(c, f)
  \/ \E f \in Files : Free(f)

SSpec == SInit /\ [][SNext]_svars

=============================================================================
