----------------------------- MODULE McpServers -----------------------------
(***************************************************************************)
(* The MCP servers of a session (packages/core/src/mcp/client.ts).         *)
(*                                                                         *)
(* initializeMcpServers stops the clients of activeMcpClients, then starts *)
(* a client for each configured server in turn: a child process, the       *)
(* handshake, the list of its tools.  The terminal interface calls it when *)
(* it starts, when the project changes and on every reload, and waits for  *)
(* none of these calls (App.tsx).  A child may fail to start, answer with  *)
(* an error, late or never, exit at any moment, and ignore SIGTERM.        *)
(*                                                                         *)
(* The client that call i makes for server s is <<i, s>>.  A continuation  *)
(* runs before the next event, so a step ends at an await of an event.     *)
(***************************************************************************)
CONSTANTS
  Servers,   \* the names of the servers
  Inits,     \* bound: the calls of initializeMcpServers
  Nobody     \* activeMcpClients has no entry for the server

ASSUME NobodyAssumption == Nobody \notin Inits

VARIABLES
  overlap,   \* whether a call may begin while another has not returned
  active,    \* active[s]: the call whose client of s is in activeMcpClients
  pc,        \* where each call is
  current,   \* the client a call has stopped or started last
  visited,   \* the entries of activeMcpClients its sweep has come to
  todo,      \* the configured servers it has not started yet
  child,     \* child[i][s]: the process of a client
  known,     \* known[i][s]: this.process of a client is not null
  told,      \* told[i][s]: SIGTERM was sent to the process
  offered    \* history: the clients whose server answered with some tools

state == <<active, pc, current, visited, todo, child, known, told, offered>>
vars == <<overlap, state>>

Clients == Inits \X Servers

Init ==
  /\ overlap \in BOOLEAN
  /\ active  = [s \in Servers |-> Nobody]
  /\ pc      = [i \in Inits |-> "uncalled"]
  /\ current = [i \in Inits |-> Nobody]
  /\ visited = [i \in Inits |-> {}]
  /\ todo    = [i \in Inits |-> {}]
  /\ child   = [c \in Clients |-> "none"]
  /\ known   = [c \in Clients |-> FALSE]
  /\ told    = [c \in Clients |-> FALSE]
  /\ offered = {}

Goto(i, label) == pc' = [pc EXCEPT ![i] = label]

\* Faulty variant: a client is dropped without a signal.
ShutdownSilently(c) == told' = told

\* shutdown up to its await: SIGTERM for the process of the client, if it has
\* one.  (SIGKILL would follow if proc.killed were false a second later, but
\* it says that a signal was sent, not that the process is gone.)
Shutdown(c) == told' = [told EXCEPT ![c] = child[c] = "up"]

\* shutdown after its await.
Forget(c) == known' = [known EXCEPT ![c] = FALSE]

-----------------------------------------------------------------------------
(* shutdownMcpServers, the first thing a call does.                        *)

\* Somebody calls initializeMcpServers.
Call(i) ==
  /\ pc[i] = "uncalled"
  /\ overlap \/ \A j \in Inits : pc[j] \in {"uncalled", "returned"}
  /\ Goto(i, "sweeping")
  /\ UNCHANGED <<active, current, visited, todo, child, known, told, offered>>

\* The entries of activeMcpClients a sweep has still to come to.
Entries(i) == {s \in Servers : active[s] # Nobody} \ visited[i]

\* The next client of activeMcpClients is shut down; one without a process has
\* nothing to wait for.
SweepNext(i) ==
  /\ pc[i] = "sweeping"
  /\ \E s \in Entries(i) :
       LET c == <<active[s], s>> IN
         /\ visited' = [visited EXCEPT ![i] = @ \union {s}]
         /\ current' = [current EXCEPT ![i] = c]
         /\ IF known[c] THEN Shutdown(c) /\ Goto(i, "stopping")
                        ELSE UNCHANGED <<told, pc>>
  /\ UNCHANGED <<active, todo, child, known, offered>>

\* Faulty variant: the wait for the process has no timer.
SweepStoppedOnClose(i) ==
  /\ pc[i] = "stopping"
  /\ child[current[i]] # "up"
  /\ Forget(current[i])
  /\ Goto(i, "sweeping")
  /\ UNCHANGED <<active, current, visited, todo, child, told, offered>>

\* The process has closed, or a second has passed.
SweepStopped(i) ==
  /\ pc[i] = "stopping"
  /\ Forget(current[i])
  /\ Goto(i, "sweeping")
  /\ UNCHANGED <<active, current, visited, todo, child, told, offered>>

\* Every client is shut down: the map is cleared, the configuration read.  An
\* entry that is set again later is new to a sweep that goes on.
SweepDone(i, configured) ==
  /\ pc[i] = "sweeping"
  /\ Entries(i) = {}
  /\ active'  = [s \in Servers |-> Nobody]
  /\ visited' = [j \in Inits |-> {}]
  /\ todo'    = [todo EXCEPT ![i] = configured]
  /\ Goto(i, "ready")
  /\ UNCHANGED <<current, child, known, told, offered>>

-----------------------------------------------------------------------------
(* The loop over the configured servers.                                   *)

\* start: spawn, which may fail, and the request "initialize".
StartServer(i, s) ==
  /\ pc[i] = "ready"
  /\ s \in todo[i]
  /\ todo'    = [todo EXCEPT ![i] = @ \ {s}]
  /\ current' = [current EXCEPT ![i] = <<i, s>>]
  /\ \E started \in {"up", "failed"} : child' = [child EXCEPT ![<<i, s>>] = started]
  /\ known'   = [known EXCEPT ![<<i, s>>] = TRUE]
  /\ Goto(i, "starting")
  /\ UNCHANGED <<active, visited, told, offered>>

\* The handshake is answered, and the tools are asked for.
Initialized(i) ==
  /\ pc[i] = "starting"
  /\ child[current[i]] = "up"
  /\ Goto(i, "listing")
  /\ UNCHANGED <<active, current, visited, todo, child, known, told, offered>>

\* Faulty variant: the catch block only reports the error.
GiveUpUnstopped(i) ==
  /\ Goto(i, "ready")
  /\ UNCHANGED <<active, current, visited, todo, child, known, told>>

\* The catch block: the client is shut down.
GiveUp(i) ==
  /\ Shutdown(current[i])
  /\ Goto(i, "stopping own")
  /\ UNCHANGED <<active, current, visited, todo, child, known>>

\* The handshake is answered with an error, or times out.
InitializeFails(i) ==
  /\ pc[i] = "starting"
  /\ GiveUp(i)
  /\ UNCHANGED offered

\* The tools arrive.  Registering one throws: it has no metadata, which
\* ToolRegistry.register demands.
ToolsListed(i) ==
  /\ pc[i] = "listing"
  /\ child[current[i]] = "up"
  /\ offered' = offered \union {current[i]}
  /\ GiveUp(i)

\* activeMcpClients.set: a client that was there before is forgotten.
SetActive(c) == active' = [active EXCEPT ![c[2]] = c[1]]

\* There are no tools, or listTools failed, which is the same to its caller.
NoToolsListed(i) ==
  /\ pc[i] = "listing"
  /\ SetActive(current[i])
  /\ Goto(i, "ready")
  /\ UNCHANGED <<current, visited, todo, child, known, told, offered>>

\* The process of the client that is given up has closed, or a second has passed.
GivenUp(i) ==
  /\ pc[i] = "stopping own"
  /\ Forget(current[i])
  /\ Goto(i, "ready")
  /\ UNCHANGED <<active, current, visited, todo, child, told, offered>>

Return(i) ==
  /\ pc[i] = "ready"
  /\ todo[i] = {}
  /\ Goto(i, "returned")
  /\ UNCHANGED <<active, current, visited, todo, child, known, told, offered>>

-----------------------------------------------------------------------------
\* A process exits, by itself or on the signal: its pending request is
\* rejected.  There is nothing left to shut down, and no tools to list.
ChildExits(c) ==
  /\ child[c] = "up"
  /\ child' = [child EXCEPT ![c] = "gone"]
  /\ Forget(c)
  /\ LET i == c[1] IN
       IF current[i] = c /\ pc[i] \in {"starting", "listing"}
       THEN /\ Goto(i, "ready")
            /\ IF pc[i] = "listing" THEN SetActive(c) ELSE UNCHANGED active
       ELSE UNCHANGED <<pc, active>>
  /\ UNCHANGED <<current, visited, todo, told, offered>>

InitStep(i) ==
  \/ SweepNext(i) \/ SweepStopped(i)
  \/ \E configured \in SUBSET Servers : SweepDone(i, configured)
  \/ \E s \in Servers : StartServer(i, s)
  \/ Initialized(i) \/ InitializeFails(i) \/ ToolsListed(i) \/ NoToolsListed(i)
  \/ GivenUp(i) \/ Return(i)

Next ==
  /\ \/ \E i \in Inits : Call(i) \/ InitStep(i)
     \/ \E c \in Clients : ChildExits(c)
  /\ UNCHANGED overlap

Spec == Init /\ [][Next]_vars

\* Requests have timeouts (30 seconds) and so does the wait for a process that
\* was told to stop.  No process has to answer, exit or heed the signal.
FairSpec == Spec /\ \A i \in Inits : WF_state(InitStep(i))

-----------------------------------------------------------------------------
(* Properties.                                                             *)

\* Every variable has its type.
TypeOK ==
  /\ overlap \in BOOLEAN
  /\ active  \in [Servers -> Inits \union {Nobody}]
  /\ pc      \in [Inits -> {"uncalled", "sweeping", "stopping", "ready", "starting",
                            "listing", "stopping own", "returned"}]
  /\ current \in [Inits -> Clients \union {Nobody}]
  /\ visited \in [Inits -> SUBSET Servers]
  /\ todo    \in [Inits -> SUBSET Servers]
  /\ child   \in [Clients -> {"none", "up", "failed", "gone"}]
  /\ known   \in [Clients -> BOOLEAN]
  /\ told    \in [Clients -> BOOLEAN]
  /\ offered \subseteq Clients

Running(c) == child[c] = "up" /\ ~ told[c]

\* No process is left without somebody who will stop it, if calls do not
\* overlap: one that runs and was not told to stop is in activeMcpClients,
\* where the next call finds it, or is being started.
RunningServersAreInHand ==
  ~ overlap => \A i \in Inits, s \in Servers :
    Running(<<i, s>>) =>
      \/ active[s] = i
      \/ pc[i] \in {"starting", "listing"} /\ current[i] = <<i, s>>

\* A clean slate, if calls do not overlap: while a call starts its servers, no
\* server of an earlier call runs that was not told to stop.
CleanSlate ==
  ~ overlap => \A i \in Inits :
    pc[i] \in {"ready", "starting", "listing", "stopping own"} =>
      \A j \in Inits \ {i}, s \in Servers : ~ Running(<<j, s>>)

\* Every call returns, whatever the servers do: none of them can hang the
\* terminal interface, which shows that it is connecting until then.
InitializationEnds ==
  \A i \in Inits : pc[i] # "uncalled" ~> pc[i] = "returned"

\* A server that has answered with its tools is connected, and its tools are
\* registered: it is not told to stop before another call.
ServersWithToolsStayConnected ==
  \A i \in Inits, s \in Servers :
    <<i, s>> \in offered /\ (\A j \in Inits \ {i} : pc[j] = "uncalled") =>
      ~ told[<<i, s>>]

=============================================================================
