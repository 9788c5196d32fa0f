-------------------------- MODULE McpServersProofs --------------------------
(***************************************************************************)
(* Theorems of McpServers, for any servers and any number of calls: types, *)
(* and, for calls that do not overlap, that no server runs unobserved and  *)
(* that a call starts its servers on a clean slate.                        *)
(***************************************************************************)
EXTENDS McpServers, TLAPS

USE NobodyAssumption

Busy(i) == pc[i] \notin {"uncalled", "returned"}

\* What a call has started is a client of its own, what it sweeps is a client.
CurrentIsAClient ==
  \A i \in Inits :
    /\ pc[i] = "stopping" => current[i] \in Clients
    /\ pc[i] \in {"starting", "listing", "stopping own"} => current[i] \in {i} \X Servers

\* One call at a time is under way.
Alone == \A i, j \in Inits : Busy(i) /\ Busy(j) => i = j

\* Shutting down a client that runs finds its process.
RunningIsKnown == \A c \in Clients : Running(c) => known[c]

\* The client a call waits for has been told to stop, or has no process.
StoppingIsTold ==
  \A i \in Inits : pc[i] \in {"stopping", "stopping own"} => ~ Running(current[i])

\* What a sweep has come to does not run, and only sweeps have come to anything.
VisitedIsStopped ==
  \A i \in Inits : \A s \in visited[i] :
    /\ pc[i] \in {"sweeping", "stopping"}
    /\ active[s] # Nobody => ~ Running(<<active[s], s>>)

InHand ==
  \A i \in Inits, s \in Servers :
    Running(<<i, s>>) =>
      \/ active[s] = i
      \/ pc[i] \in {"starting", "listing"} /\ current[i] = <<i, s>>

Starting(i) == pc[i] \in {"ready", "starting", "listing", "stopping own"}

Slate ==
  \A i \in Inits : Starting(i) => \A j \in Inits \ {i}, s \in Servers : ~ Running(<<j, s>>)

\* What holds while calls do not overlap.
OneByOne ==
  /\ Alone /\ RunningIsKnown /\ StoppingIsTold /\ VisitedIsStopped
  /\ InHand /\ Slate

IInv == TypeOK /\ CurrentIsAClient /\ (~ overlap => OneByOne)

-----------------------------------------------------------------------------
LEMMA ToldIsBoolean ==
  ASSUME told \in [Clients -> BOOLEAN], NEW c \in Clients, Shutdown(c)
  PROVE  told' \in [Clients -> BOOLEAN]
<1>1. (child[c] = "up") \in BOOLEAN
  OBVIOUS
<1> QED BY <1>1 DEF Shutdown

LEMMA TypesAreKept ==
  ASSUME TypeOK, CurrentIsAClient, [Next]_vars
  PROVE  TypeOK' /\ CurrentIsAClient'
<1> USE DEF TypeOK, CurrentIsAClient, Clients, Goto
<1>1. ASSUME NEW i \in Inits, Call(i), UNCHANGED overlap
      PROVE  TypeOK' /\ CurrentIsAClient'
  BY <1>1 DEF Call
<1>2. ASSUME NEW i \in Inits, SweepNext(i), UNCHANGED overlap
      PROVE  TypeOK' /\ CurrentIsAClient'
  <2>1. PICK s \in Entries(i) :
          /\ visited' = [visited EXCEPT ![i] = @ \union {s}]
          /\ current' = [current EXCEPT ![i] = <<active[s], s>>]
          /\ IF known[<<active[s], s>>]
             THEN Shutdown(<<active[s], s>>) /\ Goto(i, "stopping")
             ELSE UNCHANGED <<told, pc>>
    BY <1>2 DEF SweepNext
  <2>2. <<active[s], s>> \in Clients
    BY ZenonT(30) DEF Entries
  <2>3. told' \in [Clients -> BOOLEAN]
    BY <2>1, <2>2, ToldIsBoolean
  <2>4. pc' = pc \/ Goto(i, "stopping")
    BY <2>1
  <2>5. TypeOK'
    <3>1. pc' \in [Inits -> {"uncalled", "sweeping", "stopping", "ready", "starting",
                              "listing", "stopping own", "returned"}]
      BY <2>4
    <3>2. visited' \in [Inits -> SUBSET Servers]
      BY <2>1 DEF Entries
    <3>3. current' \in [Inits -> Clients \union {Nobody}]
      BY <2>1, <2>2
    <3> QED BY <1>2, <2>3, <3>1, <3>2, <3>3 DEF SweepNext
  <2>6. current'[i] = <<active[s], s>> /\ \A j \in Inits \ {i} : current'[j] = current[j]
    BY <2>1
  <2>7. pc'[i] \in {"sweeping", "stopping"} /\ \A j \in Inits \ {i} : pc'[j] = pc[j]
    BY <1>2, <2>4, ZenonT(30) DEF SweepNext
  <2>8. CurrentIsAClient'
    BY <2>2, <2>6, <2>7
  <2> QED BY <2>5, <2>8
<1>3. ASSUME NEW i \in Inits, SweepStopped(i), UNCHANGED overlap
      PROVE  TypeOK' /\ CurrentIsAClient'
  BY <1>3 DEF SweepStopped, Forget
<1>4. ASSUME NEW i \in Inits, NEW configured \in SUBSET Servers, SweepDone(i, configured),
             UNCHANGED overlap
      PROVE  TypeOK' /\ CurrentIsAClient'
  BY <1>4 DEF SweepDone
<1>5. ASSUME NEW i \in Inits, NEW s \in Servers, StartServer(i, s), UNCHANGED overlap
      PROVE  TypeOK' /\ CurrentIsAClient'
  <2>1. <<i, s>> \in Clients
    OBVIOUS
  <2>2. child' \in [Clients -> {"none", "up", "failed", "gone"}]
    BY <1>5, <2>1, ZenonT(30) DEF StartServer
  <2>3. known' \in [Clients -> BOOLEAN] /\ current' \in [Inits -> Clients \union {Nobody}]
    BY <1>5, <2>1 DEF StartServer
  <2>4. current'[i] = <<i, s>> /\ \A j \in Inits \ {i} : current'[j] = current[j]
    BY <1>5 DEF StartServer
  <2>5. TypeOK'
    BY <1>5, <2>2, <2>3 DEF StartServer
  <2>6. pc'[i] = "starting" /\ \A j \in Inits \ {i} : pc'[j] = pc[j]
    BY <1>5 DEF StartServer
  <2>7. CurrentIsAClient'
    <3>1. ASSUME NEW j \in Inits
          PROVE  /\ pc'[j] = "stopping" => current'[j] \in Clients
                 /\ pc'[j] \in {"starting", "listing", "stopping own"}
                      => current'[j] \in {j} \X Servers
      <4>1. CASE j = i
        <5>1. <<i, s>> \in {i} \X Servers
          OBVIOUS
        <5> QED BY <2>1, <2>4, <2>6, <4>1, <5>1
      <4>2. CASE j # i
        BY <2>4, <2>6, <4>2
      <4> QED BY <4>1, <4>2
    <3> QED BY <3>1
  <2> QED BY <2>5, <2>7
<1>6. ASSUME NEW i \in Inits, Initialized(i), UNCHANGED overlap
      PROVE  TypeOK' /\ CurrentIsAClient'
  BY <1>6 DEF Initialized
<1>7. ASSUME NEW i \in Inits, InitializeFails(i) \/ ToolsListed(i), UNCHANGED overlap
      PROVE  TypeOK' /\ CurrentIsAClient'
  <2>1. current[i] \in {i} \X Servers /\ GiveUp(i)
    BY <1>7 DEF InitializeFails, ToolsListed
  <2>2. told' \in [Clients -> BOOLEAN]
    BY <2>1, ToldIsBoolean DEF GiveUp
  <2>3. offered' \subseteq Clients
    BY <1>7, <2>1 DEF InitializeFails, ToolsListed
  <2> QED BY <1>7, <2>1, <2>2, <2>3 DEF GiveUp
<1>8. ASSUME NEW i \in Inits, NoToolsListed(i), UNCHANGED overlap
      PROVE  TypeOK' /\ CurrentIsAClient'
  BY <1>8 DEF NoToolsListed, SetActive
<1>9. ASSUME NEW i \in Inits, GivenUp(i), UNCHANGED overlap
      PROVE  TypeOK' /\ CurrentIsAClient'
  BY <1>9 DEF GivenUp, Forget
<1>10. ASSUME NEW i \in Inits, Return(i), UNCHANGED overlap
       PROVE  TypeOK' /\ CurrentIsAClient'
  BY <1>10 DEF Return
<1>11. ASSUME NEW c \in Clients, ChildExits(c), UNCHANGED overlap
       PROVE  TypeOK' /\ CurrentIsAClient'
  <2>1. c[1] \in Inits /\ c[2] \in Servers
    OBVIOUS
  <2>2. \/ pc' = pc /\ active' = active
        \/ Goto(c[1], "ready") /\ active' \in {active, [active EXCEPT ![c[2]] = c[1]]}
    BY <1>11 DEF ChildExits, SetActive
  <2>3. active' \in [Servers -> Inits \union {Nobody}]
    BY <2>1, <2>2
  <2>4. /\ pc' \in [Inits -> {"uncalled", "sweeping", "stopping", "ready", "starting",
                              "listing", "stopping own", "returned"}]
        /\ \A i \in Inits : pc'[i] = pc[i] \/ pc'[i] = "ready"
    <3>1. CASE pc' = pc
      BY <3>1
    <3>2. CASE pc' = [pc EXCEPT ![c[1]] = "ready"]
      BY <2>1, <3>2
    <3> QED BY <2>2, <3>1, <3>2
  <2>5. /\ child' \in [Clients -> {"none", "up", "failed", "gone"}]
        /\ known' \in [Clients -> BOOLEAN]
    <3>1. child' = [child EXCEPT ![c] = "gone"] /\ known' = [known EXCEPT ![c] = FALSE]
      BY <1>11 DEF ChildExits, Forget
    <3>2. child' \in [Clients -> {"none", "up", "failed", "gone"}]
      BY <3>1
    <3>3. known' \in [Clients -> BOOLEAN]
      BY <3>1
    <3> QED BY <3>2, <3>3
  <2>6. UNCHANGED <<overlap, current, visited, todo, told, offered>>
    BY <1>11 DEF ChildExits
  <2>7. TypeOK'
    BY <2>3, <2>4, <2>5, <2>6
  <2>8. ASSUME NEW i \in Inits
        PROVE  /\ pc'[i] = "stopping" => current'[i] \in Clients
               /\ pc'[i] \in {"starting", "listing", "stopping own"}
                    => current'[i] \in {i} \X Servers
    <3>1. current'[i] = current[i] /\ (pc'[i] = pc[i] \/ pc'[i] = "ready")
      BY <2>4, <2>6
    <3> QED BY <3>1
  <2> QED BY <2>7, <2>8
<1>12. CASE UNCHANGED vars
  BY <1>12 DEF vars, state
<1> QED
  BY <1>1, <1>2, <1>3, <1>4, <1>5, <1>6, <1>7, <1>8, <1>9, <1>10, <1>11, <1>12
     DEF Next, InitStep


-----------------------------------------------------------------------------
(* One call at a time: only one call is under way, so what is to be shown    *)
(* of a step is what it does to that call.                                   *)

Idle(j) == pc[j] \in {"uncalled", "returned"} /\ visited[j] = {}

WaitIsOver(i) == pc[i] \in {"stopping", "stopping own"} => ~ Running(current[i])

SweptIsStopped(i) ==
  \A s \in visited[i] :
    /\ pc[i] \in {"sweeping", "stopping"}
    /\ active[s] # Nobody => ~ Running(<<active[s], s>>)

OthersAreStopped(i) == \A j \in Inits \ {i}, s \in Servers : ~ Running(<<j, s>>)

LEMMA OthersAreIdle ==
  ASSUME OneByOne, TypeOK, NEW i \in Inits, Busy(i), NEW j \in Inits \ {i}
  PROVE  Idle(j)
BY DEF OneByOne, Alone, Busy, VisitedIsStopped, TypeOK, Idle

LEMMA OneIsEnough ==
  ASSUME NEW i \in Inits, \A j \in Inits \ {i} : Idle(j)',
         RunningIsKnown', WaitIsOver(i)', SweptIsStopped(i)', InHand',
         Starting(i)' => OthersAreStopped(i)'
  PROVE  OneByOne'
<1>1. Alone'
  BY DEF Alone, Idle, Busy
<1>2. StoppingIsTold'
  BY DEF StoppingIsTold, WaitIsOver, Idle
<1>3. VisitedIsStopped'
  <2>1. ASSUME NEW j \in Inits, NEW s \in visited'[j]
        PROVE  /\ pc'[j] \in {"sweeping", "stopping"}
               /\ active'[s] # Nobody => ~ Running(<<active[s], s>>)'
    <3>1. j = i
      BY DEF Idle
    <3> QED BY <3>1 DEF SweptIsStopped
  <2> QED BY <2>1 DEF VisitedIsStopped
<1>4. Slate'
  <2>1. \A j \in Inits \ {i} : pc'[j] \in {"uncalled", "returned"}
    BY DEF Idle
  <2>2. \A j \in Inits \ {i} : ~ Starting(j)'
    BY <2>1 DEF Starting
  <2> QED BY <2>2 DEF Slate, OthersAreStopped
<1> QED BY <1>1, <1>2, <1>3, <1>4 DEF OneByOne

\* A step that starts no process and tells none to forget its signal.
FewerRun == \A i \in Inits, s \in Servers : Running(<<i, s>>)' => Running(<<i, s>>)

LEMMA ShutdownStops ==
  ASSUME TypeOK, NEW c \in Clients, Shutdown(c), UNCHANGED child
  PROVE  ~ Running(c)' /\ FewerRun
<1>1. told'[c] = (child[c] = "up")
  BY DEF Shutdown, TypeOK
<1>2. ASSUME NEW i \in Inits, NEW s \in Servers, Running(<<i, s>>)'
      PROVE  Running(<<i, s>>)
  <2>1. <<i, s>> \in Clients
    BY DEF Clients
  <2>2. CASE <<i, s>> = c
    BY <1>1, <1>2, <2>2 DEF Running
  <2>3. CASE <<i, s>> # c
    <3>1. told'[<<i, s>>] = told[<<i, s>>]
      BY <2>1, <2>3 DEF Shutdown, TypeOK
    <3> QED BY <1>2, <3>1 DEF Running
  <2> QED BY <2>2, <2>3
<1> QED BY <1>1, <1>2 DEF Running, FewerRun

LEMMA ForgottenIsStopped ==
  ASSUME TypeOK, OneByOne, NEW c \in Clients, ~ Running(c), Forget(c), UNCHANGED <<child, told>>
  PROVE  RunningIsKnown'
BY DEF Forget, TypeOK, OneByOne, RunningIsKnown, Running

\* The steps of one call that start no process.
LEMMA StepIsKept ==
  ASSUME TypeOK, CurrentIsAClient, OneByOne, NEW i \in Inits,
         \A j \in Inits \ {i} : Idle(j) /\ Idle(j)',
         FewerRun, RunningIsKnown', WaitIsOver(i)', SweptIsStopped(i)',
         \A j \in Inits, s \in Servers : active[s] = j =>
           \/ active'[s] = j
           \/ ~ Running(<<j, s>>)'
           \/ active'[s] = i /\ Starting(i),
         \A s \in Servers :
           pc[i] \in {"starting", "listing"} /\ current[i] = <<i, s>> =>
             \/ pc'[i] \in {"starting", "listing"} /\ current'[i] = <<i, s>>
             \/ ~ Running(<<i, s>>)'
             \/ active'[s] = i,
         Starting(i)' => Starting(i) \/ OthersAreStopped(i)'
  PROVE  OneByOne'
<1>1. InHand'
  <2>1. ASSUME NEW j \in Inits, NEW s \in Servers, Running(<<j, s>>)'
        PROVE  \/ active'[s] = j
               \/ pc'[j] \in {"starting", "listing"} /\ current'[j] = <<j, s>>
    <3>1. Running(<<j, s>>)
      BY <2>1 DEF FewerRun
    <3>2. CASE active[s] = j
      <4>1. active'[s] = j \/ (active'[s] = i /\ Starting(i))
        BY <2>1, <3>2
      <4>2. Starting(i) /\ j # i => ~ Running(<<j, s>>)
        BY DEF OneByOne, Slate
      <4> QED BY <3>1, <4>1, <4>2
    <3>3. CASE pc[j] \in {"starting", "listing"} /\ current[j] = <<j, s>>
      <4>1. j = i
        BY <3>3 DEF Idle
      <4> QED BY <2>1, <3>3, <4>1
    <3> QED BY <3>1, <3>2, <3>3 DEF OneByOne, InHand
  <2> QED BY <2>1 DEF InHand
<1>2. Starting(i)' => OthersAreStopped(i)'
  <2>1. CASE Starting(i)
    BY <2>1 DEF OneByOne, Slate, FewerRun, OthersAreStopped
  <2> QED BY <2>1
<1> QED BY <1>1, <1>2, OneIsEnough

\* Call, SweepNext, SweepStopped and SweepDone.
LEMMA SweepsAreKept ==
  ASSUME TypeOK, CurrentIsAClient, ~ overlap, OneByOne, NEW i \in Inits,
         \/ Call(i) \/ SweepNext(i) \/ SweepStopped(i)
         \/ \E configured \in SUBSET Servers : SweepDone(i, configured)
  PROVE  OneByOne'
<1>1. CASE Call(i)
  <2>1. \A j \in Inits : Idle(j)
    BY <1>1 DEF Call, OneByOne, VisitedIsStopped, TypeOK, Idle
  <2>2. /\ \A j \in Inits \ {i} : Idle(j)'
        /\ visited'[i] = {} /\ pc'[i] = "sweeping"
    BY <1>1, <2>1 DEF Call, Goto, TypeOK, Idle
  <2>3. /\ FewerRun /\ RunningIsKnown' /\ active' = active
        /\ pc[i] \notin {"starting", "listing"}
    BY <1>1 DEF Call, FewerRun, OneByOne, RunningIsKnown, Running
  <2>4. WaitIsOver(i)' /\ SweptIsStopped(i)' /\ ~ Starting(i)'
    BY <2>2 DEF WaitIsOver, SweptIsStopped, Starting
  <2> QED BY <2>1, <2>2, <2>3, <2>4, StepIsKept
<1>2. CASE SweepNext(i)
  <2>1. PICK s \in Entries(i) :
          /\ visited' = [visited EXCEPT ![i] = @ \union {s}]
          /\ current' = [current EXCEPT ![i] = <<active[s], s>>]
          /\ IF known[<<active[s], s>>]
             THEN Shutdown(<<active[s], s>>) /\ Goto(i, "stopping")
             ELSE UNCHANGED <<told, pc>>
    BY <1>2 DEF SweepNext
  <2>2. PICK k \in Inits : k = active[s]
    BY DEF Entries, TypeOK
  <2>3. /\ pc[i] = "sweeping" /\ s \in Servers /\ <<k, s>> \in Clients
        /\ UNCHANGED <<active, todo, child, known, offered>>
    BY <1>2 DEF SweepNext, Entries, Clients
  <2>4. /\ ~ Running(<<k, s>>)' /\ FewerRun
        /\ \A j \in Inits \ {i} : pc'[j] = pc[j]
        /\ pc'[i] \in {"sweeping", "stopping"}
        /\ pc'[i] = "stopping" => current'[i] = <<k, s>>
    <3>1. CASE known[<<k, s>>]
      <4>1. Shutdown(<<k, s>>) /\ Goto(i, "stopping")
        BY <2>1, <2>2, <3>1
      <4>2. ~ Running(<<k, s>>)' /\ FewerRun
        BY <2>3, <4>1, ShutdownStops
      <4> QED BY <2>1, <2>2, <4>1, <4>2 DEF Goto, TypeOK
    <3>2. CASE ~ known[<<k, s>>]
      <4>1. told' = told /\ pc' = pc
        BY <2>1, <2>2, <3>2
      <4>2. ~ Running(<<k, s>>)
        BY <2>3, <3>2 DEF OneByOne, RunningIsKnown
      <4> QED BY <2>3, <4>1, <4>2 DEF Running, FewerRun
    <3> QED BY <3>1, <3>2
  <2>5. \A j \in Inits \ {i} : Idle(j) /\ Idle(j)'
    <3>1. \A j \in Inits \ {i} : Idle(j)
      BY <2>3, OthersAreIdle DEF Busy
    <3> QED BY <2>1, <2>4, <3>1 DEF Idle, TypeOK
  <2>6. RunningIsKnown'
    BY <2>3, <2>4 DEF OneByOne, RunningIsKnown, FewerRun, Clients
  <2>7. WaitIsOver(i)'
    BY <2>4 DEF WaitIsOver
  <2>8. SweptIsStopped(i)'
    <3>1. ASSUME NEW r \in visited'[i], active'[r] # Nobody
          PROVE  ~ Running(<<active[r], r>>)'
      <4>1. CASE r = s
        BY <2>2, <2>3, <2>4, <4>1
      <4>2. CASE r # s
        <5>1. r \in visited[i] /\ r \in Servers /\ active[r] \in Inits
          BY <2>1, <2>3, <3>1, <4>2 DEF TypeOK
        <5>2. PICK k1 \in Inits : k1 = active[r]
          BY <5>1
        <5>3. ~ Running(<<k1, r>>)
          BY <2>3, <3>1, <5>1, <5>2 DEF OneByOne, VisitedIsStopped
        <5>4. ~ Running(<<k1, r>>)'
          BY <2>4, <5>1, <5>3 DEF FewerRun
        <5> QED BY <2>3, <5>2, <5>4
      <4> QED BY <4>1, <4>2
    <3>2. pc'[i] \in {"sweeping", "stopping"}
      BY <2>4
    <3> QED BY <3>1, <3>2 DEF SweptIsStopped
  <2>9. ~ Starting(i)' /\ active' = active /\ pc[i] \notin {"starting", "listing"}
    BY <2>3, <2>4 DEF Starting
  <2> QED BY <2>4, <2>5, <2>6, <2>7, <2>8, <2>9, StepIsKept
<1>3. CASE SweepStopped(i)
  <2>1. /\ pc[i] = "stopping" /\ pc'[i] = "sweeping"
        /\ \A j \in Inits \ {i} : pc'[j] = pc[j]
        /\ Forget(current[i]) /\ current[i] \in Clients
        /\ UNCHANGED <<active, current, visited, todo, child, told, offered>>
    BY <1>3 DEF SweepStopped, Goto, TypeOK, CurrentIsAClient
  <2>2. \A j \in Inits \ {i} : Idle(j) /\ Idle(j)'
    <3>1. \A j \in Inits \ {i} : Idle(j)
      BY <2>1, OthersAreIdle DEF Busy
    <3> QED BY <2>1, <3>1 DEF Idle
  <2>3. FewerRun
    BY <2>1 DEF FewerRun, Running
  <2>4. ~ Running(current[i])
    BY <2>1 DEF OneByOne, StoppingIsTold
  <2>5. RunningIsKnown'
    BY <2>1, <2>4, ForgottenIsStopped
  <2>6. WaitIsOver(i)' /\ ~ Starting(i)' /\ pc[i] \notin {"starting", "listing"}
    BY <2>1 DEF WaitIsOver, Starting
  <2>7. SweptIsStopped(i)'
    BY <2>1 DEF SweptIsStopped, OneByOne, VisitedIsStopped, Running
  <2> QED BY <2>1, <2>2, <2>3, <2>5, <2>6, <2>7, StepIsKept
<1>4. CASE \E configured \in SUBSET Servers : SweepDone(i, configured)
  <2>1. /\ pc[i] = "sweeping" /\ pc'[i] = "ready" /\ Entries(i) = {}
        /\ \A j \in Inits \ {i} : pc'[j] = pc[j]
        /\ active' = [s \in Servers |-> Nobody] /\ visited' = [j \in Inits |-> {}]
        /\ UNCHANGED <<current, child, known, told, offered>>
    BY <1>4 DEF SweepDone, Goto, TypeOK
  <2>2. \A j \in Inits \ {i} : Idle(j) /\ Idle(j)'
    <3>1. \A j \in Inits \ {i} : Idle(j)
      BY <2>1, OthersAreIdle DEF Busy
    <3> QED BY <2>1, <3>1 DEF Idle
  <2>3. FewerRun /\ RunningIsKnown'
    BY <2>1 DEF FewerRun, Running, OneByOne, RunningIsKnown
  <2>4. WaitIsOver(i)' /\ SweptIsStopped(i)' /\ pc[i] \notin {"starting", "listing"}
    BY <2>1 DEF WaitIsOver, SweptIsStopped
  <2>5. ASSUME NEW j \in Inits, NEW s \in Servers, active[s] = j
        PROVE  ~ Running(<<j, s>>)
    <3>1. s \in visited[i]
      BY <2>1, <2>5, NobodyAssumption DEF Entries
    <3> QED BY <2>5, <3>1, NobodyAssumption DEF OneByOne, VisitedIsStopped
  <2>6. ASSUME NEW j \in Inits, NEW s \in Servers, Running(<<j, s>>)
        PROVE  FALSE
    <3>1. active[s] = j \/ pc[j] \in {"starting", "listing"}
      BY <2>6 DEF OneByOne, InHand
    <3>2. active[s] # j
      BY <2>5, <2>6
    <3>3. pc[j] \notin {"starting", "listing"}
      BY <2>1, <2>2 DEF Idle
    <3> QED BY <3>1, <3>2, <3>3
  <2>7. OthersAreStopped(i)'
    BY <2>3, <2>6 DEF OthersAreStopped, FewerRun
  <2>8. \A j \in Inits, s \in Servers : active[s] = j => ~ Running(<<j, s>>)'
    BY <2>3, <2>6 DEF FewerRun
  <2> QED BY <2>2, <2>3, <2>4, <2>7, <2>8, StepIsKept
<1> QED BY <1>1, <1>2, <1>3, <1>4

\* StartServer: on a clean slate, the client it starts is the only one that runs
\* besides those the call itself has started.
LEMMA StartIsKept ==
  ASSUME TypeOK, ~ overlap, OneByOne, NEW i \in Inits, NEW s \in Servers, StartServer(i, s)
  PROVE  OneByOne'
<1>1. /\ pc[i] = "ready" /\ pc'[i] = "starting" /\ current'[i] = <<i, s>>
      /\ \A j \in Inits \ {i} : pc'[j] = pc[j]
      /\ \E started \in {"up", "failed"} : child' = [child EXCEPT ![<<i, s>>] = started]
      /\ known' = [known EXCEPT ![<<i, s>>] = TRUE]
      /\ UNCHANGED <<active, visited, told, offered>>
  BY DEF StartServer, Goto, TypeOK
<1>2. \A j \in Inits, r \in Servers :
        <<j, r>> # <<i, s>> => Running(<<j, r>>)' = Running(<<j, r>>)
  BY <1>1 DEF Running, TypeOK, Clients
<1>3. \A j \in Inits \ {i} : Idle(j)'
  <2>1. \A j \in Inits \ {i} : Idle(j)
    BY <1>1, OthersAreIdle DEF Busy
  <2> QED BY <1>1, <2>1 DEF Idle
<1>4. RunningIsKnown'
  <2>1. ASSUME NEW c \in Clients, Running(c)' PROVE known'[c]
    <3>1. CASE c = <<i, s>>
      BY <1>1, <3>1 DEF TypeOK, Clients
    <3>2. CASE c # <<i, s>>
      <4>1. Running(c) /\ known'[c] = known[c]
        BY <1>1, <2>1, <3>2 DEF Running, TypeOK
      <4> QED BY <4>1 DEF OneByOne, RunningIsKnown
    <3> QED BY <3>1, <3>2
  <2> QED BY <2>1 DEF RunningIsKnown
<1>5. WaitIsOver(i)'
  BY <1>1 DEF WaitIsOver
<1>6. SweptIsStopped(i)'
  <2>1. visited[i] = {}
    BY <1>1 DEF OneByOne, VisitedIsStopped, TypeOK
  <2> QED BY <1>1, <2>1 DEF SweptIsStopped
<1>7. InHand'
  <2>1. ASSUME NEW j \in Inits, NEW r \in Servers, Running(<<j, r>>)', <<j, r>> # <<i, s>>
        PROVE  active'[r] = j
    <3>1. Running(<<j, r>>)
      BY <1>2, <2>1
    <3>2. j = i
      BY <1>1, <3>1 DEF OneByOne, Slate, Starting
    <3>3. active[r] = j
      BY <1>1, <3>1, <3>2 DEF OneByOne, InHand
    <3> QED BY <1>1, <3>3
  <2> QED BY <1>1, <2>1 DEF InHand
<1>8. OthersAreStopped(i)'
  <2>1. OthersAreStopped(i)
    BY <1>1 DEF OneByOne, Slate, Starting, OthersAreStopped
  <2> QED BY <1>2, <2>1 DEF OthersAreStopped
<1> QED BY <1>3, <1>4, <1>5, <1>6, <1>7, <1>8, OneIsEnough

\* Initialized, InitializeFails, ToolsListed, NoToolsListed, GivenUp and Return.
LEMMA StartingIsKept ==
  ASSUME TypeOK, CurrentIsAClient, ~ overlap, OneByOne, NEW i \in Inits,
         \/ Initialized(i) \/ InitializeFails(i) \/ ToolsListed(i) \/ NoToolsListed(i)
         \/ GivenUp(i) \/ Return(i)
  PROVE  OneByOne'
<1>1. Starting(i) /\ visited' = visited /\ child' = child /\ current' = current
      /\ \A j \in Inits \ {i} : pc'[j] = pc[j]
  BY DEF Initialized, InitializeFails, ToolsListed, NoToolsListed, GivenUp, Return,
         GiveUp, Goto, Starting, TypeOK
<1>2. \A j \in Inits \ {i} : Idle(j) /\ Idle(j)'
  <2>1. Busy(i)
    BY <1>1 DEF Starting, Busy
  <2>2. \A j \in Inits \ {i} : Idle(j)
    BY <2>1, OthersAreIdle
  <2> QED BY <1>1, <2>2 DEF Idle
<1>3. SweptIsStopped(i)'
  <2>1. visited[i] = {}
    BY <1>1 DEF OneByOne, VisitedIsStopped, TypeOK, Starting
  <2> QED BY <1>1, <2>1 DEF SweptIsStopped
<1>4. CASE Initialized(i)
  <2>1. /\ pc'[i] = "listing" /\ UNCHANGED <<active, current, child, known, told>>
        /\ FewerRun
    BY <1>4 DEF Initialized, Goto, TypeOK, FewerRun, Running
  <2>2. RunningIsKnown' /\ WaitIsOver(i)'
    BY <2>1 DEF OneByOne, RunningIsKnown, Running, WaitIsOver
  <2> QED BY <1>1, <1>2, <1>3, <2>1, <2>2, StepIsKept
<1>5. CASE InitializeFails(i) \/ ToolsListed(i)
  <2>1. /\ current[i] \in {i} \X Servers /\ Shutdown(current[i])
        /\ pc[i] \in {"starting", "listing"} /\ pc'[i] = "stopping own"
        /\ UNCHANGED <<active, current, child, known>>
    BY <1>5 DEF InitializeFails, ToolsListed, GiveUp, Goto, TypeOK, CurrentIsAClient
  <2>2. current[i] \in Clients
    BY <2>1 DEF Clients
  <2>3. PICK c \in Clients : c = current[i]
    BY <2>2
  <2>4. ~ Running(c)' /\ FewerRun
    BY <2>1, <2>3, ShutdownStops
  <2>5. RunningIsKnown'
    <3>1. ASSUME NEW j \in Inits, NEW s \in Servers, Running(<<j, s>>)'
          PROVE  known'[<<j, s>>]
      <4>1. Running(<<j, s>>)
        BY <2>4, <3>1 DEF FewerRun
      <4> QED BY <2>1, <4>1 DEF OneByOne, RunningIsKnown, Clients
    <3> QED BY <3>1 DEF RunningIsKnown, Clients
  <2>6. WaitIsOver(i)'
    BY <2>1, <2>3, <2>4 DEF WaitIsOver
  <2>7. \A s \in Servers : current[i] = <<i, s>> => ~ Running(<<i, s>>)'
    BY <2>3, <2>4
  <2> QED BY <1>1, <1>2, <1>3, <2>1, <2>4, <2>5, <2>6, <2>7, StepIsKept
<1>6. CASE NoToolsListed(i)
  <2>1. /\ current[i] \in {i} \X Servers
        /\ active' = [active EXCEPT ![current[i][2]] = current[i][1]]
        /\ pc'[i] = "ready" /\ UNCHANGED <<current, child, known, told>>
        /\ FewerRun
    BY <1>6 DEF NoToolsListed, SetActive, Goto, TypeOK, CurrentIsAClient, FewerRun, Running
  <2>2. RunningIsKnown' /\ WaitIsOver(i)'
    BY <2>1 DEF OneByOne, RunningIsKnown, Running, WaitIsOver
  <2>3. PICK s \in Servers : current[i] = <<i, s>>
    BY <2>1
  <2>4. active' = [active EXCEPT ![s] = i]
    BY <2>1, <2>3
  <2>5. active'[s] = i /\ \A r \in Servers \ {s} : active'[r] = active[r]
    BY <2>4 DEF TypeOK
  <2>6. \A r \in Servers : current[i] = <<i, r>> => active'[r] = i
    BY <2>3, <2>5
  <2>7. \A r \in Servers : active'[r] = active[r] \/ active'[r] = i
    BY <2>5
  <2> QED BY <1>1, <1>2, <1>3, <2>1, <2>2, <2>6, <2>7, StepIsKept
<1>7. CASE GivenUp(i)
  <2>1. /\ pc[i] = "stopping own" /\ pc'[i] = "ready"
        /\ Forget(current[i]) /\ current[i] \in Clients
        /\ UNCHANGED <<active, current, child, told>> /\ FewerRun
    BY <1>7 DEF GivenUp, Goto, TypeOK, CurrentIsAClient, Clients, FewerRun, Running
  <2>2. ~ Running(current[i])
    BY <2>1 DEF OneByOne, StoppingIsTold
  <2>3. RunningIsKnown'
    BY <2>1, <2>2, ForgottenIsStopped
  <2>4. WaitIsOver(i)'
    BY <2>1 DEF WaitIsOver
  <2> QED BY <1>1, <1>2, <1>3, <2>1, <2>3, <2>4, StepIsKept
<1>8. CASE Return(i)
  <2>1. /\ pc[i] = "ready" /\ pc'[i] = "returned"
        /\ UNCHANGED <<active, current, child, known, told>> /\ FewerRun
    BY <1>8 DEF Return, Goto, TypeOK, FewerRun, Running
  <2>2. RunningIsKnown' /\ WaitIsOver(i)'
    BY <2>1 DEF OneByOne, RunningIsKnown, Running, WaitIsOver
  <2> QED BY <1>1, <1>2, <1>3, <2>1, <2>2, StepIsKept
<1> QED BY <1>4, <1>5, <1>6, <1>7, <1>8

\* A process exits, and no call waits for it.
LEMMA QuietIsKept ==
  ASSUME TypeOK, CurrentIsAClient, OneByOne, FewerRun, RunningIsKnown',
         UNCHANGED <<pc, active, current, visited>>
  PROVE  OneByOne'
<1>1. Alone'
  BY DEF OneByOne, Alone, Busy
<1>2. StoppingIsTold'
  <2>1. ASSUME NEW i \in Inits, pc'[i] \in {"stopping", "stopping own"}
        PROVE  ~ Running(current[i])'
    <3>0. current[i] \in Inits \X Servers
      <4>1. CASE pc[i] = "stopping"
        BY <4>1 DEF CurrentIsAClient, Clients
      <4>2. CASE pc[i] = "stopping own"
        BY <4>2 DEF CurrentIsAClient
      <4> QED BY <2>1, <4>1, <4>2
    <3>1. PICK j \in Inits, s \in Servers : current[i] = <<j, s>>
      BY <3>0
    <3>2. ~ Running(<<j, s>>)
      BY <2>1, <3>1 DEF OneByOne, StoppingIsTold
    <3> QED BY <3>1, <3>2 DEF FewerRun
  <2> QED BY <2>1 DEF StoppingIsTold
<1>3. VisitedIsStopped'
  <2>1. ASSUME NEW i \in Inits, NEW s \in visited'[i]
        PROVE  /\ pc'[i] \in {"sweeping", "stopping"}
               /\ active'[s] # Nobody => ~ Running(<<active[s], s>>)'
    <3>1. s \in visited[i] /\ s \in Servers
      BY DEF TypeOK
    <3>2. active[s] # Nobody => ~ Running(<<active[s], s>>)
      BY <3>1 DEF OneByOne, VisitedIsStopped
    <3>3. ASSUME active'[s] # Nobody
          PROVE  ~ Running(<<active[s], s>>)'
      <4>1. PICK k \in Inits : k = active[s]
        BY <3>1, <3>3 DEF TypeOK
      <4>2. ~ Running(<<k, s>>)
        BY <3>2, <3>3, <4>1
      <4>3. ~ Running(<<k, s>>)'
        BY <3>1, <4>2 DEF FewerRun
      <4> QED BY <4>1, <4>3
    <3>4. pc'[i] \in {"sweeping", "stopping"}
      BY <3>1 DEF OneByOne, VisitedIsStopped
    <3> QED BY <3>3, <3>4
  <2> QED BY <2>1 DEF VisitedIsStopped
<1>4. InHand'
  BY DEF OneByOne, InHand, FewerRun
<1>5. Slate'
  BY DEF OneByOne, Slate, Starting, FewerRun
<1> QED BY <1>1, <1>2, <1>3, <1>4, <1>5 DEF OneByOne

LEMMA ExitIsKept ==
  ASSUME TypeOK, CurrentIsAClient, ~ overlap, OneByOne,
         NEW i \in Inits, NEW s \in Servers, ChildExits(<<i, s>>)
  PROVE  OneByOne'
<1>1. /\ child' = [child EXCEPT ![<<i, s>>] = "gone"] /\ Forget(<<i, s>>)
      /\ UNCHANGED <<current, visited, told>>
  BY DEF ChildExits
<1>2. FewerRun /\ ~ Running(<<i, s>>)'
  BY <1>1 DEF FewerRun, Running, TypeOK, Clients
<1>3. RunningIsKnown'
  <2>1. ASSUME NEW j \in Inits, NEW r \in Servers, Running(<<j, r>>)'
        PROVE  known'[<<j, r>>]
    <3>1. Running(<<j, r>>) /\ <<j, r>> # <<i, s>>
      BY <1>2, <2>1 DEF FewerRun
    <3>2. known'[<<j, r>>] = known[<<j, r>>]
      BY <1>1, <3>1 DEF Forget, TypeOK, Clients
    <3> QED BY <3>1, <3>2 DEF OneByOne, RunningIsKnown, Clients
  <2> QED BY <2>1 DEF RunningIsKnown, Clients
<1>4. CASE current[i] = <<i, s>> /\ pc[i] \in {"starting", "listing"}
  <2>1. Goto(i, "ready") /\ (SetActive(<<i, s>>) \/ UNCHANGED active)
    BY <1>4 DEF ChildExits
  <2>2. pc'[i] = "ready" /\ \A j \in Inits \ {i} : pc'[j] = pc[j]
    BY <2>1 DEF Goto, TypeOK
  <2>3. \A j \in Inits \ {i} : Idle(j) /\ Idle(j)'
    <3>1. \A j \in Inits \ {i} : Idle(j)
      BY <1>4, OthersAreIdle DEF Busy
    <3> QED BY <1>1, <2>2, <3>1 DEF Idle
  <2>4. WaitIsOver(i)' /\ SweptIsStopped(i)'
    <3>1. visited[i] = {}
      BY <1>4 DEF OneByOne, VisitedIsStopped, TypeOK
    <3> QED BY <1>1, <2>2, <3>1 DEF WaitIsOver, SweptIsStopped
  <2>5. \A r \in Servers : active'[r] = active[r] \/ active'[r] = i
    BY <2>1 DEF SetActive, TypeOK
  <2>6. Starting(i)
    BY <1>4 DEF Starting
  <2>7. \A r \in Servers : current[i] = <<i, r>> => ~ Running(<<i, r>>)'
    BY <1>2, <1>4
  <2> QED BY <1>2, <1>3, <2>3, <2>4, <2>5, <2>6, <2>7, StepIsKept
<1>5. CASE ~ (current[i] = <<i, s>> /\ pc[i] \in {"starting", "listing"})
  <2>1. UNCHANGED <<pc, active>>
    BY <1>5 DEF ChildExits
  <2> QED BY <1>1, <1>2, <1>3, <2>1, QuietIsKept
<1> QED BY <1>4, <1>5

LEMMA OneByOneIsKept ==
  ASSUME TypeOK, CurrentIsAClient, ~ overlap, OneByOne, [Next]_vars
  PROVE  OneByOne'
<1>1. ASSUME NEW i \in Inits, Call(i) \/ InitStep(i)
      PROVE  OneByOne'
  BY <1>1, SweepsAreKept, StartIsKept, StartingIsKept DEF InitStep
<1>2. ASSUME NEW c \in Clients, ChildExits(c)
      PROVE  OneByOne'
  <2>1. PICK i \in Inits, s \in Servers : c = <<i, s>>
    BY DEF Clients
  <2> QED BY <1>2, <2>1, ExitIsKept
<1>3. CASE UNCHANGED vars
  <2>1. UNCHANGED <<pc, active, current, visited, child, told, known>>
    BY <1>3 DEF vars, state
  <2>2. FewerRun /\ RunningIsKnown'
    BY <2>1 DEF FewerRun, Running, OneByOne, RunningIsKnown
  <2> QED BY <2>1, <2>2, QuietIsKept
<1> QED BY <1>1, <1>2, <1>3 DEF Next

\* IInv is inductive: TypeOK, what the calls work on, and, for calls that do
\* not overlap, the conjuncts of OneByOne.
THEOREM Invariance == Spec => []IInv
<1>1. Init => IInv
  BY DEF Init, IInv, TypeOK, CurrentIsAClient, Clients, OneByOne, Alone, RunningIsKnown,
         StoppingIsTold, VisitedIsStopped, InHand, Slate, Starting, Running, Busy
<1>2. IInv /\ [Next]_vars => IInv'
  <2> SUFFICES ASSUME IInv, [Next]_vars PROVE IInv'
    OBVIOUS
  <2>1. overlap' = overlap
    BY DEF Next, vars, state
  <2> QED BY <2>1, TypesAreKept, OneByOneIsKept DEF IInv
<1> QED BY <1>1, <1>2, PTL DEF Spec

\* Every variable of the model of initializeMcpServers has its type.
THEOREM TypeCorrect == Spec => []TypeOK
<1>1. IInv => TypeOK
  BY DEF IInv
<1> QED BY <1>1, Invariance, PTL

\* Calls that do not overlap leave no server running that nobody will stop:
\* it is in activeMcpClients or being started.
THEOREM ServersAreInHand == Spec => []RunningServersAreInHand
<1>1. IInv => RunningServersAreInHand
  BY DEF IInv, OneByOne, InHand, RunningServersAreInHand
<1> QED BY <1>1, Invariance, PTL

\* A call that overlaps no other starts its servers when no server of an earlier
\* call runs that was not told to stop.
THEOREM SlateIsClean == Spec => []CleanSlate
<1>1. IInv => CleanSlate
  BY DEF IInv, OneByOne, Slate, Starting, CleanSlate
<1> QED BY <1>1, Invariance, PTL

=============================================================================
