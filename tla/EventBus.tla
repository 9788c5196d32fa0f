------------------------------ MODULE EventBus ------------------------------
(***************************************************************************)
(* The event bus of a process (packages/core/src/events/event-bus.ts) and  *)
(* the durable journal it mirrors its events into (event-journal.ts).      *)
(* Publishing numbers an event, refuses repeats and sheds load, and queues *)
(* what it accepts by priority; a drain that runs off the event loop       *)
(* delivers the queues.  The process may crash and start again, and        *)
(* another process may use the same journal.                               *)
(*                                                                         *)
(* A drain pass is synchronous: while draining = "running" only the        *)
(* callbacks of the delivered events publish.  What they publish is left   *)
(* open, so Publish is enabled between two deliveries as everywhere else.  *)
(***************************************************************************)
EXTENDS Integers, Sequences, FiniteSets

CONSTANTS
  Events, ClassOf, SizeOf,  \* what may be published: its priority, its bytes
  Quota,       \* deliveries of a class in one round: 4, 3, 2 and 1
  MaxBytes,    \* MAX_QUEUE_BYTES
  MaxJournal,  \* MAX_JOURNAL_SIZE
  Window,      \* deduplicateWindowMs, in ticks
  MaxSeq, MaxRuns  \* bounds: events numbered, runs of the process

Classes == 1..4
CRITICAL == 1  HIGH == 2  NORMAL == 3  LOW == 4

ASSUME EventsAssumption ==
  /\ ClassOf \in [Events -> Classes]
  /\ SizeOf \in [Events -> Nat]
ASSUME QuotaAssumption == Quota \in [Classes -> Nat \ {0}]
ASSUME LimitsAssumption ==
  MaxBytes \in Nat /\ MaxJournal \in Nat \ {0} /\ Window \in Nat
ASSUME BoundsAssumption == MaxSeq \in Nat /\ MaxRuns \in Nat \ {0}

VARIABLES
  queues, bytes,      \* the events to deliver, by class, and their size
  counter,            \* sequenceCounter
  age,                \* seenHashes: ticks since an event was seen
  journal,            \* the numbers of the events of the memory journal
  draining, at, done, \* the drain: its phase, class, deliveries of the class
  sink,               \* durableSink: "none", "loaded" or "unread"
  rows,               \* the durable journal: who wrote each numbered row
  run,                \* which run of the process this is
  other,              \* the last number of the other process, if it runs
  shared              \* whether both have had the journal at the same time

queueVars == <<queues, bytes>>
drainVars == <<draining, at, done>>
durableVars == <<sink, rows, run, other, shared>>
vars == <<queueVars, counter, age, journal, drainVars, durableVars>>

Other == 0                  \* the writer that is no run of this process
Away  == -1                 \* other, when the other process does not run
Forgotten == Window + 1     \* the age of an event that is not remembered

Init ==
  /\ queues = [c \in Classes |-> <<>>] /\ bytes = 0
  /\ counter = 0
  /\ age = [e \in Events |-> Forgotten]
  /\ journal = <<>>
  /\ draining = "no" /\ at = CRITICAL /\ done = 0
  /\ sink = "none" /\ rows = [s \in {} |-> Other]
  /\ run = 1 /\ other = Away /\ shared = FALSE

-----------------------------------------------------------------------------
(* Publishing.                                                             *)

\* Faulty variant: only logs are shed.
ShedLogsOnly(e) == ClassOf[e] = LOW /\ 10 * (bytes + SizeOf[e]) > 8 * MaxBytes

\* Low priorities are shed at 80% of the limit, normal ones at the limit.
Shed(e) ==
  \/ /\ ClassOf[e] = LOW
     /\ 10 * (bytes + SizeOf[e]) > 8 * MaxBytes
  \/ /\ ClassOf[e] \in {LOW, NORMAL}
     /\ bytes + SizeOf[e] > MaxBytes

\* The oldest fifth goes when the memory journal overflows.
Remember(s) ==
  LET longer == Append(journal, s) IN
  journal' = IF Len(longer) > MaxJournal
             THEN SubSeq(longer, MaxJournal \div 5 + 1, Len(longer))
             ELSE longer

Row(s, writer) == [t \in DOMAIN rows \cup {s} |-> IF t = s THEN writer ELSE rows[t]]

\* INSERT OR REPLACE by sequence number; an error is reported and dropped.
AppendRow ==
  \/ sink # "none" /\ rows' = Row(counter + 1, run)
  \/ UNCHANGED rows

ScheduleDrain ==
  draining' = IF draining = "no" THEN "scheduled" ELSE draining

Accept(e) ==
  /\ ~Shed(e)
  /\ queues' = [queues EXCEPT ![ClassOf[e]] =
                  Append(@, [seq |-> counter + 1, event |-> e])]
  /\ bytes' = bytes + SizeOf[e]
  /\ Remember(counter + 1)
  /\ AppendRow
  /\ ScheduleDrain

\* A repeat within the window changes nothing.  The event is remembered, and
\* takes a number, before it is known whether it is shed.
Publish(e) ==
  /\ counter < MaxSeq
  /\ age[e] = Forgotten
  /\ age' = [age EXCEPT ![e] = 0]
  /\ counter' = counter + 1
  /\ \/ Accept(e)
     \/ Shed(e) /\ UNCHANGED <<queueVars, journal, rows, draining>>
  /\ UNCHANGED <<at, done, sink, run, other, shared>>

\* cleanupDeduplicationCache forgets what is older than the window.
Older(e) == IF age[e] < Forgotten THEN age[e] + 1 ELSE Forgotten

Tick ==
  /\ \E e \in Events : age[e] < Forgotten
  /\ age' = [e \in Events |-> Older(e)]
  /\ UNCHANGED <<queueVars, counter, journal, drainVars, durableVars>>

-----------------------------------------------------------------------------
(* The drain: rounds over the classes, until nothing is left or 4 ms have  *)
(* passed.                                                                 *)

StartDrain ==
  /\ draining = "scheduled"
  /\ draining' = "running" /\ at' = CRITICAL /\ done' = 0
  /\ UNCHANGED <<queueVars, counter, age, journal, durableVars>>

\* Faulty variant: strict priorities, without quotas.
ReadyByPriority == {c \in Classes : queues[c] # <<>>}

\* The classes that have an event and quota left in this round.
Ready == {c \in Classes : /\ queues[c] # <<>>
                          /\ c > at \/ (c = at /\ done < Quota[c])}

BytesWithoutHead(c) ==
  LET left == bytes - SizeOf[Head(queues[c]).event] IN IF left < 0 THEN 0 ELSE left

Deliver(c) ==
  /\ draining = "running"
  /\ c \in Ready /\ \A b \in Ready : c <= b
  /\ queues' = [queues EXCEPT ![c] = Tail(@)]
  /\ bytes' = BytesWithoutHead(c)
  /\ at' = c
  /\ done' = IF c = at THEN done + 1 ELSE 1
  /\ UNCHANGED <<counter, age, journal, draining, durableVars>>

\* Faulty variant: a drain out of budget ends without scheduling the next one.
AfterRoundForgotten ==
  IF \A c \in Classes : queues[c] = <<>> THEN {"no"} ELSE {"running", "no"}

\* Stop when all is delivered, else start another round, now or, out of
\* budget, off the event loop.
AfterRound ==
  IF \A c \in Classes : queues[c] = <<>> THEN {"no"} ELSE {"running", "scheduled"}

EndRound ==
  /\ draining = "running"
  /\ Ready = {}
  /\ draining' \in AfterRound
  /\ at' = CRITICAL /\ done' = 0
  /\ UNCHANGED <<queueVars, counter, age, journal, durableVars>>

-----------------------------------------------------------------------------
(* The durable journal, crashes, and another process on the same journal.  *)

Newest(s) == s \in DOMAIN rows /\ \A t \in DOMAIN rows : t <= s

\* The numbers of S from the least to the greatest (SetToSortSeq(S, <), in a
\* form that can be expanded in a proof).
InOrder(S) ==
  [i \in 1..Cardinality(S) |-> CHOOSE s \in S : Cardinality({t \in S : t < s}) = i - 1]

\* Faulty variants: numbering starts again, or goes back to the journal's last.
ContinueNothing(s) == counter
ContinueFrom(s) == s

Continue(s) == IF s > counter THEN s ELSE counter

\* attachDurableJournal continues the stream of the journal.  Its rows may be
\* unreadable at the time: the sink is attached all the same.
Attach ==
  /\ sink = "none"
  /\ draining # "running"
  /\ \/ /\ sink' = "loaded"
        /\ IF DOMAIN rows = {}
           THEN UNCHANGED <<journal, counter>>
           ELSE LET all   == InOrder(DOMAIN rows)
                    first == Len(all) - MaxJournal + 1
                IN  /\ journal' = SubSeq(all, IF first > 1 THEN first ELSE 1, Len(all))
                    /\ \E s \in DOMAIN rows :
                         Newest(s) /\ counter' = Continue(s)
     \/ sink' = "unread" /\ UNCHANGED <<journal, counter>>
  /\ shared' = (shared \/ other # Away)
  /\ UNCHANGED <<queueVars, age, drainVars, rows, run, other>>

\* The process ends anywhere and is started again: the rows survive.
Crash ==
  /\ run < MaxRuns
  /\ run' = run + 1
  /\ queues' = [c \in Classes |-> <<>>] /\ bytes' = 0
  /\ counter' = 0
  /\ age' = [e \in Events |-> Forgotten]
  /\ journal' = <<>>
  /\ draining' = "no" /\ at' = CRITICAL /\ done' = 0
  /\ sink' = "none"
  /\ UNCHANGED <<rows, other, shared>>

\* The other process: it reads the journal, appends to it, and leaves.
OtherAttach ==
  /\ other = Away
  /\ IF DOMAIN rows = {} THEN other' = 0
                         ELSE \E s \in DOMAIN rows : Newest(s) /\ other' = s
  /\ shared' = (shared \/ sink # "none")
  /\ UNCHANGED <<queueVars, counter, age, journal, drainVars, sink, rows, run>>

OtherAppend ==
  /\ other # Away /\ other < MaxSeq
  /\ other' = other + 1
  /\ rows' = Row(other + 1, Other)
  /\ UNCHANGED <<queueVars, counter, age, journal, drainVars, sink, run, shared>>

OtherLeave ==
  /\ other # Away
  /\ other' = Away
  /\ UNCHANGED <<queueVars, counter, age, journal, drainVars, sink, rows, run, shared>>

Next ==
  \/ \E e \in Events : Publish(e)
  \/ Tick
  \/ StartDrain \/ (\E c \in Classes : Deliver(c)) \/ EndRound
  \/ Attach \/ Crash
  \/ OtherAttach \/ OtherAppend \/ OtherLeave

Spec == Init /\ [][Next]_vars

-----------------------------------------------------------------------------
(* The bus, with a history of who waits for whom.                          *)

VARIABLE waited  \* deliveries of other classes while an event heads its queue

Delivered(c) == Len(queues'[c]) < Len(queues[c])

TurnInit == Init /\ waited = [c \in Classes |-> 0]

TurnNext ==
  /\ Next
  /\ waited' = [c \in Classes |->
       IF queues[c] = <<>> \/ queues'[c] = <<>> \/ Delivered(c) THEN 0
       ELSE IF \E b \in Classes : Delivered(b) THEN waited[c] + 1
       ELSE waited[c]]

TurnSpec == TurnInit /\ [][TurnNext]_<<vars, waited>>

-----------------------------------------------------------------------------
(* Properties.                                                             *)

\* Types, except that of the memory journal.
TypeOK ==
  /\ queues \in [Classes -> Seq([seq : Nat, event : Events])]
  /\ bytes \in Nat /\ counter \in Nat
  /\ age \in [Events -> 0..Forgotten]
  /\ draining \in {"no", "scheduled", "running"} /\ at \in Classes /\ done \in Nat
  /\ sink \in {"none", "loaded", "unread"}
  /\ DOMAIN rows \subseteq Nat /\ rows \in [DOMAIN rows -> Nat]
  /\ run \in Nat /\ other \in Nat \cup {Away} /\ shared \in BOOLEAN

\* The bytes of the first entries of a queue, and of all of them.
SizesUpTo(q) ==
  LET upTo[i \in 0..Len(q)] ==
        IF i = 0 THEN 0 ELSE upTo[i - 1] + SizeOf[q[i].event]
  IN  upTo

BytesIn(q) == SizesUpTo(q)[Len(q)]

BytesOf(c) == BytesIn(queues[c])

\* "Bounded memory ceiling": the counter that decides about shedding is the size
\* of what is queued, only critical and high events take the queues beyond the
\* limit, logs leave the last fifth of it to the others, and the memory journal
\* keeps to its own.
MemoryIsBounded ==
  /\ bytes = BytesOf(CRITICAL) + BytesOf(HIGH) + BytesOf(NORMAL) + BytesOf(LOW)
  /\ BytesOf(NORMAL) + BytesOf(LOW) <= MaxBytes
  /\ 10 * BytesOf(LOW) <= 8 * MaxBytes
  /\ Len(journal) <= MaxJournal

\* No event is left in a queue without a drain that is running or scheduled:
\* a drain that yields or ends misses nothing published meanwhile.
NothingStranded ==
  draining = "no" => \A c \in Classes : queues[c] = <<>>

\* Events of a class are delivered in the order of their numbers, and no number
\* is used twice, also when the journal is attached after some were published.
DeliveryInOrder ==
  \A c \in Classes :
    /\ \A i, j \in DOMAIN queues[c] : i < j => queues[c][i].seq < queues[c][j].seq
    /\ \A i \in DOMAIN queues[c] : queues[c][i].seq <= counter

\* "So a restarted process continues the event stream": a row of the durable
\* journal is never replaced by a later event, unless two processes have had
\* the journal at once, or this run could not read it when it attached.
RowsSurvive ==
  [][\A s \in DOMAIN rows : \/ s \in DOMAIN rows' /\ rows'[s] = rows[s]
                            \/ shared \/ sink = "unread"]_vars

AllQuotas == Quota[CRITICAL] + Quota[HIGH] + Quota[NORMAL] + Quota[LOW]

\* However much is published, no class waits for more than one round of the
\* others' quotas: CRITICAL events do not starve the logs, nor the reverse.
ClassesTakeTurns ==
  \A c \in Classes : waited[c] <= AllQuotas - Quota[c]

=============================================================================
