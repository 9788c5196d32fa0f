--------------------------- MODULE EventBusProofs ---------------------------
(***************************************************************************)
(* Proofs about EventBus, for any events, quotas, limits and window.       *)
(***************************************************************************)
EXTENDS EventBus, SequenceTheorems, FiniteSetTheorems, WellFoundedInduction,
        NaturalsInduction, TLAPS

Entries == [seq : Nat, event : Events]

\* Where the numbers of a bus, or of the other process, are those to continue
\* the durable journal with.
NumbersContinueRows ==
  /\ sink # "none" /\ other # Away => shared
  /\ sink = "loaded" /\ ~shared => \A s \in DOMAIN rows : s <= counter
  /\ other # Away /\ ~shared => \A s \in DOMAIN rows : s <= other

IInv ==
  /\ TypeOK
  /\ NothingStranded
  /\ DeliveryInOrder
  /\ NumbersContinueRows

\* What a queue in the order of its numbers is after an event joins it.
LEMMA AppendInOrder ==
  ASSUME NEW q \in Seq(Entries), NEW x \in Entries,
         \A i, j \in DOMAIN q : i < j => q[i].seq < q[j].seq,
         \A i \in DOMAIN q : q[i].seq < x.seq
  PROVE  /\ Append(q, x) \in Seq(Entries)
         /\ \A i, j \in DOMAIN Append(q, x) :
              i < j => Append(q, x)[i].seq < Append(q, x)[j].seq
         /\ \A i \in DOMAIN Append(q, x) : Append(q, x)[i].seq <= x.seq
<1>1. /\ Len(q) \in Nat
      /\ DOMAIN q = 1 .. Len(q)
      /\ Append(q, x) \in Seq(Entries)
      /\ DOMAIN Append(q, x) = 1 .. Len(q) + 1
      /\ \A i \in 1 .. Len(q) : Append(q, x)[i] = q[i]
      /\ Append(q, x)[Len(q) + 1] = x
      /\ \A i \in 1 .. Len(q) : q[i] \in Entries
  BY LenProperties, AppendProperties, ElementOfSeq
<1>2. x.seq \in Nat /\ \A i \in 1 .. Len(q) : q[i].seq \in Nat
  BY <1>1 DEF Entries
<1>3. ASSUME NEW i \in 1 .. Len(q) + 1, NEW j \in 1 .. Len(q) + 1, i < j
      PROVE  Append(q, x)[i].seq < Append(q, x)[j].seq
  <2>1. i \in 1 .. Len(q) /\ Append(q, x)[i] = q[i]
    BY <1>1, <1>3
  <2>2. CASE j = Len(q) + 1
    BY <1>1, <2>1, <2>2
  <2>3. CASE j \in 1 .. Len(q)
    BY <1>1, <1>3, <2>1, <2>3
  <2> QED BY <1>1, <2>2, <2>3
<1>4. ASSUME NEW i \in 1 .. Len(q) + 1
      PROVE  Append(q, x)[i].seq <= x.seq
  <2>1. CASE i = Len(q) + 1
    BY <1>1, <1>2, <2>1
  <2>2. CASE i \in 1 .. Len(q)
    BY <1>1, <1>2, <2>2
  <2> QED BY <1>1, <2>1, <2>2
<1> QED BY <1>1, <1>3, <1>4

\* And after its head was delivered.
LEMMA TailInOrder ==
  ASSUME NEW q \in Seq(Entries), q # <<>>, NEW n \in Nat,
         \A i, j \in DOMAIN q : i < j => q[i].seq < q[j].seq,
         \A i \in DOMAIN q : q[i].seq <= n
  PROVE  /\ Tail(q) \in Seq(Entries)
         /\ Head(q) \in Entries
         /\ \A i, j \in DOMAIN Tail(q) : i < j => Tail(q)[i].seq < Tail(q)[j].seq
         /\ \A i \in DOMAIN Tail(q) : Tail(q)[i].seq <= n
<1>1. /\ Len(q) \in Nat \ {0}
      /\ DOMAIN q = 1 .. Len(q)
      /\ Tail(q) \in Seq(Entries)
      /\ DOMAIN Tail(q) = 1 .. Len(q) - 1
      /\ \A i \in 1 .. Len(q) - 1 : Tail(q)[i] = q[i + 1]
      /\ Head(q) = q[1]
      /\ q[1] \in Entries
  BY LenProperties, HeadTailProperties, ElementOfSeq, EmptySeq
<1> QED BY <1>1

-----------------------------------------------------------------------------
(* The steps.                                                              *)

LEMMA InitIInv == Init => IInv
<1> SUFFICES ASSUME Init PROVE IInv
  OBVIOUS
<1> USE DEF Init
<1>1. \A c \in Classes : queues[c] = <<>>
  OBVIOUS
<1>2. TypeOK
  <2>1. Forgotten \in Nat /\ CRITICAL \in Classes
    BY LimitsAssumption DEF Forgotten, Classes, CRITICAL
  <2>2. DOMAIN rows = {} /\ rows \in [DOMAIN rows -> Nat]
    OBVIOUS
  <2>3. age \in [Events -> 0..Forgotten]
    BY <2>1
  <2>4. queues \in [Classes -> Seq([seq : Nat, event : Events])]
    BY EmptySeq
  <2>5. other \in Nat \cup {Away} /\ run \in Nat
    BY DEF Away
  <2> QED BY <2>1, <2>2, <2>3, <2>4, <2>5 DEF TypeOK
<1>3. NothingStranded /\ DeliveryInOrder
  BY <1>1 DEF NothingStranded, DeliveryInOrder
<1>4. NumbersContinueRows
  BY DEF NumbersContinueRows
<1> QED BY <1>2, <1>3, <1>4 DEF IInv

\* The steps that write neither queues nor rows from their contents keep types.
LEMMA SmallStepsTypeOK ==
  ASSUME TypeOK, Tick \/ StartDrain \/ EndRound \/ Crash \/ UNCHANGED vars
  PROVE  TypeOK'
<1>0. CRITICAL \in Classes /\ Forgotten \in Nat
  BY LimitsAssumption DEF Classes, CRITICAL, Forgotten
<1> USE DEF TypeOK, queueVars, drainVars, durableVars
<1>1. CASE Tick
  <2>1. age' \in [Events -> 0..Forgotten]
    BY <1>0, <1>1, SMTT(30) DEF Tick, Older
  <2> QED BY <1>1, <2>1 DEF Tick
<1>2. CASE StartDrain
  BY <1>0, <1>2 DEF StartDrain
<1>3. CASE EndRound
  BY <1>0, <1>3 DEF EndRound, AfterRound
<1>4. CASE Crash
  <2>1. age' \in [Events -> 0..Forgotten]
    BY <1>0, <1>4 DEF Crash
  <2>2. queues' \in [Classes -> Seq([seq : Nat, event : Events])]
    BY <1>4 DEF Crash
  <2> QED BY <1>0, <1>4, <2>1, <2>2, SMTT(30) DEF Crash
<1>5. CASE UNCHANGED vars
  BY <1>5 DEF vars
<1> QED BY <1>1, <1>2, <1>3, <1>4, <1>5

\* Steps that leave the queues alone and do not lower the counter.
LEMMA QueuesUntouched ==
  ASSUME IInv, UNCHANGED queues, counter' = counter \/ (counter' \in Nat /\ counter <= counter')
  PROVE  DeliveryInOrder'
<1>1. CASE counter' = counter
  BY <1>1 DEF IInv, DeliveryInOrder
<1>2. CASE counter' \in Nat /\ counter <= counter'
  <2>1. ASSUME NEW c \in Classes, NEW i \in DOMAIN queues[c]
        PROVE  queues[c][i].seq <= counter'
    <3>1. queues[c] \in Seq(Entries) /\ counter \in Nat
      BY DEF IInv, TypeOK, Entries
    <3>2. queues[c][i] \in Entries
      BY <3>1, ElementOfSeq, LenProperties
    <3>3. queues[c][i].seq \in Nat /\ queues[c][i].seq <= counter
      BY <3>2 DEF IInv, DeliveryInOrder, Entries
    <3> QED BY <1>2, <3>1, <3>3
  <2> QED BY <2>1 DEF IInv, DeliveryInOrder
<1> QED BY <1>1, <1>2

\* Appending a row under the next number replaces none, as long as the bus
\* has read the journal and nobody else has it.
LEMMA AppendRowContinues ==
  ASSUME IInv, AppendRow, UNCHANGED <<sink, other, shared>>, counter' = counter + 1
  PROVE  /\ NumbersContinueRows'
         /\ DOMAIN rows' \subseteq Nat /\ rows' \in [DOMAIN rows' -> Nat]
         /\ \A s \in DOMAIN rows : \/ s \in DOMAIN rows' /\ rows'[s] = rows[s]
                                   \/ shared \/ sink = "unread"
<1> USE DEF IInv, TypeOK
<1>1. CASE sink # "none" /\ rows' = Row(counter + 1, run)
  <2>1. /\ DOMAIN rows' = DOMAIN rows \cup {counter + 1}
        /\ \A t \in DOMAIN rows' : rows'[t] = IF t = counter + 1 THEN run ELSE rows[t]
    BY <1>1 DEF Row
  <2>2. DOMAIN rows' \subseteq Nat /\ rows' \in [DOMAIN rows' -> Nat]
    <3>1. DOMAIN rows' \subseteq Nat
      BY <2>1
    <3>2. \A t \in DOMAIN rows' : rows'[t] \in Nat
      BY <2>1
    <3> QED BY <1>1, <3>1, <3>2 DEF Row
  <2>3. NumbersContinueRows'
    BY <1>1, <2>1, SMTT(30) DEF NumbersContinueRows
  <2>4. ~shared /\ sink # "unread" => counter + 1 \notin DOMAIN rows
    BY <1>1 DEF NumbersContinueRows
  <2> QED BY <2>1, <2>2, <2>3, <2>4
<1>2. CASE UNCHANGED rows
  BY <1>2 DEF NumbersContinueRows
<1> QED BY <1>1, <1>2 DEF AppendRow

LEMMA PublishIInv ==
  ASSUME IInv, NEW e \in Events, Publish(e)
  PROVE  IInv'
<1> USE DEF IInv
<1>1. ClassOf[e] \in Classes /\ SizeOf[e] \in Nat /\ counter + 1 \in Nat
  BY EventsAssumption DEF TypeOK
<1>0. age' \in [Events -> 0..Forgotten]
  BY LimitsAssumption DEF Publish, TypeOK, Forgotten
<1>2. CASE Accept(e)
  <2> DEFINE c == ClassOf[e]
             x == [seq |-> counter + 1, event |-> e]
  <2>1. /\ queues' = [queues EXCEPT ![c] = Append(queues[c], x)]
        /\ queues[c] \in Seq(Entries) /\ x \in Entries
    BY <1>1, <1>2 DEF Accept, TypeOK, Entries
  <2>2. \A i \in DOMAIN queues[c] : queues[c][i].seq \in Nat /\ queues[c][i].seq < x.seq
    <3>1. \A i \in DOMAIN queues[c] : queues[c][i] \in Entries
      BY <2>1, ElementOfSeq, LenProperties
    <3> QED BY <1>1, <3>1 DEF DeliveryInOrder, Entries, TypeOK
  <2>3. \A i, j \in DOMAIN queues[c] : i < j => queues[c][i].seq < queues[c][j].seq
    BY <1>1 DEF DeliveryInOrder
  <2>4. /\ Append(queues[c], x) \in Seq(Entries)
        /\ \A i, j \in DOMAIN Append(queues[c], x) :
             i < j => Append(queues[c], x)[i].seq < Append(queues[c], x)[j].seq
        /\ \A i \in DOMAIN Append(queues[c], x) : Append(queues[c], x)[i].seq <= x.seq
    <3> HIDE DEF x, c
    <3> QED BY <2>1, <2>2, <2>3, AppendInOrder
  <2>5. DeliveryInOrder'
    <3>1. ASSUME NEW b \in Classes, b # c
          PROVE  /\ queues'[b] = queues[b]
                 /\ \A i \in DOMAIN queues[b] : queues[b][i].seq <= counter'
      <4>1. queues'[b] = queues[b] /\ queues[b] \in Seq(Entries)
        BY <2>1, <3>1 DEF TypeOK, Entries
      <4>2. \A i \in DOMAIN queues[b] : queues[b][i] \in Entries
        BY <4>1, ElementOfSeq, LenProperties
      <4> QED BY <3>1, <4>1, <4>2 DEF DeliveryInOrder, Publish, TypeOK, Entries
    <3>2. queues'[c] = Append(queues[c], x) /\ x.seq = counter'
      BY <1>1, <2>1 DEF TypeOK, Publish
    <3> HIDE DEF c, x
    <3>3. ASSUME NEW b \in Classes
          PROVE  /\ \A i, j \in DOMAIN queues'[b] :
                      i < j => queues'[b][i].seq < queues'[b][j].seq
                 /\ \A i \in DOMAIN queues'[b] : queues'[b][i].seq <= counter'
      BY <2>4, <3>1, <3>2 DEF DeliveryInOrder
    <3> QED BY <3>3 DEF DeliveryInOrder
  <2>6. TypeOK'
    <3>1. queues' \in [Classes -> Seq(Entries)]
      BY <1>1, <2>1, <2>4 DEF TypeOK, Entries
    <3>2. bytes' \in Nat /\ counter' \in Nat
      BY <1>1, <1>2 DEF Publish, Accept, TypeOK
    <3>3. DOMAIN rows' \subseteq Nat /\ rows' \in [DOMAIN rows' -> Nat]
      BY <1>2, AppendRowContinues DEF Publish, Accept
    <3> QED BY <1>0, <1>2, <3>1, <3>2, <3>3
            DEF Publish, Accept, TypeOK, ScheduleDrain, Entries
  <2>7. NothingStranded'
    BY <1>2 DEF Accept, ScheduleDrain, NothingStranded
  <2>8. NumbersContinueRows'
    BY <1>2, AppendRowContinues DEF Publish, Accept
  <2> QED BY <2>5, <2>6, <2>7, <2>8
<1>3. CASE Shed(e) /\ UNCHANGED <<queueVars, journal, rows, draining>>
  <2>1. TypeOK'
    BY <1>0, <1>1, <1>3 DEF Publish, TypeOK, queueVars
  <2>2. NothingStranded' /\ NumbersContinueRows'
    BY <1>3 DEF Publish, NothingStranded, NumbersContinueRows, queueVars, TypeOK
  <2>3. DeliveryInOrder'
    BY <1>1, <1>3, QueuesUntouched DEF Publish, queueVars, TypeOK
  <2> QED BY <2>1, <2>2, <2>3
<1> QED BY <1>2, <1>3 DEF Publish

LEMMA DeliverIInv ==
  ASSUME IInv, NEW c \in Classes, Deliver(c)
  PROVE  IInv'
<1> USE DEF IInv
<1>1. /\ queues[c] \in Seq(Entries) /\ queues[c] # <<>>
      /\ queues' = [queues EXCEPT ![c] = Tail(queues[c])]
  BY DEF Deliver, Ready, TypeOK, Entries
<1>2. /\ Tail(queues[c]) \in Seq(Entries)
      /\ Head(queues[c]) \in Entries
      /\ \A i, j \in DOMAIN Tail(queues[c]) :
           i < j => Tail(queues[c])[i].seq < Tail(queues[c])[j].seq
      /\ \A i \in DOMAIN Tail(queues[c]) : Tail(queues[c])[i].seq <= counter
  BY <1>1, TailInOrder DEF DeliveryInOrder, TypeOK
<1>3. DeliveryInOrder'
  <2>1. queues'[c] = Tail(queues[c]) /\ \A b \in Classes : b # c => queues'[b] = queues[b]
    BY <1>1 DEF TypeOK
  <2>2. ASSUME NEW b \in Classes
        PROVE  /\ \A i, j \in DOMAIN queues'[b] :
                    i < j => queues'[b][i].seq < queues'[b][j].seq
               /\ \A i \in DOMAIN queues'[b] : queues'[b][i].seq <= counter
    BY <1>2, <2>1 DEF DeliveryInOrder
  <2> QED BY <2>2 DEF DeliveryInOrder, Deliver
<1>4. TypeOK'
  <2>1. queues' \in [Classes -> Seq(Entries)]
    BY <1>1, <1>2 DEF TypeOK, Entries
  <2>2. bytes' \in Nat
    <3>1. SizeOf[Head(queues[c]).event] \in Nat
      BY <1>2, EventsAssumption DEF Entries
    <3> QED BY <3>1, SMTT(30) DEF Deliver, BytesWithoutHead, TypeOK
  <2>3. at' \in Classes /\ done' \in Nat
    BY DEF Deliver, TypeOK
  <2>4. UNCHANGED <<counter, age, draining, sink, rows, run, other, shared>>
    BY DEF Deliver, durableVars
  <2> QED BY <2>1, <2>2, <2>3, <2>4 DEF TypeOK, Entries
<1>5. NothingStranded' /\ NumbersContinueRows'
  BY DEF Deliver, NothingStranded, NumbersContinueRows, durableVars
<1> QED BY <1>3, <1>4, <1>5

LEMMA AttachIInv ==
  ASSUME IInv, Attach
  PROVE  IInv'
<1> USE DEF IInv
<1>1. CASE sink' = "unread" /\ UNCHANGED <<journal, counter>>
  <2>1. TypeOK' /\ NothingStranded'
    BY <1>1 DEF Attach, TypeOK, NothingStranded, queueVars, drainVars
  <2>2. NumbersContinueRows'
    BY <1>1 DEF Attach, NumbersContinueRows, TypeOK
  <2>3. DeliveryInOrder'
    BY <1>1, QueuesUntouched DEF Attach, queueVars
  <2> QED BY <2>1, <2>2, <2>3
<1>2. CASE sink' = "loaded"
  <2>1. /\ counter' \in Nat /\ counter <= counter'
        /\ \A s \in DOMAIN rows : s <= counter'
    <3>1. CASE DOMAIN rows = {}
      BY <1>2, <3>1 DEF Attach, TypeOK
    <3>2. CASE DOMAIN rows # {}
      <4>1. PICK s \in DOMAIN rows : Newest(s) /\ counter' = Continue(s)
        BY <1>2, <3>2 DEF Attach
      <4>2. s \in Nat /\ counter \in Nat /\ \A t \in DOMAIN rows : t <= s /\ t \in Nat
        BY <4>1 DEF TypeOK, Newest
      <4> QED BY <4>1, <4>2 DEF Continue
    <3> QED BY <3>1, <3>2
  <2>2. TypeOK' /\ NothingStranded'
    BY <1>2, <2>1 DEF Attach, TypeOK, NothingStranded, queueVars, drainVars
  <2>3. NumbersContinueRows'
    BY <1>2, <2>1 DEF Attach, NumbersContinueRows, TypeOK
  <2>4. DeliveryInOrder'
    BY <2>1, QueuesUntouched DEF Attach, queueVars
  <2> QED BY <2>2, <2>3, <2>4
<1> QED BY <1>1, <1>2 DEF Attach

LEMMA OtherIInv ==
  ASSUME IInv, OtherAttach \/ OtherAppend \/ OtherLeave
  PROVE  IInv' /\ \A s \in DOMAIN rows : \/ s \in DOMAIN rows' /\ rows'[s] = rows[s]
                                         \/ shared \/ sink = "unread"
<1> USE DEF IInv
<1>1. UNCHANGED <<queueVars, counter, age, drainVars, sink, run>>
  BY DEF OtherAttach, OtherAppend, OtherLeave
<1>2. DeliveryInOrder' /\ NothingStranded'
  BY <1>1, QueuesUntouched DEF NothingStranded, queueVars, drainVars, IInv
<1>3. CASE OtherAttach
  <2>1. /\ other' \in Nat /\ \A s \in DOMAIN rows : s <= other'
    <3>1. CASE DOMAIN rows = {}
      BY <1>3, <3>1 DEF OtherAttach
    <3>2. CASE DOMAIN rows # {}
      <4>1. PICK s \in DOMAIN rows : Newest(s) /\ other' = s
        BY <1>3, <3>2 DEF OtherAttach
      <4> QED BY <4>1 DEF TypeOK, Newest
    <3> QED BY <3>1, <3>2
  <2>2. TypeOK'
    BY <1>3, <2>1 DEF OtherAttach, TypeOK, queueVars, drainVars
  <2>3. NumbersContinueRows'
    BY <1>3, <2>1 DEF OtherAttach, NumbersContinueRows, TypeOK
  <2> QED BY <1>2, <1>3, <2>2, <2>3 DEF OtherAttach
<1>4. CASE OtherAppend
  <2>1. /\ DOMAIN rows' = DOMAIN rows \cup {other + 1}
        /\ \A t \in DOMAIN rows' : rows'[t] = IF t = other + 1 THEN Other ELSE rows[t]
        /\ rows' = [t \in DOMAIN rows' |-> rows'[t]]
    BY <1>4 DEF OtherAppend, Row
  <2>2. other \in Nat /\ other' = other + 1
    BY <1>4 DEF OtherAppend, TypeOK, Away
  <2>3. DOMAIN rows' \subseteq Nat /\ rows' \in [DOMAIN rows' -> Nat]
    <3>1. DOMAIN rows' \subseteq Nat /\ \A t \in DOMAIN rows' : rows'[t] \in Nat
      BY <2>1, <2>2 DEF TypeOK, Other
    <3> QED BY <2>1, <3>1
  <2>4. TypeOK'
    <3>1. other' \in Nat \cup {Away}
      BY <2>2
    <3>2. UNCHANGED <<queues, bytes, counter, age, draining, at, done, sink, run, shared>>
      BY <1>1, <1>4 DEF OtherAppend, queueVars, drainVars
    <3> QED BY <2>3, <3>1, <3>2 DEF TypeOK
  <2>5. NumbersContinueRows'
    BY <1>4, <2>1, <2>2 DEF OtherAppend, NumbersContinueRows, Away, TypeOK
  <2>6. ~shared => other + 1 \notin DOMAIN rows
    BY <1>4, <2>2 DEF OtherAppend, NumbersContinueRows
  <2> QED BY <1>2, <2>1, <2>4, <2>5, <2>6
<1>5. CASE OtherLeave
  <2>1. TypeOK' /\ NumbersContinueRows'
    BY <1>5 DEF OtherLeave, TypeOK, NumbersContinueRows, queueVars, drainVars
  <2> QED BY <1>2, <1>5, <2>1 DEF OtherLeave
<1> QED BY <1>3, <1>4, <1>5

\* The invariant is inductive, and no step replaces a row it must not.
LEMMA NextIInv ==
  ASSUME IInv, [Next]_vars
  PROVE  IInv' /\ \A s \in DOMAIN rows : \/ s \in DOMAIN rows' /\ rows'[s] = rows[s]
                                         \/ shared \/ sink = "unread"
<1> USE DEF IInv
<1>1. CASE \E e \in Events : Publish(e)
  <2>1. PICK e \in Events : Publish(e)
    BY <1>1
  <2>2. CASE Accept(e)
    BY <2>1, <2>2, PublishIInv, AppendRowContinues DEF Publish, Accept
  <2>3. CASE UNCHANGED rows
    BY <2>1, <2>3, PublishIInv
  <2> QED BY <2>1, <2>2, <2>3 DEF Publish
<1>2. CASE Tick
  <2>1. TypeOK'
    BY <1>2, SmallStepsTypeOK
  <2>2. NothingStranded' /\ NumbersContinueRows' /\ UNCHANGED rows
    BY <1>2 DEF Tick, NothingStranded, NumbersContinueRows, queueVars, drainVars, durableVars
  <2>3. DeliveryInOrder'
    BY <1>2, QueuesUntouched DEF Tick, queueVars
  <2> QED BY <2>1, <2>2, <2>3
<1>3. CASE StartDrain
  <2>1. TypeOK'
    BY <1>3, SmallStepsTypeOK
  <2>2. NothingStranded' /\ NumbersContinueRows' /\ UNCHANGED rows
    BY <1>3 DEF StartDrain, NothingStranded, NumbersContinueRows, queueVars, durableVars
  <2>3. DeliveryInOrder'
    BY <1>3, QueuesUntouched DEF StartDrain, queueVars
  <2> QED BY <2>1, <2>2, <2>3
<1>4. CASE \E c \in Classes : Deliver(c)
  BY <1>4, DeliverIInv DEF Deliver, durableVars
<1>5. CASE EndRound
  <2>1. TypeOK'
    BY <1>5, SmallStepsTypeOK
  <2>2. NothingStranded' /\ NumbersContinueRows' /\ UNCHANGED rows
    BY <1>5 DEF EndRound, AfterRound, NothingStranded, NumbersContinueRows,
                queueVars, durableVars
  <2>3. DeliveryInOrder'
    BY <1>5, QueuesUntouched DEF EndRound, queueVars
  <2> QED BY <2>1, <2>2, <2>3
<1>6. CASE Attach
  BY <1>6, AttachIInv DEF Attach
<1>7. CASE Crash
  <2>1. TypeOK'
    BY <1>7, SmallStepsTypeOK
  <2>2. NothingStranded' /\ NumbersContinueRows' /\ UNCHANGED rows
    BY <1>7 DEF Crash, NothingStranded, NumbersContinueRows
  <2>3. DeliveryInOrder'
    BY <1>7 DEF Crash, DeliveryInOrder
  <2> QED BY <2>1, <2>2, <2>3
<1>8. CASE OtherAttach \/ OtherAppend \/ OtherLeave
  BY <1>8, OtherIInv
<1>9. CASE UNCHANGED vars
  <2>0. TypeOK'
    BY <1>9, SmallStepsTypeOK
  <2>1. NothingStranded' /\ NumbersContinueRows' /\ UNCHANGED rows
    BY <1>9 DEF vars, NothingStranded, NumbersContinueRows,
                queueVars, drainVars, durableVars
  <2>2. DeliveryInOrder'
    BY <1>9, QueuesUntouched DEF vars, queueVars
  <2> QED BY <2>0, <2>1, <2>2
<1> QED BY <1>1, <1>2, <1>3, <1>4, <1>5, <1>6, <1>7, <1>8, <1>9 DEF Next

-----------------------------------------------------------------------------
(* The theorems.                                                           *)

\* The invariant holds in every reachable state.
THEOREM Invariance == Spec => []IInv
  BY InitIInv, NextIInv, PTL DEF Spec

\* Every variable keeps its type, whatever is published, shed or lost.
THEOREM TypeCorrect == Spec => []TypeOK
  BY Invariance, PTL DEF IInv

\* Whatever the order of publishing, draining and yielding, no event is left
\* in a queue that no drain will look at.
THEOREM NoEventIsStranded == Spec => []NothingStranded
  BY Invariance, PTL DEF IInv

\* The events of a class are delivered in the order they were numbered in.
THEOREM DeliveriesAreInOrder == Spec => []DeliveryInOrder
  BY Invariance, PTL DEF IInv

\* A row of the durable journal survives crashes and restarts, as long as one
\* process has the journal at a time and reads it when it attaches.
THEOREM DurableRowsSurvive == Spec => RowsSurvive
<1>1. IInv /\ [Next]_vars =>
        [\A s \in DOMAIN rows : \/ s \in DOMAIN rows' /\ rows'[s] = rows[s]
                                \/ shared \/ sink = "unread"]_vars
  BY NextIInv
<1> QED BY <1>1, Invariance, PTL DEF Spec, RowsSurvive
-----------------------------------------------------------------------------
(* Fairness between the classes: where a round is bounds how long a class  *)
(* with an event has been waiting.                                         *)

\* The quotas of the classes before a class, and up to it.
Before(c) ==
  (IF c > CRITICAL THEN Quota[CRITICAL] ELSE 0)
    + (IF c > HIGH THEN Quota[HIGH] ELSE 0)
    + (IF c > NORMAL THEN Quota[NORMAL] ELSE 0)

Upto(c) == Before(c) + Quota[c]

\* Since its last delivery a class the round has passed has seen the classes
\* after it up to here; one the round has yet to come to has seen those after
\* it in the round before as well.
LongestWait(c) ==
  IF c < at THEN Before(at) + done - Upto(c)
  ELSE IF c = at /\ done > 0 THEN 0
  ELSE AllQuotas - Upto(c) + Before(at) + done

TurnInv ==
  /\ waited \in [Classes -> Nat]
  /\ done <= Quota[at]
  /\ draining # "running" => at = CRITICAL /\ done = 0
  /\ \A c \in Classes :
       /\ queues[c] = <<>> => waited[c] = 0
       /\ queues[c] # <<>> => waited[c] <= LongestWait(c)

LEMMA QuotaSums ==
  /\ \A c \in Classes : /\ Before(c) \in Nat /\ Quota[c] \in Nat \ {0}
                        /\ Upto(c) <= AllQuotas /\ c \in Nat
  /\ \A c, d \in Classes : c < d => Upto(c) <= Before(d)
  /\ Before(CRITICAL) = 0 /\ CRITICAL \in Classes /\ AllQuotas \in Nat
<1>1. /\ Quota[1] \in Nat \ {0} /\ Quota[2] \in Nat \ {0}
      /\ Quota[3] \in Nat \ {0} /\ Quota[4] \in Nat \ {0}
  BY QuotaAssumption DEF Classes
<1>2. Classes = {1, 2, 3, 4}
  BY DEF Classes
<1> QED
  BY <1>1, <1>2 DEF Before, Upto, AllQuotas, CRITICAL, HIGH, NORMAL, LOW

LEMMA WaitBounds ==
  ASSUME TypeOK, done <= Quota[at], NEW c \in Classes
  PROVE  /\ c < at => LongestWait(c) = Before(at) + done - Upto(c)
         /\ c = at /\ done > 0 => LongestWait(c) = 0
         /\ c > at \/ (c = at /\ done = 0)
              => LongestWait(c) = AllQuotas - Upto(c) + Before(at) + done
         /\ LongestWait(c) \in Int /\ LongestWait(c) >= 0
         /\ LongestWait(c) <= AllQuotas - Quota[c]
<1>1. /\ at \in Nat /\ c \in Nat /\ done \in Nat
      /\ Before(c) \in Nat /\ Quota[c] \in Nat /\ Upto(c) <= AllQuotas
      /\ Before(at) \in Nat /\ Quota[at] \in Nat /\ Upto(at) <= AllQuotas
      /\ AllQuotas \in Nat
      /\ c < at => Upto(c) <= Before(at)
      /\ at < c => Upto(at) <= Before(c)
  BY QuotaSums DEF TypeOK
<1>2. CASE c < at
  BY <1>1, <1>2 DEF LongestWait, Upto
<1>3. CASE c = at /\ done > 0
  BY <1>1, <1>3 DEF LongestWait, Upto
<1>4. CASE c > at
  BY <1>1, <1>4 DEF LongestWait, Upto
<1>5. CASE c = at /\ done = 0
  BY <1>1, <1>5 DEF LongestWait, Upto
<1> QED BY <1>1, <1>2, <1>3, <1>4, <1>5

\* What a step that delivers nothing does to the history.
LEMMA QuietStepWaits ==
  ASSUME TypeOK, TurnInv, TurnNext,
         \A c \in Classes : ~ Delivered(c)
  PROVE  /\ waited' \in [Classes -> Nat]
         /\ \A c \in Classes :
              waited'[c] = IF queues[c] = <<>> \/ queues'[c] = <<>>
                           THEN 0 ELSE waited[c]
BY DEF TurnNext, TurnInv

\* A step that delivers nothing and leaves the place in the round.
LEMMA QuietStepKeepsTurns ==
  ASSUME TypeOK, TurnInv, TurnNext,
         \A c \in Classes : ~ Delivered(c),
         UNCHANGED <<at, done>>,
         draining' = draining \/ (at = CRITICAL /\ done = 0)
  PROVE  TurnInv'
<1>1. /\ waited' \in [Classes -> Nat]
      /\ \A c \in Classes :
           waited'[c] = IF queues[c] = <<>> \/ queues'[c] = <<>>
                        THEN 0 ELSE waited[c]
  BY QuietStepWaits
<1>2. \A c \in Classes : LongestWait(c)' = LongestWait(c)
  BY DEF LongestWait, Before
<1>3. ASSUME NEW c \in Classes
      PROVE  /\ queues'[c] = <<>> => waited'[c] = 0
             /\ queues'[c] # <<>> => waited'[c] <= LongestWait(c)'
  <2>1. LongestWait(c) >= 0
    BY WaitBounds DEF TurnInv
  <2> QED BY <1>1, <1>2, <2>1 DEF TurnInv
<1> QED BY <1>1, <1>3 DEF TurnInv

\* An event of a class is delivered.
LEMMA DeliverKeepsTurns ==
  ASSUME TypeOK, TypeOK', TurnInv, TurnNext, NEW c \in Classes, Deliver(c)
  PROVE  TurnInv'
<1>1. /\ c \in Nat /\ at \in Classes /\ at \in Nat
      /\ done \in Nat /\ done <= Quota[at]
      /\ c \in Ready /\ queues[c] # <<>>
  BY QuotaSums DEF Deliver, Ready, TypeOK, TurnInv
<1>2. /\ draining = "running" /\ draining' = "running"
      /\ queues' = [queues EXCEPT ![c] = Tail(queues[c])]
      /\ at' = c
      /\ c = at => done' = done + 1
      /\ c # at => done' = 1
      /\ at < c \/ (at = c /\ done < Quota[c])
  BY <1>1 DEF Deliver, Ready
<1>3. ASSUME NEW d \in Classes, queues[d] # <<>>, at <= d, d < c
      PROVE  d = at /\ done = Quota[d] /\ done > 0
  <2>1. d \in Nat /\ Quota[d] \in Nat \ {0}
    BY QuotaSums
  <2>2. ~ (c <= d)
    BY <1>1, <1>3, <2>1
  <2>3. d \notin Ready
    BY <2>2 DEF Deliver
  <2>4. ~ (d > at) /\ ~ (d = at /\ done < Quota[d])
    BY <1>3, <2>3 DEF Ready
  <2>5. d = at
    BY <1>1, <1>3, <2>1, <2>4
  <2> QED BY <1>1, <2>1, <2>4, <2>5
<1>4. Delivered(c) /\ \A d \in Classes : d # c => queues'[d] = queues[d]
  <2>1. queues[c] \in Seq(Entries) /\ queues'[c] = Tail(queues[c])
    BY <1>2 DEF TypeOK, Entries
  <2>2. Len(Tail(queues[c])) = Len(queues[c]) - 1 /\ Len(queues[c]) \in Nat
    BY <1>1, <2>1, HeadTailProperties, LenProperties
  <2> QED BY <1>2, <2>1, <2>2 DEF Delivered, TypeOK
<1>5. /\ waited' \in [Classes -> Nat]
      /\ \A d \in Classes :
           waited'[d] = IF queues[d] = <<>> \/ queues'[d] = <<>> \/ Delivered(d)
                        THEN 0 ELSE waited[d] + 1
  BY <1>4 DEF TurnNext, TurnInv
<1>6. done' <= Quota[at'] /\ done' \in Nat \ {0}
  <2>1. Quota[c] \in Nat \ {0}
    BY QuotaSums
  <2> QED BY <1>1, <1>2, <2>1
<1>7. ASSUME NEW d \in Classes
      PROVE  /\ queues'[d] = <<>> => waited'[d] = 0
             /\ queues'[d] # <<>> => waited'[d] <= LongestWait(d)'
  <2>1. /\ d < c => LongestWait(d)' = Before(c) + done' - Upto(d)
        /\ d > c => LongestWait(d)' = AllQuotas - Upto(d) + Before(c) + done'
        /\ LongestWait(d)' >= 0
    <3>1. /\ d < c => LongestWait(d)' = Before(c) + done' - Upto(d)
          /\ d = c => LongestWait(d)' = 0
          /\ d > c => LongestWait(d)' = AllQuotas - Upto(d) + Before(c) + done'
      <4>1. Before(at)' = Before(c) /\ Upto(d)' = Upto(d) /\ AllQuotas' = AllQuotas
        BY <1>2 DEF Before, Upto, AllQuotas
      <4>2. d \in Nat
        BY QuotaSums
      <4>3. LongestWait(d)' =
              IF d < c THEN Before(c) + done' - Upto(d)
              ELSE IF d = c /\ done' > 0 THEN 0
              ELSE AllQuotas - Upto(d) + Before(c) + done'
        BY <1>2, <4>1 DEF LongestWait
      <4>4. CASE d < c
        BY <1>1, <4>2, <4>3, <4>4
      <4>5. CASE d = c
        BY <1>1, <1>6, <4>2, <4>3, <4>5
      <4>6. CASE d > c
        BY <1>1, <4>2, <4>3, <4>6
      <4> QED BY <1>1, <4>2, <4>4, <4>5, <4>6
    <3>2. /\ Before(c) \in Nat /\ Before(d) \in Nat /\ Quota[d] \in Nat
          /\ Upto(d) <= AllQuotas /\ AllQuotas \in Nat /\ d \in Nat
          /\ d < c => Upto(d) <= Before(c)
      BY QuotaSums
    <3>3. done' \in Nat /\ c \in Nat /\ Upto(d) \in Nat
      BY <1>1, <1>6, <3>2 DEF Upto
    <3>4. CASE d < c
      BY <3>1, <3>2, <3>3, <3>4
    <3>5. CASE d = c
      BY <3>1, <3>2, <3>3, <3>5
    <3>6. CASE d > c
      BY <3>1, <3>2, <3>3, <3>6
    <3> QED BY <3>2, <3>3, <3>4, <3>5, <3>6
  <2>2. Before(at) + done + 1 <= Before(c) + done'
    <3>1. /\ Before(at) \in Nat /\ Before(c) \in Nat /\ Quota[at] \in Nat
          /\ at < c => Before(at) + Quota[at] <= Before(c)
      BY <1>1, QuotaSums DEF Upto
    <3> QED BY <1>1, <1>2, <3>1
  <2>3. CASE d = c \/ queues[d] = <<>> \/ queues'[d] = <<>>
    <3>1. waited'[d] = 0
      BY <1>4, <1>5, <2>3
    <3> QED BY <2>1, <3>1
  <2>4. CASE d # c /\ queues[d] # <<>> /\ queues'[d] # <<>>
    <3>1. /\ waited'[d] = waited[d] + 1
          /\ waited[d] \in Nat /\ waited[d] <= LongestWait(d)
      BY <1>4, <1>5, <2>4 DEF Delivered, TurnInv
    <3>2. /\ Before(c) \in Nat /\ Before(d) \in Nat /\ Quota[d] \in Nat /\ d \in Nat
          /\ Upto(d) \in Nat /\ Upto(d) <= AllQuotas /\ AllQuotas \in Nat
          /\ Before(at) \in Nat
          /\ d < c => Upto(d) <= Before(c)
      <4>1. /\ Before(c) \in Nat /\ Before(d) \in Nat /\ Quota[d] \in Nat /\ d \in Nat
            /\ Upto(d) <= AllQuotas /\ AllQuotas \in Nat /\ Before(at) \in Nat
            /\ d < c => Upto(d) <= Before(c)
        BY <1>1, QuotaSums
      <4> QED BY <4>1 DEF Upto
    <3>3. CASE d < at
      <4>1. LongestWait(d) = Before(at) + done - Upto(d)
        BY <3>3, WaitBounds DEF TurnInv
      <4>2. d < c
        BY <1>1, <1>2, <3>2, <3>3
      <4>3. waited'[d] <= Before(c) + done' - Upto(d)
        <5>1. done \in Nat /\ done' \in Nat
          BY <1>1, <1>6
        <5> QED BY <2>2, <3>1, <3>2, <4>1, <5>1
      <4> QED BY <2>1, <2>4, <4>2, <4>3
    <3>4. CASE d >= at /\ d < c
      <4>1. d = at /\ done > 0
        BY <1>3, <2>4, <3>4
      <4>2. LongestWait(d) = 0
        BY <4>1, WaitBounds DEF TurnInv
      <4> QED BY <1>6, <2>1, <2>4, <3>1, <3>2, <3>4, <4>2, SMTT(30)
    <3>5. CASE d > c
      <4>1. d > at
        BY <1>1, <1>2, <3>2, <3>5
      <4>2. LongestWait(d) = AllQuotas - Upto(d) + Before(at) + done
        BY <4>1, WaitBounds DEF TurnInv
      <4>3. waited'[d] <= AllQuotas - Upto(d) + Before(c) + done'
        <5>1. done \in Nat /\ done' \in Nat
          BY <1>1, <1>6
        <5> QED BY <2>2, <3>1, <3>2, <4>2, <5>1
      <4> QED BY <2>1, <2>4, <3>5, <4>3
    <3> QED BY <1>1, <2>4, <3>2, <3>3, <3>4, <3>5
  <2> QED BY <2>3, <2>4
<1> QED BY <1>2, <1>5, <1>6, <1>7 DEF TurnInv

\* A round ends: every class with an event has had its quota.
LEMMA EndRoundKeepsTurns ==
  ASSUME TypeOK, TurnInv, TurnNext, EndRound
  PROVE  TurnInv'
<1>1. /\ queues' = queues /\ at' = CRITICAL /\ done' = 0
      /\ at \in Classes /\ at \in Nat /\ done \in Nat /\ done <= Quota[at]
  BY QuotaSums DEF EndRound, queueVars, TypeOK, TurnInv
<1>2. /\ waited' \in [Classes -> Nat]
      /\ \A c \in Classes :
           waited'[c] = IF queues[c] = <<>> THEN 0 ELSE waited[c]
  <2>1. \A c \in Classes : ~ Delivered(c)
    BY <1>1, LenProperties DEF Delivered, TypeOK
  <2> QED BY <1>1, <2>1, QuietStepWaits
<1>3. ASSUME NEW c \in Classes, queues[c] # <<>>
      PROVE  waited[c] <= LongestWait(c)'
  <2>1. /\ c \in Nat /\ Before(c) \in Nat /\ Quota[c] \in Nat \ {0}
        /\ Upto(c) \in Nat /\ Upto(c) <= AllQuotas /\ AllQuotas \in Nat
        /\ Before(at) \in Nat /\ Quota[at] \in Nat /\ Before(at) + Quota[at] <= AllQuotas
    BY <1>1, QuotaSums DEF Upto
  <2>2. c < at \/ (c = at /\ done > 0)
    <3>1. ~ (c > at) /\ ~ (c = at /\ done < Quota[c])
      BY <1>3 DEF EndRound, Ready
    <3> QED BY <1>1, <2>1, <3>1
  <2>3. LongestWait(c)' = AllQuotas - Upto(c)
    BY <1>1, <2>1 DEF LongestWait, Upto, Before, CRITICAL, HIGH, NORMAL, Classes
  <2>4. waited[c] \in Nat /\ waited[c] <= LongestWait(c)
    BY <1>3 DEF TurnInv
  <2>5. c < at => LongestWait(c) = Before(at) + done - Upto(c)
    BY WaitBounds DEF TurnInv
  <2>6. c = at /\ done > 0 => LongestWait(c) = 0
    BY WaitBounds DEF TurnInv
  <2> QED BY <1>1, <2>1, <2>2, <2>3, <2>4, <2>5, <2>6
<1>4. done' <= Quota[at']
  BY <1>1, QuotaSums
<1> QED BY <1>1, <1>2, <1>3, <1>4 DEF TurnInv

LEMMA TurnNextKeepsTurns ==
  ASSUME IInv, IInv', TurnInv, [TurnNext]_<<vars, waited>>
  PROVE  TurnInv'
<1> USE DEF IInv
<1>1. ASSUME TurnNext, NEW e \in Events, Publish(e) PROVE TurnInv'
  <2>1. ASSUME NEW c \in Classes PROVE ~ Delivered(c)
    <3>1. queues[c] \in Seq(Entries) /\ Len(queues[c]) \in Nat
      BY LenProperties DEF TypeOK, Entries
    <3>2. CASE queues' = queues
      BY <3>1, <3>2 DEF Delivered
    <3>3. CASE Accept(e)
      <4> DEFINE x == [seq |-> counter + 1, event |-> e]
      <4>1. x \in Entries
        BY SMTT(30) DEF Entries, TypeOK
      <4>2. queues'[c] = queues[c] \/ queues'[c] = Append(queues[c], x)
        BY <3>3 DEF Accept, TypeOK
      <4> HIDE DEF x
      <4>3. Len(Append(queues[c], x)) = Len(queues[c]) + 1
        BY <3>1, <4>1, AppendProperties
      <4> QED BY <3>1, <4>2, <4>3 DEF Delivered
    <3> QED BY <1>1, <3>2, <3>3 DEF Publish, queueVars
  <2>2. UNCHANGED <<at, done>> /\ (draining' = draining \/ (at = CRITICAL /\ done = 0))
    BY <1>1 DEF Publish, Accept, ScheduleDrain, TurnInv
  <2> QED BY <1>1, <2>1, <2>2, QuietStepKeepsTurns
<1>2. ASSUME TurnNext,
             \/ Tick \/ StartDrain \/ Attach
             \/ OtherAttach \/ OtherAppend \/ OtherLeave
      PROVE  TurnInv'
  <2>1. /\ queues' = queues
        /\ UNCHANGED <<at, done>> /\ (draining' = draining \/ (at = CRITICAL /\ done = 0))
    BY <1>2 DEF Tick, StartDrain, Attach, OtherAttach, OtherAppend, OtherLeave,
                queueVars, drainVars, TurnInv
  <2>2. \A c \in Classes : ~ Delivered(c)
    BY <2>1, LenProperties DEF Delivered, TypeOK
  <2> QED BY <1>2, <2>1, <2>2, QuietStepKeepsTurns
<1>3. ASSUME TurnNext, Crash PROVE TurnInv'
  <2>1. \A c \in Classes : queues'[c] = <<>>
    BY <1>3 DEF Crash
  <2>2. waited' = [c \in Classes |-> 0]
    BY <1>3, <2>1 DEF TurnNext
  <2>3. at' = CRITICAL /\ done' = 0
    BY <1>3 DEF Crash
  <2> QED BY <2>1, <2>2, <2>3, QuotaSums DEF TurnInv
<1>4. CASE UNCHANGED <<vars, waited>>
  BY <1>4 DEF vars, TurnInv, LongestWait, Before, queueVars, drainVars
<1> QED
  BY <1>1, <1>2, <1>3, <1>4, DeliverKeepsTurns, EndRoundKeepsTurns DEF Next, TurnNext

\* No class waits for more than one round of the others' quotas, for any
\* quotas and however much is published.
THEOREM NoClassStarves == TurnSpec => []ClassesTakeTurns
<1>1. TurnInit => Init /\ TurnInv
  <2> SUFFICES ASSUME TurnInit PROVE TurnInv
    BY DEF TurnInit
  <2> QED BY QuotaSums DEF TurnInit, Init, TurnInv
<1>2. [TurnNext]_<<vars, waited>> => [Next]_vars
  BY DEF TurnNext
<1>3. IInv /\ IInv' /\ TurnInv /\ [TurnNext]_<<vars, waited>> => TurnInv'
  BY TurnNextKeepsTurns
<1>4. IInv /\ TurnInv => ClassesTakeTurns
  <2> SUFFICES ASSUME IInv, TurnInv, NEW c \in Classes
               PROVE  waited[c] <= AllQuotas - Quota[c]
    BY DEF ClassesTakeTurns
  <2>1. waited[c] = 0 \/ waited[c] <= LongestWait(c)
    BY DEF TurnInv
  <2>2. /\ LongestWait(c) \in Int /\ LongestWait(c) >= 0
        /\ LongestWait(c) <= AllQuotas - Quota[c]
    BY WaitBounds DEF IInv, TurnInv
  <2>3. waited[c] \in Nat /\ AllQuotas \in Nat /\ Quota[c] \in Nat
    BY QuotaSums DEF TurnInv
  <2> QED BY <2>1, <2>2, <2>3
<1> QED BY <1>1, <1>2, <1>3, <1>4, Invariance, PTL DEF Spec, TurnSpec

-----------------------------------------------------------------------------
(* How much is queued.  The sizes add up by a recursive function, which is *)
(* shown here to exist and to follow what joins and leaves a queue.        *)

\* f adds up the first n numbers of w.
Sums(f, n, w) == f[0] = 0 /\ \A i \in 1 .. n : f[i] = f[i - 1] + w[i]

\* Induction over a set of numbers, from the least number it would lack.
LEMMA Counting ==
  ASSUME NEW S \in SUBSET Nat, 0 \in S, \A n \in S : n + 1 \in S
  PROVE  S = Nat
<1> SUFFICES ASSUME S # Nat PROVE FALSE
  OBVIOUS
<1> DEFINE less == OpToRel(<, Nat)
<1>1. PICK n \in Nat \ S : \A m \in Nat \ S : ~ (<<m, n>> \in less)
  <2>1. IsWellFoundedOn(less, Nat)
    BY NatLessThanWellFounded
  <2>2. Nat \ S # {} /\ Nat \ S \subseteq Nat
    OBVIOUS
  <2> HIDE DEF less
  <2> QED BY <2>1, <2>2, WFMin
<1>2. ASSUME NEW m \in Nat \ S PROVE n <= m
  <2>1. ~ (<<m, n>> \in less)
    BY <1>1
  <2>2. <<m, n>> \in less <=> m < n
    BY DEF OpToRel
  <2> HIDE DEF less
  <2> QED BY <2>1, <2>2
<1> HIDE DEF less
<1>3. n # 0 /\ n - 1 \in Nat
  OBVIOUS
<1>4. n - 1 \in S
  BY <1>2, <1>3
<1>5. (n - 1) + 1 \in S
  BY <1>4
<1> QED BY <1>5

\* There is such an f, and any two agree.
LEMMA SumsExist ==
  ASSUME NEW w, NEW n \in Nat, \A i \in 1 .. n : w[i] \in Nat
  PROVE  \E f \in [0 .. n -> Nat] : Sums(f, n, w)
<1> DEFINE S == {k \in Nat : k <= n => \E f \in [0 .. k -> Nat] : Sums(f, k, w)}
<1>1. 0 \in S
  <2>1. [i \in 0 .. 0 |-> 0] \in [0 .. 0 -> Nat] /\ Sums([i \in 0 .. 0 |-> 0], 0, w)
    BY DEF Sums
  <2> QED BY <2>1
<1>2. ASSUME NEW k \in S PROVE k + 1 \in S
  <2> SUFFICES ASSUME k + 1 <= n
               PROVE  \E f \in [0 .. k + 1 -> Nat] : Sums(f, k + 1, w)
    OBVIOUS
  <2>1. PICK f \in [0 .. k -> Nat] : Sums(f, k, w)
    BY <1>2
  <2> DEFINE g == [i \in 0 .. k + 1 |-> IF i = k + 1 THEN f[k] + w[k + 1] ELSE f[i]]
  <2>2. g \in [0 .. k + 1 -> Nat]
    BY <1>2, <2>1
  <2>3. k \in Nat /\ g[0] = f[0] /\ g[k + 1] = f[k] + w[k + 1] /\ \A i \in 0 .. k : g[i] = f[i]
    BY <1>2, <2>1
  <2> HIDE DEF g
  <2>4. ASSUME NEW i \in 1 .. k + 1 PROVE g[i] = g[i - 1] + w[i]
    <3>1. CASE i = k + 1
      BY <2>3, <3>1
    <3>2. CASE i \in 1 .. k
      <4>1. i - 1 \in 0 .. k /\ i \in 0 .. k
        BY <2>3, <3>2
      <4>2. f[i] = f[i - 1] + w[i]
        BY <2>1, <3>2 DEF Sums
      <4> QED BY <2>3, <4>1, <4>2
    <3> QED BY <2>3, <3>1, <3>2
  <2>5. Sums(g, k + 1, w)
    BY <2>1, <2>3, <2>4 DEF Sums
  <2> QED BY <2>2, <2>5
<1> HIDE DEF S
<1>3. S = Nat
  BY <1>1, <1>2, Counting DEF S
<1> QED BY <1>3 DEF S

LEMMA SumsAgree ==
  ASSUME NEW n \in Nat, NEW f, NEW g, NEW v, NEW w, Sums(f, n, v), Sums(g, n, w),
         \A i \in 1 .. n : v[i] = w[i]
  PROVE  f[n] = g[n]
<1> DEFINE S == {k \in Nat : k <= n => f[k] = g[k]}
<1>1. 0 \in S
  BY DEF Sums
<1>2. ASSUME NEW k \in S PROVE k + 1 \in S
  BY <1>2 DEF Sums
<1> HIDE DEF S
<1>3. S = Nat
  BY <1>1, <1>2, Counting DEF S
<1> QED BY <1>3 DEF S

\* The size of each entry.
Weights(q) == [i \in 1 .. Len(q) |-> SizeOf[q[i].event]]

\* The recursive definition of the sizes is one, for every queue.
LEMMA SizesAddUp ==
  ASSUME NEW q \in Seq(Entries)
  PROVE  /\ \A i \in 1 .. Len(q) : Weights(q)[i] \in Nat
         /\ SizesUpTo(q) \in [0 .. Len(q) -> Nat]
         /\ Sums(SizesUpTo(q), Len(q), Weights(q))
<1>0. Len(q) \in Nat
  BY LenProperties
<1>1. \A i \in 1 .. Len(q) : Weights(q)[i] \in Nat
  <2> SUFFICES ASSUME NEW i \in 1 .. Len(q) PROVE SizeOf[q[i].event] \in Nat
    BY DEF Weights
  <2>1. q[i] \in Entries
    BY <1>0, ElementOfSeq
  <2> QED BY <2>1, EventsAssumption DEF Entries
<1> DEFINE Rule(h) == [i \in 0 .. Len(q) |-> IF i = 0 THEN 0 ELSE h[i - 1] + SizeOf[q[i].event]]
<1>2. PICK f \in [0 .. Len(q) -> Nat] : Sums(f, Len(q), Weights(q))
  BY <1>0, <1>1, SumsExist
<1>3. f = Rule(f)
  BY <1>0, <1>2 DEF Sums, Weights
<1>4. SizesUpTo(q) = Rule(SizesUpTo(q))
  BY <1>3 DEF SizesUpTo
<1>5. SizesUpTo(q)[0] = 0
  BY <1>0, <1>4
<1>6. \A i \in 1 .. Len(q) : SizesUpTo(q)[i] = SizesUpTo(q)[i - 1] + Weights(q)[i]
  BY <1>0, <1>4 DEF Weights
<1>7. Sums(SizesUpTo(q), Len(q), Weights(q))
  BY <1>5, <1>6 DEF Sums
<1>8. ASSUME NEW i \in 0 .. Len(q)
      PROVE  SizesUpTo(q)[i] = f[i]
  <2>1. Sums(SizesUpTo(q), i, Weights(q)) /\ Sums(f, i, Weights(q))
    BY <1>0, <1>2, <1>7 DEF Sums
  <2> QED BY <1>0, <2>1, SumsAgree
<1>9. \A i \in 0 .. Len(q) : SizesUpTo(q)[i] \in Nat
  BY <1>2, <1>8
<1>10. DOMAIN SizesUpTo(q) = 0 .. Len(q) /\ SizesUpTo(q) = [i \in 0 .. Len(q) |-> SizesUpTo(q)[i]]
  BY <1>4
<1> QED BY <1>1, <1>7, <1>9, <1>10

\* What the bytes of a queue become.
LEMMA BytesInType ==
  ASSUME NEW q \in Seq(Entries)
  PROVE  BytesIn(q) \in Nat
<1>1. Len(q) \in 0 .. Len(q)
  BY LenProperties
<1> QED BY <1>1, SizesAddUp DEF BytesIn

LEMMA BytesInNothing == BytesIn(<<>>) = 0
<1>1. <<>> \in Seq(Entries) /\ Len(<<>>) = 0
  OBVIOUS
<1> QED BY <1>1, SizesAddUp DEF BytesIn, Sums

LEMMA BytesInAppend ==
  ASSUME NEW q \in Seq(Entries), NEW x \in Entries
  PROVE  BytesIn(Append(q, x)) = BytesIn(q) + SizeOf[x.event]
<1> DEFINE n == Len(q)
           r == Append(q, x)
           f == SizesUpTo(q)
           g == SizesUpTo(r)
<1>1. /\ n \in Nat /\ r \in Seq(Entries) /\ Len(r) = n + 1
      /\ \A i \in 1 .. n : r[i] = q[i]
      /\ r[n + 1] = x
  BY LenProperties, AppendProperties
<1>2. Sums(f, n, Weights(q)) /\ Sums(g, n + 1, Weights(r))
  BY <1>1, SizesAddUp
<1>3. Weights(r)[n + 1] = SizeOf[x.event] /\ \A i \in 1 .. n : Weights(q)[i] = Weights(r)[i]
  BY <1>1 DEF Weights
<1> HIDE DEF n, r, f, g
<1>4. Sums(g, n, Weights(r)) /\ g[n + 1] = g[n] + SizeOf[x.event]
  BY <1>1, <1>2, <1>3 DEF Sums
<1>5. f[n] = g[n]
  BY <1>1, <1>2, <1>3, <1>4, SumsAgree
<1> QED BY <1>1, <1>4, <1>5 DEF BytesIn, n, r, f, g

LEMMA BytesInTail ==
  ASSUME NEW q \in Seq(Entries), q # <<>>
  PROVE  BytesIn(q) = SizeOf[Head(q).event] + BytesIn(Tail(q))
<1> DEFINE n == Len(q) - 1
           r == Tail(q)
           f == SizesUpTo(q)
           g == SizesUpTo(r)
           h == [i \in 0 .. n |-> f[i + 1] - f[1]]
<1>1. /\ n \in Nat /\ r \in Seq(Entries) /\ Len(r) = n
      /\ \A i \in 1 .. n : r[i] = q[i + 1]
      /\ Head(q) = q[1]
  BY LenProperties, HeadTailProperties, EmptySeq
<1>2. f \in [0 .. n + 1 -> Nat] /\ Sums(f, n + 1, Weights(q)) /\ Sums(g, n, Weights(r))
  BY <1>1, SizesAddUp, SMTT(30)
<1>3. /\ Weights(q)[1] = SizeOf[Head(q).event] /\ Weights(q)[1] \in Nat
      /\ \A i \in 1 .. n : Weights(r)[i] = Weights(q)[i + 1]
      /\ \A i \in 1 .. n : Weights(r)[i] \in Nat
  <2>1. 1 \in 1 .. Len(q) /\ \A i \in 1 .. n : i + 1 \in 1 .. Len(q) /\ i \in 1 .. Len(r)
    BY <1>1, LenProperties
  <2> QED BY <1>1, <2>1, SizesAddUp DEF Weights
<1>4. Sums(h, n, Weights(r))
  <2> HIDE DEF n, r, f, g
  <2>1. \A i \in 0 .. n : f[i + 1] \in Nat
    BY <1>1, <1>2
  <2>2. f[1] \in Nat /\ h[0] = 0
    <3>1. 0 \in 0 .. n /\ 0 + 1 = 1
      BY <1>1
    <3>2. f[0 + 1] \in Nat /\ h[0] = f[0 + 1] - f[1]
      BY <2>1, <3>1
    <3> HIDE DEF h
    <3> QED BY <3>1, <3>2
  <2>3. ASSUME NEW i \in 1 .. n PROVE h[i] = h[i - 1] + Weights(r)[i]
    <3>1. f[i + 1] = f[i] + Weights(q)[i + 1]
      BY <1>1, <1>2 DEF Sums
    <3>2. h[i] = f[i + 1] - f[1] /\ h[i - 1] = f[i] - f[1] /\ f[i] \in Nat
      BY <1>1, <1>2, SMTT(30)
    <3> HIDE DEF h
    <3> QED BY <1>3, <2>2, <3>1, <3>2
  <2> HIDE DEF h
  <2> QED BY <2>2, <2>3 DEF Sums
<1>5. g[n] = f[n + 1] - f[1]
  <2> HIDE DEF r, f, g, n
  <2>1. h[n] = f[n + 1] - f[1]
    BY <1>1
  <2>2. g[n] = h[n]
    <3> HIDE DEF h
    <3> QED BY <1>1, <1>2, <1>4, SumsAgree
  <2> QED BY <2>1, <2>2
<1>6. f[1] = SizeOf[Head(q).event] /\ f[1] \in Nat /\ f[n + 1] \in Nat
  <2> HIDE DEF r, f, g, n
  <2>1. f[0] = 0 /\ f[1] = f[0] + Weights(q)[1]
    BY <1>1, <1>2 DEF Sums
  <2> QED BY <1>1, <1>2, <1>3, <2>1
<1>7. BytesIn(q) = f[n + 1] /\ BytesIn(r) = g[n]
  BY <1>1, LenProperties DEF BytesIn
<1> HIDE DEF r, f, g, n
<1> QED BY <1>5, <1>6, <1>7 DEF r

-----------------------------------------------------------------------------
(* Bounded memory.                                                         *)

JournalFits == (\E S : journal \in Seq(S)) /\ Len(journal) <= MaxJournal

\* What the bound on memory needs: the counter is exact, and the durable
\* journal, which the memory journal is filled from, is finite.
MemInv ==
  /\ bytes = BytesOf(CRITICAL) + BytesOf(HIGH) + BytesOf(NORMAL) + BytesOf(LOW)
  /\ BytesOf(NORMAL) + BytesOf(LOW) <= MaxBytes
  /\ 10 * BytesOf(LOW) <= 8 * MaxBytes
  /\ JournalFits
  /\ IsFiniteSet(DOMAIN rows)

LEMMA BytesOfType ==
  ASSUME TypeOK, NEW c \in Classes
  PROVE  queues[c] \in Seq(Entries) /\ BytesOf(c) \in Nat
BY BytesInType DEF TypeOK, Entries, BytesOf

LEMMA ClassesAre ==
  /\ Classes = {CRITICAL, HIGH, NORMAL, LOW}
  /\ CRITICAL = 1 /\ HIGH = 2 /\ NORMAL = 3 /\ LOW = 4
BY DEF Classes, CRITICAL, HIGH, NORMAL, LOW

\* The queues after a step: b more bytes of one class, the rest as they were.
LEMMA AcceptFillsAClass ==
  ASSUME TypeOK, NEW e \in Events, Accept(e)
  PROVE  \A c \in Classes :
           BytesOf(c)' = IF c = ClassOf[e] THEN BytesOf(c) + SizeOf[e] ELSE BytesOf(c)
<1> DEFINE x == [seq |-> counter + 1, event |-> e]
<1>1. x \in Entries /\ x.event = e
  BY DEF Entries, TypeOK
<1>2. ASSUME NEW c \in Classes
      PROVE  queues'[c] = IF c = ClassOf[e] THEN Append(queues[c], x) ELSE queues[c]
  BY DEF Accept, TypeOK
<1> HIDE DEF x
<1>3. ASSUME NEW c \in Classes
      PROVE  BytesOf(c)' = IF c = ClassOf[e] THEN BytesOf(c) + SizeOf[e] ELSE BytesOf(c)
  <2>1. queues[c] \in Seq(Entries)
    BY BytesOfType
  <2>2. BytesIn(Append(queues[c], x)) = BytesIn(queues[c]) + SizeOf[e]
    BY <1>1, <2>1, BytesInAppend
  <2> QED BY <1>2, <2>2 DEF BytesOf
<1> QED BY <1>3

LEMMA DeliverEmptiesAClass ==
  ASSUME TypeOK, NEW d \in Classes, Deliver(d)
  PROVE  /\ SizeOf[Head(queues[d]).event] \in Nat
         /\ BytesOf(d) = SizeOf[Head(queues[d]).event] + BytesOf(d)'
         /\ \A c \in Classes \ {d} : BytesOf(c)' = BytesOf(c)
<1>1. /\ queues[d] \in Seq(Entries) /\ queues[d] # <<>>
      /\ queues'[d] = Tail(queues[d])
      /\ \A c \in Classes \ {d} : queues'[c] = queues[c]
  BY BytesOfType DEF Deliver, Ready, TypeOK
<1>2. Head(queues[d]) \in Entries
  BY <1>1, HeadTailProperties
<1> QED BY <1>1, <1>2, EventsAssumption, BytesInTail DEF BytesOf, Entries

\* Dropping the oldest fifth makes room, in a journal of five or more.
LEMMA RememberFits ==
  ASSUME MaxJournal >= 5, JournalFits, NEW s, Remember(s)
  PROVE  JournalFits'
<1> DEFINE longer == Append(journal, s)
           first  == MaxJournal \div 5 + 1
<1>1. PICK S : journal \in Seq(S)
  BY DEF JournalFits
<1>2. /\ longer \in Seq(S \cup {s}) /\ Len(longer) = Len(journal) + 1
      /\ Len(journal) \in Nat
  <2>1. journal \in Seq(S \cup {s})
    BY <1>1, SeqMonotonic
  <2> QED BY <2>1, LenProperties, AppendProperties
<1>3. first \in Nat /\ first >= 2 /\ first <= MaxJournal
  BY LimitsAssumption
<1> HIDE DEF longer, first
<1>4. CASE Len(longer) > MaxJournal
  <2>1. journal' = SubSeq(longer, first, Len(longer))
    BY <1>4 DEF Remember, longer, first
  <2>2. first \in 1 .. Len(longer) + 1 /\ Len(longer) \in first - 1 .. Len(longer)
    BY <1>2, <1>3, <1>4, LimitsAssumption
  <2>3. journal' \in Seq(S \cup {s}) /\ Len(journal') = Len(longer) - first + 1
    BY <1>2, <2>1, <2>2, SubSeqProperties
  <2> QED BY <1>2, <1>3, <2>3, LimitsAssumption DEF JournalFits
<1>5. CASE ~ (Len(longer) > MaxJournal)
  BY <1>2, <1>5, LimitsAssumption DEF Remember, longer, JournalFits
<1> QED BY <1>4, <1>5

LEMMA InOrderSeq ==
  ASSUME NEW S, Cardinality(S) \in Nat
  PROVE  /\ InOrder(S) \in Seq({InOrder(S)[i] : i \in 1 .. Cardinality(S)})
         /\ Len(InOrder(S)) = Cardinality(S)
<1> DEFINE all == InOrder(S)
           T   == {all[i] : i \in 1 .. Cardinality(S)}
           e(i) == CHOOSE s \in S : Cardinality({t \in S : t < s}) = i - 1
<1>1. all = [i \in 1 .. Cardinality(S) |-> e(i)]
  BY DEF InOrder
<1> HIDE DEF e
<1>2. all \in [1 .. Cardinality(S) -> T]
  <2>1. \A i \in 1 .. Cardinality(S) : all[i] \in T
    OBVIOUS
  <2> HIDE DEF T, all
  <2> QED BY <1>1, <2>1
<1>3. all \in Seq(T) /\ Len(all) = Cardinality(S)
  <2> HIDE DEF T, all
  <2> QED BY <1>2, LenProperties
<1> QED BY <1>3

\* What is read back when the journal is attached fits as well.
LEMMA ReadBackFits ==
  ASSUME NEW S, IsFiniteSet(S), NEW first \in Int,
         first = Len(InOrder(S)) - MaxJournal + 1,
         journal' = SubSeq(InOrder(S), IF first > 1 THEN first ELSE 1, Len(InOrder(S)))
  PROVE  JournalFits'
<1> DEFINE all == InOrder(S)
           from == IF first > 1 THEN first ELSE 1
           T   == {all[i] : i \in 1 .. Cardinality(S)}
<1>1. Cardinality(S) \in Nat
  BY FS_CardinalityType
<1>2. all \in Seq(T) /\ Len(all) = Cardinality(S)
  BY <1>1, InOrderSeq
<1> HIDE DEF all, T
<1>3. from \in 1 .. Len(all) + 1 /\ Len(all) \in from - 1 .. Len(all)
  BY <1>1, <1>2, LimitsAssumption DEF all
<1>4. Len(all) - from + 1 <= MaxJournal
  BY <1>1, <1>2, LimitsAssumption DEF all
<1>5. journal' = SubSeq(all, from, Len(all))
  BY DEF all
<1> HIDE DEF from
<1>6. journal' \in Seq(T) /\ Len(journal') = Len(all) - from + 1
  <2>1. \A i \in from .. Len(all) : all[i] \in T
    BY <1>1, <1>2, <1>3, ElementOfSeq
  <2>2. from \in Int /\ Len(all) \in Int
    BY <1>1, <1>2, <1>3
  <2>3. Len(SubSeq(all, from, Len(all))) =
          IF from <= Len(all) THEN Len(all) - from + 1 ELSE 0
    BY <2>1, <2>2, SubSeqProperties
  <2>4. SubSeq(all, from, Len(all)) \in Seq(T)
    BY <2>1, <2>2, SubSeqProperties
  <2>5. from <= Len(all) \/ Len(all) - from + 1 = 0
    BY <1>1, <1>2, <1>3
  <2> QED BY <1>5, <2>2, <2>3, <2>4, <2>5
<1> QED BY <1>4, <1>6 DEF JournalFits

\* Memory does not depend on what these steps change.
LEMMA QuietMemory ==
  ASSUME MemInv, UNCHANGED <<queues, bytes, journal, rows>>
  PROVE  MemInv'
BY DEF MemInv, BytesOf, JournalFits

LEMMA AcceptBoundsMemory ==
  ASSUME MaxJournal >= 5, IInv, MemInv, NEW e \in Events, Accept(e)
  PROVE  MemInv'
<1>1. /\ ClassOf[e] \in Classes /\ SizeOf[e] \in Nat /\ bytes' = bytes + SizeOf[e]
      /\ \A c \in Classes : BytesOf(c) \in Nat
      /\ \A c \in Classes :
           BytesOf(c)' = IF c = ClassOf[e] THEN BytesOf(c) + SizeOf[e] ELSE BytesOf(c)
  BY EventsAssumption, AcceptFillsAClass, BytesOfType DEF Accept, IInv
<1>2. /\ ClassOf[e] = LOW => 10 * (bytes + SizeOf[e]) <= 8 * MaxBytes
      /\ ClassOf[e] \in {LOW, NORMAL} => bytes + SizeOf[e] <= MaxBytes
  <2>1. ~ Shed(e)
    BY DEF Accept
  <2>2. bytes \in Nat
    BY Zenon DEF IInv, TypeOK
  <2>3. bytes + SizeOf[e] \in Nat /\ MaxBytes \in Nat
    BY <1>1, <2>2, LimitsAssumption
  <2> QED BY <2>1, <2>2, <2>3 DEF Shed
<1>3. /\ (bytes = BytesOf(CRITICAL) + BytesOf(HIGH) + BytesOf(NORMAL) + BytesOf(LOW))'
      /\ (BytesOf(NORMAL) + BytesOf(LOW) <= MaxBytes)'
      /\ (10 * BytesOf(LOW) <= 8 * MaxBytes)'
  BY <1>1, <1>2, ClassesAre, LimitsAssumption DEF MemInv
<1>4. JournalFits'
  BY RememberFits DEF Accept, MemInv
<1>5. IsFiniteSet(DOMAIN rows)'
  <2>1. CASE rows' = Row(counter + 1, run)
    <3>1. DOMAIN rows' = DOMAIN rows \cup {counter + 1}
      BY <2>1 DEF Row
    <3> QED BY <3>1, FS_AddElement DEF MemInv
  <2>2. CASE UNCHANGED rows
    BY <2>2 DEF MemInv
  <2> QED BY <2>1, <2>2 DEF Accept, AppendRow
<1> QED BY <1>3, <1>4, <1>5 DEF MemInv

LEMMA DeliverBoundsMemory ==
  ASSUME IInv, MemInv, NEW d \in Classes, Deliver(d), IInv'
  PROVE  MemInv'
<1> DEFINE size == SizeOf[Head(queues[d]).event]
<1>1. /\ size \in Nat
      /\ BytesOf(d) = size + BytesOf(d)'
      /\ \A c \in Classes \ {d} : BytesOf(c)' = BytesOf(c)
  BY DeliverEmptiesAClass DEF IInv
<1>2. \A c \in Classes : BytesOf(c) \in Nat
  BY BytesOfType DEF IInv
<1>3. \A c \in Classes : BytesOf(c)' \in Nat
  <2> SUFFICES ASSUME NEW c \in Classes PROVE BytesIn(queues'[c]) \in Nat
    BY DEF BytesOf
  <2>1. queues'[c] \in Seq(Entries)
    BY DEF IInv, TypeOK, Entries
  <2> QED BY <2>1, BytesInType
<1>4. bytes' = IF bytes - size < 0 THEN 0 ELSE bytes - size
  BY DEF Deliver, BytesWithoutHead
<1> HIDE DEF size
<1>5. /\ (bytes = BytesOf(CRITICAL) + BytesOf(HIGH) + BytesOf(NORMAL) + BytesOf(LOW))'
      /\ (BytesOf(NORMAL) + BytesOf(LOW) <= MaxBytes)'
      /\ (10 * BytesOf(LOW) <= 8 * MaxBytes)'
  BY <1>1, <1>2, <1>3, <1>4, ClassesAre, LimitsAssumption DEF MemInv
<1>6. (JournalFits /\ IsFiniteSet(DOMAIN rows))'
  BY DEF MemInv, Deliver, durableVars, JournalFits
<1> QED BY <1>5, <1>6 DEF MemInv

LEMMA AttachBoundsMemory ==
  ASSUME IInv, MemInv, Attach
  PROVE  MemInv'
<1>1. UNCHANGED <<queues, bytes, rows>>
  BY DEF Attach, queueVars
<1>2. JournalFits'
  <2>1. CASE UNCHANGED journal
    BY <2>1 DEF MemInv, JournalFits
  <2>2. CASE ~ UNCHANGED journal
    <3> DEFINE all   == InOrder(DOMAIN rows)
               first == Len(all) - MaxJournal + 1
    <3>1. journal' = SubSeq(all, IF first > 1 THEN first ELSE 1, Len(all))
      BY <2>2 DEF Attach
    <3>2. first \in Int
      <4>1. Cardinality(DOMAIN rows) \in Nat
        BY FS_CardinalityType DEF MemInv
      <4>2. Len(all) = Cardinality(DOMAIN rows)
        BY <4>1, InOrderSeq DEF MemInv
      <4> QED BY <4>1, <4>2, LimitsAssumption
    <3> QED BY <3>1, <3>2, ReadBackFits DEF MemInv
  <2> QED BY <2>1, <2>2
<1> QED BY <1>1, <1>2 DEF MemInv, BytesOf

LEMMA NextBoundsMemory ==
  ASSUME MaxJournal >= 5, IInv, MemInv, [Next]_vars
  PROVE  MemInv'
<1>1. ASSUME NEW e \in Events, Publish(e)
      PROVE  MemInv'
  BY <1>1, AcceptBoundsMemory, QuietMemory DEF Publish, queueVars
<1>2. ASSUME NEW c \in Classes, Deliver(c)
      PROVE  MemInv'
  BY <1>2, DeliverBoundsMemory, DeliverIInv
<1>3. CASE Attach
  BY <1>3, AttachBoundsMemory
<1>4. CASE Tick \/ StartDrain \/ EndRound \/ OtherAttach \/ OtherLeave \/ UNCHANGED vars
  BY <1>4, QuietMemory
  DEF Tick, StartDrain, EndRound, OtherAttach, OtherLeave, vars, queueVars, durableVars
<1>5. CASE Crash
  <2>1. \A c \in Classes : BytesOf(c)' = 0
    BY <1>5, BytesInNothing DEF Crash, BytesOf
  <2>2. JournalFits'
    BY <1>5, LimitsAssumption DEF Crash, JournalFits
  <2>3. bytes' = 0 /\ UNCHANGED rows
    BY <1>5 DEF Crash
  <2> QED BY <2>1, <2>2, <2>3, ClassesAre, LimitsAssumption DEF MemInv
<1>6. CASE OtherAppend
  <2>1. DOMAIN rows' = DOMAIN rows \cup {other + 1}
    BY <1>6 DEF OtherAppend, Row
  <2>2. IsFiniteSet(DOMAIN rows)'
    BY <2>1, FS_AddElement DEF MemInv
  <2>3. UNCHANGED <<queues, bytes, journal>>
    BY <1>6 DEF OtherAppend, queueVars
  <2> QED BY <2>2, <2>3 DEF MemInv, BytesOf, JournalFits
<1> QED BY <1>1, <1>2, <1>3, <1>4, <1>5, <1>6 DEF Next

LEMMA InitBoundsMemory == Init => MemInv
<1> SUFFICES ASSUME Init PROVE MemInv
  OBVIOUS
<1>1. \A c \in Classes : BytesOf(c) = 0
  BY BytesInNothing DEF Init, BytesOf
<1>2. JournalFits
  BY LimitsAssumption DEF Init, JournalFits
<1>3. IsFiniteSet(DOMAIN rows)
  <2>1. DOMAIN rows = {}
    BY DEF Init
  <2> QED BY <2>1, FS_EmptySet
<1>4. bytes = 0
  BY DEF Init
<1> QED BY <1>1, <1>2, <1>3, <1>4, ClassesAre, LimitsAssumption DEF MemInv

\* The bus knows the size of what it has queued to the byte, keeps its normal
\* events and logs within MAX_QUEUE_BYTES and the logs within four fifths of
\* it, whatever is published and delivered, and its memory journal within
\* MAX_JOURNAL_SIZE (10 000 in the code), also when it is filled from the
\* durable journal.  A journal of fewer than five would drop a fifth of
\* nothing and outgrow its limit.
THEOREM MemoryStaysBounded ==
  ASSUME MaxJournal >= 5
  PROVE  Spec => []MemoryIsBounded
<1>1. Init => IInv /\ MemInv
  BY InitIInv, InitBoundsMemory
<1>2. (IInv /\ MemInv) /\ [Next]_vars => (IInv /\ MemInv)'
  BY NextIInv, NextBoundsMemory
<1>3. IInv /\ MemInv => MemoryIsBounded
  BY DEF MemInv, MemoryIsBounded, JournalFits
<1> QED BY <1>1, <1>2, <1>3, PTL DEF Spec

=============================================================================
