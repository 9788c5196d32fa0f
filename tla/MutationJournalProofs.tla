----------------------- MODULE MutationJournalProofs -----------------------
(***************************************************************************)
(* Proofs about MutationJournal for any files, contents and number of      *)
(* transactions.  Types are correct for any processes and faults, and a    *)
(* process alone on the tree has its work in a journal whatever fails.     *)
(* The promise of an atomic store is kept by one process, which may crash  *)
(* at any point, with writes that may fail without touching the file.      *)
(* (TLC shows that each of the other faults, and a second process, breaks  *)
(* that promise.)                                                          *)
(***************************************************************************)
EXTENDS MutationJournal, WellFoundedInduction, TLAPS

USE TornAssumption, FaultsAssumption, MaxTxAssumption, NoTxAssumption

\* The setting of the theorems.
OneProcess   == \A p, q \in Processes : p = q
CleanFaults  == Faults \subseteq {"crash", "write"}

-----------------------------------------------------------------------------
(* The inductive invariant.                                                *)

\* A journal holds the tree's contents of its files, and is the only one.
JournalsAreOriginals ==
  \A t \in TxIds :
    journal[t] # NoTx =>
      /\ journal[t].id = t
      /\ \A f \in journal[t].files : journal[t].original[f] = tree[f]
      /\ \A s \in TxIds : journal[s] # NoTx => s = t

NoJournal == \A t \in TxIds : journal[t] = NoTx

\* The transaction of a process is in its journal, and left is part of it.
Journaled(p) ==
  /\ work[p] # NoTx
  /\ journal[work[p].id] = work[p]
  /\ left[p] \subseteq work[p].files

\* What each phase of a process knows of the disk and of the journals.
Phase(p) ==
  /\ pc[p] = "sweeping" =>
       \A t \in TxIds : journal[t] # NoTx => t \in listed[p]
  /\ pc[p] \in {"idle", "staged"} => NoJournal
  /\ pc[p] = "staged" =>
       /\ work[p] # NoTx
       /\ \A f \in Files : work[p].original[f] = tree[f]
  /\ pc[p] \in {"applying", "undoing", "restoring"} => Journaled(p)
  /\ pc[p] = "applying" =>
       /\ \A f \in work[p].files \ left[p] : disk[f] = work[p].staged[f]
       /\ \A f \in Files : f \in left[p] \/ f \notin work[p].files
                             => disk[f] = tree[f]
  /\ pc[p] \in {"undoing", "restoring"} =>
       \A f \in Files \ left[p] : disk[f] = tree[f]
  /\ pc[p] \in {"down", "sweeping", "idle", "staged"} => left[p] = {}

IInv ==
  /\ TypeOK
  /\ JournalsAreOriginals
  /\ DamageIsJournaled
  /\ \A p \in Processes : Phase(p)

-----------------------------------------------------------------------------
\* A transaction in memory has the fields of one.
LEMMA WorkFields ==
  ASSUME TypeOK, NEW p \in Processes, work[p] # NoTx
  PROVE  /\ work[p] \in Transactions
         /\ work[p].id \in TxIds
         /\ work[p].files \subseteq Files
         /\ work[p].original \in [Files -> Contents \union {Torn}]
         /\ work[p].staged \in [Files -> Contents]
BY DEF TypeOK, Transactions

\* The same of one in a journal.
LEMMA JournalFields ==
  ASSUME TypeOK, NEW t \in TxIds, journal[t] # NoTx
  PROVE  /\ journal[t] \in Transactions
         /\ journal[t].files \subseteq Files
         /\ journal[t].original \in [Files -> Contents \union {Torn}]
         /\ journal[t].staged \in [Files -> Contents]
BY DEF TypeOK, Transactions

-----------------------------------------------------------------------------
(* Any processes, any faults.                                              *)

\* A process that is at work on a transaction has one in memory.
HasWork(p) ==
  pc[p] \in {"staged", "applying", "undoing", "restoring"} => work[p] # NoTx

WellFormed == TypeOK /\ \A p \in Processes : HasWork(p)

\* A set of numbers that is not empty has a least element: the sweep's next.
LEMMA MinExists ==
  ASSUME NEW S \in SUBSET Nat, S # {}
  PROVE  Min(S) \in S
<1> DEFINE less == OpToRel(<, Nat)
<1>1. PICK x \in S : \A y \in S : <<y, x>> \notin less
  <2>1. IsWellFoundedOn(less, Nat)
    BY NatLessThanWellFounded
  <2> HIDE DEF less
  <2> QED BY <2>1, WFMin
<1>2. ASSUME NEW y \in S PROVE x <= y
  <2>1. ~ (<<y, x>> \in less)
    BY <1>1
  <2>2. <<y, x>> \in less <=> y < x
    BY DEF OpToRel
  <2> HIDE DEF less
  <2> QED BY <2>1, <2>2
<1> QED BY <1>2 DEF Min

LEMMA SweepTakesAJournal ==
  ASSUME TypeOK, NEW p \in Processes, Readable(p) # {}
  PROVE  /\ Min(Readable(p)) \in TxIds
         /\ journal[Min(Readable(p))] # NoTx
<1>1. Readable(p) \subseteq TxIds
  BY DEF Readable, TypeOK
<1>2. Min(Readable(p)) \in Readable(p)
  BY <1>1, MinExists DEF TxIds
<1> QED BY <1>1, <1>2 DEF Readable

\* Restoring a file leaves everything well formed.
LEMMA RestoreFileKeepsWellFormed ==
  ASSUME WellFormed, NEW p \in Processes, NEW f \in left[p],
         pc[p] \in {"undoing", "restoring"},
         RestoreFile(p, f),
         UNCHANGED <<journal, pc, work, listed, lastTx, tree>>
  PROVE  WellFormed'
<1>1. /\ f \in Files
      /\ work[p].original[f] \in Contents \union {Torn}
  BY WorkFields DEF WellFormed, HasWork, TypeOK
<1>2. TypeOK'
  BY <1>1 DEF RestoreFile, WellFormed, TypeOK
<1> QED BY <1>2 DEF WellFormed, HasWork

LEMMA StepKeepsWellFormed ==
  ASSUME WellFormed, NEW p \in Processes, ProcessStep(p)
  PROVE  WellFormed'
<1> USE DEF WellFormed
<1>1. CASE Start(p)
  BY <1>1 DEF Start, Goto, TypeOK, HasWork
<1>2. CASE Sweep(p)
  <2> DEFINE t == Min(Readable(p))
  <2>1. /\ t \in TxIds
        /\ journal[t] # NoTx
        /\ journal[t] \in Transactions
        /\ journal[t].files \subseteq Files
    BY <1>2, SweepTakesAJournal, JournalFields DEF Sweep
  <2>2. /\ work' = [work EXCEPT ![p] = journal[t]]
        /\ left' = [left EXCEPT ![p] = journal[t].files]
        /\ listed' = [listed EXCEPT ![p] = Readable(p) \ {t}]
        /\ pc' = [pc EXCEPT ![p] = "restoring"]
        /\ UNCHANGED <<disk, journal, lastTx, tree>>
    BY <1>2 DEF Sweep, Goto
  <2>3. Readable(p) \subseteq TxIds
    BY DEF Readable, TypeOK
  <2> HIDE DEF t
  <2> QED BY <2>1, <2>2, <2>3 DEF TypeOK, HasWork
<1>3. CASE Restored(p) \/ Undone(p)
  <2>1. /\ work[p].id \in TxIds
        /\ journal' \in [TxIds -> Transactions \union {NoTx}]
    BY <1>3, WorkFields DEF Restored, Undone, Clear, HasWork, TypeOK
  <2> QED BY <1>3, <2>1 DEF Restored, Undone, Goto, TypeOK, HasWork
<1>4. CASE RestoreFails(p) \/ UndoFails(p) \/ BeginFails(p)
  BY <1>4 DEF RestoreFails, UndoFails, BeginFails, Goto, TypeOK, HasWork
<1>5. CASE Swept(p)
  BY <1>5 DEF Swept, Goto, TypeOK, HasWork
<1>6. ASSUME NEW fs \in SUBSET Files, NEW g \in [Files -> Contents],
             Stage(p, fs, g)
      PROVE  WellFormed'
  <2> DEFINE w == [id |-> lastTx + 1, files |-> fs, original |-> disk, staged |-> g]
  <2>1. w \in Transactions /\ w # NoTx
    BY <1>6 DEF Stage, TypeOK, Transactions, TxIds
  <2>2. /\ lastTx' \in 0 .. MaxTx
        /\ work' = [work EXCEPT ![p] = w]
        /\ pc' = [pc EXCEPT ![p] = "staged"]
        /\ UNCHANGED <<disk, journal, left, listed, tree>>
    BY <1>6 DEF Stage, Goto, TypeOK
  <2> HIDE DEF w
  <2> QED BY <2>1, <2>2 DEF TypeOK, HasWork
<1>7. CASE Begin(p)
  <2>1. /\ work[p] \in Transactions
        /\ work[p] # NoTx
        /\ work[p].id \in TxIds
        /\ work[p].files \subseteq Files
    BY <1>7, WorkFields DEF Begin, HasWork
  <2> QED BY <1>7, <2>1 DEF Begin, Goto, TypeOK, HasWork
<1>8. ASSUME NEW f \in Files, Write(p, f) PROVE WellFormed'
  <2>1. work[p].staged[f] \in Contents
    BY <1>8, WorkFields DEF Write, HasWork
  <2> QED BY <1>8, <2>1 DEF Write, TypeOK, HasWork
<1>9. CASE WriteFails(p)
  <2>1. disk' \in [Files -> Contents \union {Torn}]
    BY <1>9 DEF WriteFails, ThrowsFor, TypeOK
  <2>2. work[p] # NoTx /\ work[p].files \subseteq Files
    BY <1>9, WorkFields DEF WriteFails, HasWork
  <2> QED BY <1>9, <2>1, <2>2 DEF WriteFails, Goto, TypeOK, HasWork
<1>10. CASE Committed(p)
  <2>1. /\ work[p].id \in TxIds
        /\ work[p].staged \in [Files -> Contents]
    BY <1>10, WorkFields DEF Committed, HasWork
  <2>2. journal' \in [TxIds -> Transactions \union {NoTx}]
    BY <1>10, <2>1 DEF Committed, Clear, TypeOK
  <2>3. tree' \in [Files -> Contents]
    BY <1>10, <2>1 DEF Committed, TypeOK
  <2> QED BY <1>10, <2>2, <2>3 DEF Committed, Goto, TypeOK, HasWork
<1>11. ASSUME NEW f \in Files, Restore(p, f) \/ Undo(p, f) PROVE WellFormed'
  BY <1>11, RestoreFileKeepsWellFormed DEF Restore, Undo
<1>12. CASE Crash(p)
  <2>1. disk' \in [Files -> Contents \union {Torn}]
    BY <1>12 DEF Crash, TypeOK
  <2> QED BY <1>12, <2>1 DEF Crash, Goto, TypeOK, HasWork
<1> QED
  BY <1>1, <1>2, <1>3, <1>4, <1>5, <1>6, <1>7, <1>8, <1>9, <1>10, <1>11, <1>12
  DEF ProcessStep

LEMMA WellFormedness == Spec => []WellFormed
<1>1. Init => WellFormed
  BY DEF Init, WellFormed, TypeOK, HasWork
<1>2. WellFormed /\ [Next]_vars => WellFormed'
  <2> SUFFICES ASSUME WellFormed, [Next]_vars PROVE WellFormed'
    OBVIOUS
  <2>1. ASSUME NEW f \in Files, NEW v \in Contents, Edit(f, v) PROVE WellFormed'
    BY <2>1 DEF Edit, WellFormed, TypeOK, HasWork
  <2>2. CASE UNCHANGED vars
    BY <2>2 DEF vars, WellFormed, TypeOK, HasWork
  <2> QED BY <2>1, <2>2, StepKeepsWellFormed DEF Next
<1> QED BY <1>1, <1>2, PTL DEF Spec

\* Type correctness of the journal, for any processes and faults.
THEOREM TypeCorrect == Spec => []TypeOK
BY WellFormedness, PTL DEF WellFormed

-----------------------------------------------------------------------------
(* One process, any faults.                                                *)

\* A journal is in the file of its id, and work under way in its journal.
JournalsAreFiled ==
  \A t \in TxIds : journal[t] # NoTx => journal[t].id = t

LEMMA StepKeepsWorkJournaled ==
  ASSUME WellFormed, WellFormed', OneProcess, JournalsAreFiled, WorkIsJournaled,
         NEW p \in Processes, ProcessStep(p)
  PROVE  JournalsAreFiled' /\ WorkIsJournaled'
<1> USE DEF WellFormed, JournalsAreFiled
<1>1. WorkIsJournaled' <=>
        (pc'[p] \in {"applying", "undoing", "restoring"} =>
           journal'[work'[p].id] = work'[p])
  BY DEF WorkIsJournaled, OneProcess
<1>2. CASE Sweep(p)
  <2> DEFINE t == Min(Readable(p))
  <2>1. t \in TxIds /\ journal[t] # NoTx
    BY <1>2, SweepTakesAJournal DEF Sweep
  <2>2. journal' = journal /\ work' = [work EXCEPT ![p] = journal[t]]
    BY <1>2 DEF Sweep
  <2>3. work'[p] = journal[t] /\ journal[t].id = t
    BY <2>1, <2>2 DEF TypeOK
  <2> HIDE DEF t
  <2> QED BY <1>1, <2>1, <2>2, <2>3
<1>3. CASE Restored(p) \/ Undone(p) \/ Committed(p)
  <2>1. pc'[p] \in {"sweeping", "idle"}
    BY <1>3 DEF Restored, Undone, Committed, Goto, TypeOK
  <2>2. \A t \in TxIds : journal'[t] = journal[t] \/ journal'[t] = NoTx
    BY <1>3 DEF Restored, Undone, Committed, Clear, TypeOK
  <2> QED BY <1>1, <2>1, <2>2
<1>4. CASE Begin(p)
  <2>1. work[p].id \in TxIds
    BY <1>4, WorkFields DEF Begin, HasWork
  <2>2. journal' = [journal EXCEPT ![work[p].id] = work[p]] /\ work' = work
    BY <1>4 DEF Begin
  <2> QED BY <1>1, <2>1, <2>2 DEF TypeOK
<1>5. CASE \/ Start(p) \/ Swept(p) \/ RestoreFails(p) \/ BeginFails(p) \/ UndoFails(p)
           \/ Crash(p)
           \/ \E fs \in SUBSET Files \ {{}}, g \in [Files -> Contents] :
                Stage(p, fs, g)
  <2>1. /\ pc'[p] \in {"sweeping", "idle", "staged", "down"}
        /\ journal' = journal
    BY <1>5 DEF Start, Swept, RestoreFails, BeginFails, UndoFails, Crash, Stage, Goto, TypeOK
  <2> QED BY <1>1, <2>1
<1>6. CASE WriteFails(p) \/ \E f \in Files : Restore(p, f) \/ Write(p, f) \/ Undo(p, f)
  <2>1. /\ pc[p] \in {"applying", "undoing", "restoring"}
        /\ journal' = journal
        /\ work' = work
    BY <1>6 DEF WriteFails, Restore, Write, Undo
  <2> QED BY <1>1, <2>1 DEF WorkIsJournaled
<1> QED BY <1>2, <1>3, <1>4, <1>5, <1>6 DEF ProcessStep

\* Whatever fails, a commit or a recovery keeps its transaction on disk until
\* it is through.
THEOREM WorkStaysJournaled ==
  ASSUME OneProcess
  PROVE  Spec => []WorkIsJournaled
<1>1. Init => JournalsAreFiled /\ WorkIsJournaled
  BY DEF Init, JournalsAreFiled, WorkIsJournaled
<1>2. /\ WellFormed /\ WellFormed' /\ JournalsAreFiled /\ WorkIsJournaled
      /\ [Next]_vars
      => JournalsAreFiled' /\ WorkIsJournaled'
  <2> SUFFICES ASSUME WellFormed, WellFormed', JournalsAreFiled, WorkIsJournaled,
                      [Next]_vars
               PROVE  JournalsAreFiled' /\ WorkIsJournaled'
    OBVIOUS
  <2>1. CASE UNCHANGED vars \/ \E f \in Files, v \in Contents : Edit(f, v)
    BY <2>1 DEF vars, Edit, JournalsAreFiled, WorkIsJournaled
  <2> QED BY <2>1, StepKeepsWorkJournaled DEF Next
<1> QED BY <1>1, <1>2, WellFormedness, PTL DEF Spec

-----------------------------------------------------------------------------
(* One process, clean faults.                                              *)

\* Restoring one file of the transaction at hand.
LEMMA RestoreFileKeepsIInv ==
  ASSUME IInv, OneProcess, NEW p \in Processes, NEW f \in left[p],
         pc[p] \in {"undoing", "restoring"},
         RestoreFile(p, f),
         UNCHANGED <<journal, pc, work, listed, lastTx, tree>>
  PROVE  IInv'
<1> USE DEF IInv
<1>1. /\ Journaled(p)
      /\ work[p].id \in TxIds
      /\ work[p].files \subseteq Files
      /\ work[p].original \in [Files -> Contents \union {Torn}]
      /\ f \in work[p].files
      /\ f \in Files
  BY WorkFields DEF Phase, Journaled
<1>2. work[p].original[f] = tree[f]
  BY <1>1 DEF JournalsAreOriginals, Journaled
<1>3. disk' = [disk EXCEPT ![f] = tree[f]] /\ left' = [left EXCEPT ![p] = @ \ {f}]
  BY <1>2 DEF RestoreFile
<1>4. TypeOK'
  BY <1>1, <1>3 DEF TypeOK
<1>5. JournalsAreOriginals'
  BY DEF JournalsAreOriginals
<1>6. DamageIsJournaled'
  BY <1>3 DEF DamageIsJournaled, TypeOK
<1>7. ASSUME NEW q \in Processes PROVE Phase(q)'
  <2>1. q = p
    BY DEF OneProcess
  <2>2. left'[p] = left[p] \ {f}
    BY <1>3 DEF TypeOK
  <2>3. \A g \in Files \ left'[p] : disk'[g] = tree'[g]
    BY <1>3, <2>2 DEF Phase, TypeOK
  <2>4. Journaled(p)'
    BY <1>1, <2>2 DEF Journaled
  <2> QED BY <2>1, <2>3, <2>4 DEF Phase
<1> QED BY <1>4, <1>5, <1>6, <1>7

\* Clearing the journal of the transaction at hand leaves none.
LEMMA ClearLeavesNoJournal ==
  ASSUME IInv, CleanFaults, NEW p \in Processes,
         Journaled(p), Clear(work[p].id)
  PROVE  /\ journal' = [journal EXCEPT ![work[p].id] = NoTx]
         /\ NoJournal'
         /\ journal' \in [TxIds -> Transactions \union {NoTx}]
<1> USE DEF IInv
<1>1. work[p].id \in TxIds
  BY WorkFields DEF Journaled
<1>2. journal' = [journal EXCEPT ![work[p].id] = NoTx]
  BY DEF Clear, CleanFaults
<1>3. \A t \in TxIds : journal[t] # NoTx => t = work[p].id
  BY <1>1 DEF JournalsAreOriginals, Journaled
<1> QED BY <1>1, <1>2, <1>3 DEF TypeOK, NoJournal

\* Without journals and with a whole tree nothing is left to show.
LEMMA QuietKeepsIInv ==
  ASSUME TypeOK', NoJournal', disk' = tree',
         \A p \in Processes :
           /\ pc'[p] \in {"down", "sweeping", "idle"}
           /\ left'[p] = {}
  PROVE  IInv'
<1>1. JournalsAreOriginals' /\ DamageIsJournaled'
  BY DEF JournalsAreOriginals, DamageIsJournaled, NoJournal, TypeOK
<1>2. ASSUME NEW p \in Processes PROVE Phase(p)'
  BY DEF Phase, NoJournal
<1> QED BY <1>1, <1>2 DEF IInv

\* The steps of the recovery at startup.
LEMMA RecoveryKeepsIInv ==
  ASSUME IInv, OneProcess, CleanFaults, NEW p \in Processes,
         \/ Start(p) \/ Sweep(p) \/ Restored(p) \/ RestoreFails(p) \/ Swept(p)
         \/ \E f \in Files : Restore(p, f)
  PROVE  IInv'
<1> USE DEF IInv
<1>1. CASE Start(p)
  <2>1. TypeOK'
    BY <1>1 DEF Start, Goto, TypeOK
  <2>2. JournalsAreOriginals' /\ DamageIsJournaled'
    BY <1>1 DEF Start, JournalsAreOriginals, DamageIsJournaled
  <2>3. /\ pc'[p] = "sweeping"
        /\ left'[p] = {}
        /\ \A t \in TxIds : journal'[t] # NoTx => t \in listed'[p]
    BY <1>1 DEF Start, Goto, TypeOK, Phase
  <2>4. ASSUME NEW q \in Processes PROVE Phase(q)'
    BY <2>3 DEF Phase, OneProcess
  <2> QED BY <2>1, <2>2, <2>4
<1>2. CASE Sweep(p)
  <2>1. PICK t \in TxIds : t \in listed[p] /\ journal[t] # NoTx
    BY <1>2 DEF Sweep, Readable, TypeOK
  <2>2. Readable(p) = {t}
    BY <2>1 DEF Readable, JournalsAreOriginals, TypeOK
  <2>3. Min(Readable(p)) = t
    BY <2>2 DEF Min, TxIds
  <2>4. /\ work'   = [work EXCEPT ![p] = journal[t]]
        /\ left'   = [left EXCEPT ![p] = journal[t].files]
        /\ listed' = [listed EXCEPT ![p] = {}]
        /\ pc'     = [pc EXCEPT ![p] = "restoring"]
        /\ UNCHANGED <<disk, journal, lastTx, tree>>
    BY <1>2, <2>2, <2>3 DEF Sweep, Goto
  <2>5. journal[t].files \subseteq Files
    BY <2>1, JournalFields
  <2>6. TypeOK'
    <3>1. journal[t] \in Transactions
      BY <2>1, JournalFields
    <3> QED BY <2>4, <2>5, <3>1 DEF TypeOK
  <2>7. JournalsAreOriginals' /\ DamageIsJournaled'
    BY <2>4 DEF JournalsAreOriginals, DamageIsJournaled
  <2>8. /\ pc'[p] = "restoring"
        /\ work'[p] = journal[t]
        /\ left'[p] = journal[t].files
    BY <2>4 DEF TypeOK
  <2>9. journal[t].id = t
    BY <2>1 DEF JournalsAreOriginals
  <2>10. Journaled(p)'
    BY <2>1, <2>4, <2>8, <2>9 DEF Journaled
  <2>11. \A f \in Files \ left'[p] : disk'[f] = tree'[f]
    BY <2>4, <2>8, <2>1 DEF DamageIsJournaled, JournalsAreOriginals
  <2>12. ASSUME NEW q \in Processes PROVE Phase(q)'
    BY <2>8, <2>10, <2>11 DEF Phase, OneProcess
  <2> QED BY <2>6, <2>7, <2>12
<1>3. CASE Restored(p)
  <2>1. Journaled(p) /\ left[p] = {} /\ disk = tree
    BY <1>3 DEF Restored, Phase, TypeOK
  <2>2. NoJournal' /\ journal' \in [TxIds -> Transactions \union {NoTx}]
    BY <1>3, <2>1, ClearLeavesNoJournal DEF Restored
  <2>3. TypeOK'
    BY <1>3, <2>2 DEF Restored, Goto, TypeOK
  <2>4. \A q \in Processes : pc'[q] = "sweeping" /\ left'[q] = {}
    BY <1>3, <2>1 DEF Restored, Goto, TypeOK, OneProcess
  <2> QED BY <1>3, <2>1, <2>2, <2>3, <2>4, QuietKeepsIInv DEF Restored
<1>4. CASE RestoreFails(p)
  BY <1>4 DEF RestoreFails, CleanFaults
<1>5. CASE Swept(p)
  <2>1. NoJournal
    BY <1>5 DEF Swept, Readable, Phase, NoJournal
  <2>2. disk = tree
    BY <2>1 DEF DamageIsJournaled, NoJournal, TypeOK
  <2>3. TypeOK'
    BY <1>5 DEF Swept, Goto, TypeOK
  <2>4. \A q \in Processes : pc'[q] = "idle" /\ left'[q] = {}
    BY <1>5 DEF Swept, Goto, TypeOK, Phase, OneProcess
  <2>5. NoJournal' /\ disk' = tree'
    BY <1>5, <2>1, <2>2 DEF Swept, NoJournal
  <2> QED BY <2>3, <2>4, <2>5, QuietKeepsIInv
<1>6. ASSUME NEW f \in Files, Restore(p, f) PROVE IInv'
  BY <1>6, RestoreFileKeepsIInv DEF Restore
<1> QED BY <1>1, <1>2, <1>3, <1>4, <1>5, <1>6

\* The steps of a commit.
LEMMA CommitKeepsIInv ==
  ASSUME IInv, OneProcess, CleanFaults, NEW p \in Processes,
         \/ \E fs \in SUBSET Files \ {{}}, g \in [Files -> Contents] :
              Stage(p, fs, g)
         \/ Begin(p) \/ BeginFails(p) \/ WriteFails(p) \/ Committed(p)
         \/ Undone(p) \/ UndoFails(p)
         \/ \E f \in Files : Write(p, f) \/ Undo(p, f)
  PROVE  IInv'
<1> USE DEF IInv
<1>1. ASSUME NEW fs \in SUBSET Files, NEW g \in [Files -> Contents],
             Stage(p, fs, g)
      PROVE  IInv'
  <2> DEFINE w == [id |-> lastTx + 1, files |-> fs, original |-> disk, staged |-> g]
  <2>1. NoJournal /\ left[p] = {}
    BY <1>1 DEF Stage, Phase
  <2>2. disk = tree
    BY <2>1 DEF DamageIsJournaled, NoJournal, TypeOK
  <2>3. w \in Transactions /\ w # NoTx
    BY <1>1 DEF Stage, TypeOK, Transactions, TxIds
  <2>4. /\ lastTx' = lastTx + 1
        /\ lastTx' \in 0 .. MaxTx
        /\ work' = [work EXCEPT ![p] = w]
        /\ pc' = [pc EXCEPT ![p] = "staged"]
        /\ UNCHANGED <<disk, journal, left, listed, tree>>
    BY <1>1 DEF Stage, Goto, TypeOK
  <2>5. /\ work'[p] = w
        /\ work'[p].original = disk
        /\ pc'[p] = "staged"
    BY <2>4 DEF TypeOK
  <2> HIDE DEF w
  <2>6. TypeOK'
    BY <2>3, <2>4 DEF TypeOK
  <2>7. JournalsAreOriginals' /\ DamageIsJournaled' /\ NoJournal'
    BY <2>1, <2>4 DEF JournalsAreOriginals, DamageIsJournaled, NoJournal
  <2>8. ASSUME NEW q \in Processes PROVE Phase(q)'
    BY <2>1, <2>2, <2>3, <2>4, <2>5, <2>7 DEF Phase, OneProcess
  <2> QED BY <2>6, <2>7, <2>8
<1>2. CASE Begin(p)
  <2>1. /\ NoJournal
        /\ work[p] # NoTx
        /\ \A f \in Files : work[p].original[f] = tree[f]
    BY <1>2 DEF Begin, Phase
  <2>2. disk = tree
    BY <2>1 DEF DamageIsJournaled, NoJournal, TypeOK
  <2>3. /\ work[p] \in Transactions
        /\ work[p].id \in TxIds
        /\ work[p].files \subseteq Files
    BY <2>1, WorkFields
  <2>4. /\ journal' = [journal EXCEPT ![work[p].id] = work[p]]
        /\ left' = [left EXCEPT ![p] = work[p].files]
        /\ pc' = [pc EXCEPT ![p] = "applying"]
        /\ UNCHANGED <<disk, work, listed, lastTx, tree>>
    BY <1>2 DEF Begin, Goto
  <2>5. TypeOK'
    BY <2>3, <2>4 DEF TypeOK
  <2>6. \A t \in TxIds :
          journal'[t] = IF t = work[p].id THEN work[p] ELSE NoTx
    BY <2>1, <2>3, <2>4 DEF NoJournal, TypeOK
  <2>7. JournalsAreOriginals'
    BY <2>1, <2>3, <2>4, <2>6 DEF JournalsAreOriginals
  <2>8. DamageIsJournaled'
    BY <2>2, <2>4 DEF DamageIsJournaled
  <2>9. pc'[p] = "applying" /\ left'[p] = work'[p].files
    BY <2>4 DEF TypeOK
  <2>10. Journaled(p)'
    BY <2>1, <2>3, <2>4, <2>6, <2>9 DEF Journaled
  <2>11. ASSUME NEW q \in Processes PROVE Phase(q)'
    BY <2>2, <2>4, <2>9, <2>10 DEF Phase, OneProcess
  <2> QED BY <2>5, <2>7, <2>8, <2>11
<1>3. ASSUME NEW f \in Files, Write(p, f) PROVE IInv'
  <2>1. /\ Journaled(p)
        /\ f \in left[p]
        /\ f \in work[p].files
        /\ pc[p] = "applying"
    BY <1>3 DEF Write, Phase, Journaled
  <2>2. /\ work[p].id \in TxIds
        /\ work[p].files \subseteq Files
        /\ work[p].staged[f] \in Contents
    BY <2>1, WorkFields DEF Journaled
  <2>3. /\ disk' = [disk EXCEPT ![f] = work[p].staged[f]]
        /\ left' = [left EXCEPT ![p] = @ \ {f}]
        /\ UNCHANGED <<journal, pc, work, listed, lastTx, tree>>
    BY <1>3 DEF Write
  <2>4. TypeOK'
    BY <2>1, <2>2, <2>3 DEF TypeOK
  <2>5. JournalsAreOriginals'
    BY <2>3 DEF JournalsAreOriginals
  <2>6. DamageIsJournaled'
    <3> SUFFICES ASSUME NEW g \in Files, disk'[g] # tree'[g]
                 PROVE  \E t \in TxIds :
                          /\ journal'[t] # NoTx
                          /\ g \in journal'[t].files
                          /\ journal'[t].original[g] = tree'[g]
      BY DEF DamageIsJournaled
    <3>1. CASE g = f
      BY <2>1, <2>2, <2>3, <3>1 DEF Journaled, JournalsAreOriginals
    <3>2. CASE g # f
      BY <2>3, <3>2 DEF DamageIsJournaled, TypeOK
    <3> QED BY <3>1, <3>2
  <2>7. left'[p] = left[p] \ {f}
    BY <2>3 DEF TypeOK
  <2>8. Journaled(p)'
    BY <2>1, <2>3, <2>7 DEF Journaled
  <2>9. \A g \in work[p].files \ left'[p] : disk'[g] = work[p].staged[g]
    BY <2>1, <2>2, <2>3, <2>7 DEF Phase, TypeOK
  <2>10. \A g \in Files : g \in left'[p] \/ g \notin work[p].files
                            => disk'[g] = tree[g]
    BY <2>1, <2>2, <2>3, <2>7 DEF Phase, TypeOK
  <2>11. ASSUME NEW q \in Processes PROVE Phase(q)'
    BY <2>1, <2>3, <2>8, <2>9, <2>10 DEF Phase, OneProcess
  <2> QED BY <2>4, <2>5, <2>6, <2>11
<1>4. CASE WriteFails(p)
  <2>1. /\ Journaled(p)
        /\ work[p].files \subseteq Files
        /\ \A f \in Files : f \in left[p] \/ f \notin work[p].files
                              => disk[f] = tree[f]
    BY <1>4, WorkFields DEF WriteFails, Phase, Journaled
  <2>2. /\ left' = [left EXCEPT ![p] = work[p].files \ @]
        /\ pc' = [pc EXCEPT ![p] = "undoing"]
        /\ UNCHANGED <<disk, journal, work, listed, lastTx, tree>>
    BY <1>4 DEF WriteFails, ThrowsFor, Goto, CleanFaults
  <2>3. TypeOK'
    BY <2>1, <2>2 DEF TypeOK
  <2>4. JournalsAreOriginals' /\ DamageIsJournaled'
    BY <2>2 DEF JournalsAreOriginals, DamageIsJournaled
  <2>5. pc'[p] = "undoing" /\ left'[p] = work[p].files \ left[p]
    BY <2>2 DEF TypeOK
  <2>6. Journaled(p)'
    BY <2>1, <2>2, <2>5 DEF Journaled
  <2>7. \A f \in Files \ left'[p] : disk'[f] = tree'[f]
    BY <2>1, <2>2, <2>5
  <2>8. ASSUME NEW q \in Processes PROVE Phase(q)'
    BY <2>5, <2>6, <2>7 DEF Phase, OneProcess
  <2> QED BY <2>3, <2>4, <2>8
<1>5. CASE Committed(p)
  <2>1. /\ Journaled(p)
        /\ left[p] = {}
        /\ pc[p] = "applying"
    BY <1>5 DEF Committed, Phase
  <2>2. NoJournal' /\ journal' \in [TxIds -> Transactions \union {NoTx}]
    BY <1>5, <2>1, ClearLeavesNoJournal DEF Committed
  <2>3. work[p].staged \in [Files -> Contents]
    BY <2>1, WorkFields DEF Journaled
  <2>4. tree' \in [Files -> Contents]
    BY <1>5, <2>3 DEF Committed, TypeOK
  <2>5. TypeOK'
    BY <1>5, <2>2, <2>4 DEF Committed, Goto, TypeOK
  <2>6. disk' = tree'
    <3>1. ASSUME NEW f \in Files PROVE disk'[f] = tree'[f]
      BY <1>5, <2>1 DEF Committed, Phase
    <3> QED BY <1>5, <3>1 DEF Committed, TypeOK
  <2>7. \A q \in Processes : pc'[q] = "idle" /\ left'[q] = {}
    BY <1>5, <2>1 DEF Committed, Goto, TypeOK, OneProcess
  <2> QED BY <2>2, <2>5, <2>6, <2>7, QuietKeepsIInv
<1>6. ASSUME NEW f \in Files, Undo(p, f) PROVE IInv'
  BY <1>6, RestoreFileKeepsIInv DEF Undo
<1>7. CASE Undone(p)
  <2>1. Journaled(p) /\ left[p] = {} /\ disk = tree
    BY <1>7 DEF Undone, Phase, TypeOK
  <2>2. NoJournal' /\ journal' \in [TxIds -> Transactions \union {NoTx}]
    BY <1>7, <2>1, ClearLeavesNoJournal DEF Undone
  <2>3. TypeOK'
    BY <1>7, <2>2 DEF Undone, Goto, TypeOK
  <2>4. \A q \in Processes : pc'[q] = "idle" /\ left'[q] = {}
    BY <1>7, <2>1 DEF Undone, Goto, TypeOK, OneProcess
  <2> QED BY <1>7, <2>1, <2>2, <2>3, <2>4, QuietKeepsIInv DEF Undone
<1>8. CASE UndoFails(p)
  BY <1>8 DEF UndoFails, CleanFaults
<1>9. CASE BeginFails(p)
  <2>1. /\ NoJournal /\ left[p] = {}
        /\ UNCHANGED <<disk, journal, left, listed, lastTx, tree>>
    BY <1>9 DEF BeginFails, Phase
  <2>2. disk = tree
    BY <2>1 DEF DamageIsJournaled, NoJournal, TypeOK
  <2>3. TypeOK'
    BY <1>9 DEF BeginFails, Goto, TypeOK
  <2>4. NoJournal'
    BY <2>1 DEF NoJournal
  <2>5. \A q \in Processes : pc'[q] = "idle" /\ left'[q] = {}
    BY <1>9, <2>1 DEF BeginFails, Goto, TypeOK, OneProcess
  <2> QED BY <2>1, <2>2, <2>3, <2>4, <2>5, QuietKeepsIInv
<1> QED BY <1>1, <1>2, <1>3, <1>4, <1>5, <1>6, <1>7, <1>8, <1>9

\* A crash, between two writes or in the middle of one.
LEMMA CrashKeepsIInv ==
  ASSUME IInv, OneProcess, NEW p \in Processes, Crash(p)
  PROVE  IInv'
<1> USE DEF IInv
<1>1. TypeOK'
  <2>1. disk' \in [Files -> Contents \union {Torn}]
    BY DEF Crash, TypeOK
  <2> QED BY <2>1 DEF Crash, Goto, TypeOK
<1>2. JournalsAreOriginals'
  BY DEF Crash, JournalsAreOriginals
<1>3. DamageIsJournaled'
  <2>1. CASE UNCHANGED disk
    BY <2>1 DEF Crash, DamageIsJournaled
  <2>2. ASSUME NEW f \in left[p], disk' = [disk EXCEPT ![f] = Torn]
        PROVE  DamageIsJournaled'
    <3>1. pc[p] \in {"applying", "undoing", "restoring"}
      BY DEF Phase, TypeOK
    <3>2. /\ Journaled(p)
          /\ work[p].id \in TxIds
          /\ f \in work[p].files
      BY <3>1, WorkFields DEF Phase, Journaled
    <3>3. UNCHANGED <<journal, tree>>
      BY DEF Crash
    <3>4. /\ journal'[work[p].id] # NoTx
          /\ f \in journal'[work[p].id].files
          /\ journal'[work[p].id].original[f] = tree'[f]
      BY <3>2, <3>3 DEF Journaled, JournalsAreOriginals
    <3>5. ASSUME NEW g \in Files, g # f PROVE disk'[g] = disk[g]
      BY <2>2, <3>5 DEF TypeOK
    <3> QED BY <3>2, <3>3, <3>4, <3>5 DEF DamageIsJournaled
  <2> QED BY <2>1, <2>2 DEF Crash
<1>4. pc'[p] = "down" /\ left'[p] = {}
  BY DEF Crash, Goto, TypeOK
<1>5. ASSUME NEW q \in Processes PROVE Phase(q)'
  BY <1>4 DEF Phase, OneProcess
<1> QED BY <1>1, <1>2, <1>3, <1>5

\* The invariant holds in every state.
LEMMA Invariance ==
  ASSUME OneProcess, CleanFaults
  PROVE  Spec => []IInv
<1>1. Init => IInv
  BY DEF Init, IInv, TypeOK, JournalsAreOriginals, DamageIsJournaled, Phase
<1>2. IInv /\ [Next]_vars => IInv'
  <2> SUFFICES ASSUME IInv, [Next]_vars PROVE IInv'
    OBVIOUS
  <2>1. ASSUME NEW p \in Processes, ProcessStep(p) PROVE IInv'
    BY <2>1, RecoveryKeepsIInv, CommitKeepsIInv, CrashKeepsIInv DEF ProcessStep
  <2>2. ASSUME NEW f \in Files, NEW v \in Contents, Edit(f, v) PROVE IInv'
    BY <2>2 DEF Edit, CleanFaults
  <2>3. CASE UNCHANGED vars
    BY <2>3 DEF vars, IInv, TypeOK, JournalsAreOriginals, DamageIsJournaled,
                Phase, NoJournal, Journaled
  <2> QED BY <2>1, <2>2, <2>3 DEF Next
<1> QED BY <1>1, <1>2, PTL DEF Spec

-----------------------------------------------------------------------------
(* The theorems.                                                           *)

\* Whatever a crash interrupts, the journals can put the tree right.
THEOREM WriteAhead ==
  ASSUME OneProcess, CleanFaults
  PROVE  Spec => []DamageIsJournaled
BY Invariance, PTL DEF IInv

\* A multi-file commit is atomic and durable across crashes and restarts.
THEOREM AtomicCommit ==
  ASSUME OneProcess, CleanFaults
  PROVE  Spec => []AtRestTheTreeIsWhole
<1>1. IInv => AtRestTheTreeIsWhole
  <2> SUFFICES ASSUME IInv, NEW p \in Processes, pc[p] \in {"idle", "staged"}
               PROVE  disk = tree
    BY DEF AtRestTheTreeIsWhole
  <2>1. NoJournal
    BY DEF IInv, Phase
  <2> QED BY <2>1 DEF IInv, DamageIsJournaled, NoJournal, TypeOK
<1> QED BY <1>1, Invariance, PTL

\* The next startup would make of the tree what it should be.
LEMMA RecoveredIsTree ==
  ASSUME IInv
  PROVE  Recovered = tree
<1> USE DEF IInv
<1>1. ASSUME NEW f \in Files PROVE Recovered[f] = tree[f]
  <2> DEFINE ts == {t \in TxIds : journal[t] # NoTx /\ f \in journal[t].files}
  <2>1. Recovered[f] = IF ts = {} THEN disk[f] ELSE journal[Min(ts)].original[f]
    BY DEF Recovered
  <2>2. CASE ts = {}
    BY <2>1, <2>2 DEF DamageIsJournaled
  <2>3. ASSUME NEW t \in ts PROVE Recovered[f] = tree[f]
    <3>1. ts = {t} /\ journal[t].original[f] = tree[f]
      BY <2>3 DEF JournalsAreOriginals
    <3>2. Min(ts) = t
      BY <3>1 DEF Min, TxIds
    <3> QED BY <2>1, <3>1, <3>2
  <2> QED BY <2>2, <2>3
<1> QED BY <1>1 DEF Recovered, TypeOK

\* Journaled commits implement the atomic store, whatever a crash interrupts.
THEOREM StoreIsImplemented ==
  ASSUME OneProcess, CleanFaults
  PROVE  Spec => ImplementsAtomicStore
<1>1. Init => Store!SInit
  <2> SUFFICES ASSUME Init PROVE Store!SInit
    OBVIOUS
  <2>1. Recovered = disk
    BY DEF Init, Recovered
  <2> QED BY <2>1 DEF Init, Store!SInit
<1>2. IInv => Recovered = tree
  BY RecoveredIsTree
<1>3. /\ IInv /\ Recovered = tree /\ (Recovered = tree)' /\ [Next]_vars
      => [Store!SNext]_(Store!svars)
  <2> SUFFICES ASSUME IInv, Recovered = tree, (Recovered = tree)', [Next]_vars
               PROVE  [Store!SNext]_(Store!svars)
    OBVIOUS
  <2>1. Recovered = tree /\ Recovered' = tree'
    OBVIOUS
  <2>2. ASSUME NEW p \in Processes, Committed(p) PROVE Store!SNext
    <3>1. /\ work[p].files \in SUBSET Files
          /\ work[p].staged \in [Files -> Contents]
      BY <2>2, WorkFields DEF Committed, IInv, Phase, Journaled
    <3>2. Store!Commit(work[p].files, work[p].staged)
      BY <2>1, <2>2 DEF Committed, Store!Commit
    <3> QED BY <3>1, <3>2 DEF Store!SNext
  <2>3. ASSUME NEW p \in Processes, ProcessStep(p), ~ Committed(p)
        PROVE  tree' = tree
    BY <2>3 DEF ProcessStep, Start, Sweep, Restored, RestoreFails, Swept, Stage,
                Begin, BeginFails, WriteFails, Undone, UndoFails, Restore, Write, Undo, Crash
  <2>4. CASE \E f \in Files, v \in Contents : Edit(f, v)
    BY <2>4 DEF Edit, CleanFaults
  <2>5. CASE tree' = tree
    BY <2>1, <2>5 DEF Store!svars
  <2> QED BY <2>2, <2>3, <2>4, <2>5 DEF Next, vars
<1> QED
  BY <1>1, <1>2, <1>3, Invariance, PTL DEF Spec, ImplementsAtomicStore, Store!SSpec

=============================================================================
