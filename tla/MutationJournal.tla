-------------------------- MODULE MutationJournal --------------------------
(***************************************************************************)
(* Journaled multi-file commits and their recovery after a crash           *)
(* (packages/workspace/src/mutation-journal.ts, and the callers in         *)
(* staging-engine.ts and core's bootstrap.ts).                             *)
(*                                                                         *)
(* A process stages some files, and commits them synchronously: it writes  *)
(* a journal with both contents of every file, writes the files, and       *)
(* clears the journal.  Other processes on the same tree, and a crash, may *)
(* come between any two of those writes.  A transaction names a file once  *)
(* (its changes are a Map), so the order of its files does not matter and  *)
(* they are a set.  A file that is absent has a content of its own.        *)
(***************************************************************************)
EXTENDS Naturals, FiniteSets, FiniteSetsExt

CONSTANTS
  Files,      \* the files of the tree
  Contents,   \* what a file may hold ("absent" may be one of them)
  Torn,       \* the content of a file that was being written
  Processes,  \* the processes that run the CLI on the tree
  Faults,     \* the faults of this instance, a subset of FaultKinds
  MaxTx,      \* bound: transactions 1..MaxTx, in the order of their ids
  NoTx        \* no journal, no transaction

FaultKinds ==
  { "crash",   \* a process dies, possibly in the middle of writing a file
    "write",   \* writing or deleting a file throws and changes nothing
    "torn",    \* writing a file throws and has truncated it
    "undo",    \* restoring a file throws
    "clear",   \* deleting a journal throws
    "edit" }   \* someone else changes a file of the tree

ASSUME TornAssumption   == Torn \notin Contents
ASSUME FaultsAssumption == Faults \subseteq FaultKinds
ASSUME MaxTxAssumption  == MaxTx \in Nat

TxIds == 1 .. MaxTx

\* What a process keeps of a transaction, and what its journal holds; only
\* the contents of its files count.
Transactions ==
  [id : TxIds, files : SUBSET Files,
   original : [Files -> Contents \union {Torn}], staged : [Files -> Contents]]

ASSUME NoTxAssumption == NoTx \notin Transactions

VARIABLES
  disk,     \* the tree
  journal,  \* journal[t]: the file .agency/mutations/<t>.json, or NoTx
  pc,       \* what each process is doing
  work,     \* the transaction a process has in memory, or NoTx
  left,     \* applying: files to write; undoing, restoring: files to restore
  listed,   \* sweeping: the journals the directory listing returned
  lastTx,   \* the latest transaction id
  tree      \* history: the tree as the commits that returned have left it

vars == <<disk, journal, pc, work, left, listed, lastTx, tree>>

Init ==
  /\ disk    \in [Files -> Contents]
  /\ tree    = disk
  /\ journal = [t \in TxIds |-> NoTx]
  /\ pc      = [p \in Processes |-> "down"]
  /\ work    = [p \in Processes |-> NoTx]
  /\ left    = [p \in Processes |-> {}]
  /\ listed  = [p \in Processes |-> {}]
  /\ lastTx  = 0

Goto(p, label) == pc' = [pc EXCEPT ![p] = label]

\* clearMutationJournal, and the rmSync of the recovery sweep.
Clear(t) ==
  \/ journal' = [journal EXCEPT ![t] = NoTx]
  \/ "clear" \in Faults /\ UNCHANGED journal

\* rollbackEntry for one file.
RestoreFile(p, f) ==
  /\ disk' = [disk EXCEPT ![f] = work[p].original[f]]
  /\ left' = [left EXCEPT ![p] = @ \ {f}]

-----------------------------------------------------------------------------
(* Startup: recoverPendingMutations.                                       *)

\* A process starts and lists the journals.
Start(p) ==
  /\ pc[p] = "down"
  /\ listed' = [listed EXCEPT ![p] = {t \in TxIds : journal[t] # NoTx}]
  /\ Goto(p, "sweeping")
  /\ UNCHANGED <<disk, journal, work, left, lastTx, tree>>

\* Faulty variant: no journal is found.
ReadableNone(p) == {}

\* Listed journals that can still be read.
Readable(p) == {t \in listed[p] : journal[t] # NoTx}

\* The sweep reads its next journal, which says "committing".
Sweep(p) ==
  /\ pc[p] = "sweeping"
  /\ Readable(p) # {}
  /\ LET t == Min(Readable(p)) IN
       /\ work'   = [work EXCEPT ![p] = journal[t]]
       /\ left'   = [left EXCEPT ![p] = journal[t].files]
       /\ listed' = [listed EXCEPT ![p] = Readable(p) \ {t}]
  /\ Goto(p, "restoring")
  /\ UNCHANGED <<disk, journal, lastTx, tree>>

Restore(p, f) ==
  /\ pc[p] = "restoring"
  /\ f \in left[p]
  /\ RestoreFile(p, f)
  /\ UNCHANGED <<journal, pc, work, listed, lastTx, tree>>

\* Every file is restored: the journal goes.
Restored(p) ==
  /\ pc[p] = "restoring"
  /\ left[p] = {}
  /\ Clear(work[p].id)
  /\ work' = [work EXCEPT ![p] = NoTx]
  /\ Goto(p, "sweeping")
  /\ UNCHANGED <<disk, left, listed, lastTx, tree>>

\* Restoring a file throws: the journal stays, the sweep goes on.
RestoreFails(p) ==
  /\ "undo" \in Faults
  /\ pc[p] = "restoring"
  /\ left[p] # {}
  /\ work' = [work EXCEPT ![p] = NoTx]
  /\ left' = [left EXCEPT ![p] = {}]
  /\ Goto(p, "sweeping")
  /\ UNCHANGED <<disk, journal, listed, lastTx, tree>>

Swept(p) ==
  /\ pc[p] = "sweeping"
  /\ Readable(p) = {}
  /\ listed' = [listed EXCEPT ![p] = {}]
  /\ Goto(p, "idle")
  /\ UNCHANGED <<disk, journal, work, left, lastTx, tree>>

-----------------------------------------------------------------------------
(* A commit: commitTransactionAtomic and commitMutationsAtomic.            *)

\* A dispatch stages its files: their contents now, and what they shall be.
\* Verification follows, so time passes before the commit.
Stage(p, fs, g) ==
  /\ pc[p] = "idle"
  /\ lastTx < MaxTx
  /\ lastTx' = lastTx + 1
  /\ work'   = [work EXCEPT ![p] = [id |-> lastTx', files |-> fs,
                                    original |-> disk, staged |-> g]]
  /\ Goto(p, "staged")
  /\ UNCHANGED <<disk, journal, left, listed, tree>>

\* Faulty variant: the first file is written before the journal.
BeginUnjournaled(p) ==
  /\ pc[p] = "staged"
  /\ left' = [left EXCEPT ![p] = work[p].files]
  /\ Goto(p, "applying")
  /\ UNCHANGED <<disk, journal, work, listed, lastTx, tree>>

\* writeMutationJournal: a temporary file, then a rename.
Begin(p) ==
  /\ pc[p] = "staged"
  /\ journal' = [journal EXCEPT ![work[p].id] = work[p]]
  /\ left'    = [left EXCEPT ![p] = work[p].files]
  /\ Goto(p, "applying")
  /\ UNCHANGED <<disk, work, listed, lastTx, tree>>

\* The journal cannot be written or renamed: the commit throws before it has
\* touched the tree, and a temporary file is no journal.
BeginFails(p) ==
  /\ Faults \cap {"write", "torn"} # {}
  /\ pc[p] = "staged"
  /\ work' = [work EXCEPT ![p] = NoTx]
  /\ Goto(p, "idle")
  /\ UNCHANGED <<disk, journal, left, listed, lastTx, tree>>

\* applyEntry for one file.
Write(p, f) ==
  /\ pc[p] = "applying"
  /\ f \in left[p]
  /\ disk' = [disk EXCEPT ![f] = work[p].staged[f]]
  /\ left' = [left EXCEPT ![p] = @ \ {f}]
  /\ UNCHANGED <<journal, pc, work, listed, lastTx, tree>>

\* The file applyEntry throws for, and how it leaves the tree.
ThrowsFor(f) ==
  \/ "write" \in Faults /\ UNCHANGED disk
  \/ "torn" \in Faults /\ disk' = [disk EXCEPT ![f] = Torn]

\* Faulty variant: the files still to be written are the ones restored.
WriteFailsSwapped(p) ==
  /\ pc[p] = "applying"
  /\ \E f \in left[p] : ThrowsFor(f)
  /\ Goto(p, "undoing")
  /\ UNCHANGED <<journal, work, left, listed, lastTx, tree>>

\* applyEntry throws: what has been applied, without this file, is undone.
WriteFails(p) ==
  /\ pc[p] = "applying"
  /\ \E f \in left[p] : ThrowsFor(f)
  /\ left' = [left EXCEPT ![p] = work[p].files \ @]
  /\ Goto(p, "undoing")
  /\ UNCHANGED <<journal, work, listed, lastTx, tree>>

\* Every file is written: the journal goes and the commit returns.
Committed(p) ==
  /\ pc[p] = "applying"
  /\ left[p] = {}
  /\ Clear(work[p].id)
  /\ tree' = [f \in Files |->
                IF f \in work[p].files THEN work[p].staged[f] ELSE tree[f]]
  /\ work' = [work EXCEPT ![p] = NoTx]
  /\ Goto(p, "idle")
  /\ UNCHANGED <<disk, left, listed, lastTx>>

Undo(p, f) ==
  /\ pc[p] = "undoing"
  /\ f \in left[p]
  /\ RestoreFile(p, f)
  /\ UNCHANGED <<journal, pc, work, listed, lastTx, tree>>

\* Everything is undone: the journal goes and the commit throws.
Undone(p) ==
  /\ pc[p] = "undoing"
  /\ left[p] = {}
  /\ Clear(work[p].id)
  /\ work' = [work EXCEPT ![p] = NoTx]
  /\ Goto(p, "idle")
  /\ UNCHANGED <<disk, left, listed, lastTx, tree>>

\* Restoring a file throws out of the commit: the journal stays.
UndoFails(p) ==
  /\ "undo" \in Faults
  /\ pc[p] = "undoing"
  /\ left[p] # {}
  /\ work' = [work EXCEPT ![p] = NoTx]
  /\ left' = [left EXCEPT ![p] = {}]
  /\ Goto(p, "idle")
  /\ UNCHANGED <<disk, journal, listed, lastTx, tree>>

-----------------------------------------------------------------------------
(* The environment.                                                        *)

\* The process dies; a file it was writing is torn.
Crash(p) ==
  /\ "crash" \in Faults
  /\ pc[p] # "down"
  /\ \/ UNCHANGED disk
     \/ \E f \in left[p] : disk' = [disk EXCEPT ![f] = Torn]
  /\ work'   = [work EXCEPT ![p] = NoTx]
  /\ left'   = [left EXCEPT ![p] = {}]
  /\ listed' = [listed EXCEPT ![p] = {}]
  /\ Goto(p, "down")
  /\ UNCHANGED <<journal, lastTx, tree>>

\* The user, or a tool, changes a file.
Edit(f, v) ==
  /\ "edit" \in Faults
  /\ v # tree[f]
  /\ disk' = [disk EXCEPT ![f] = v]
  /\ tree' = [tree EXCEPT ![f] = v]
  /\ UNCHANGED <<journal, pc, work, left, listed, lastTx>>

-----------------------------------------------------------------------------
ProcessStep(p) ==
  \/ Start(p) \/ Sweep(p) \/ Restored(p) \/ RestoreFails(p) \/ Swept(p)
  \/ \E fs \in SUBSET Files \ {{}}, g \in [Files -> Contents] : Stage(p, fs, g)
  \/ Begin(p) \/ BeginFails(p) \/ WriteFails(p) \/ Committed(p) \/ Undone(p) \/ UndoFails(p)
  \/ \E f \in Files : Restore(p, f) \/ Write(p, f) \/ Undo(p, f)
  \/ Crash(p)

Next ==
  \/ \E p \in Processes : ProcessStep(p)
  \/ \E f \in Files, v \in Contents : Edit(f, v)

Spec == Init /\ [][Next]_vars

-----------------------------------------------------------------------------
(* Properties.                                                             *)

\* Every variable has its type.
TypeOK ==
  /\ disk    \in [Files -> Contents \union {Torn}]
  /\ tree    \in [Files -> Contents]
  /\ journal \in [TxIds -> Transactions \union {NoTx}]
  /\ pc      \in [Processes -> {"down", "sweeping", "restoring", "idle",
                                "staged", "applying", "undoing"}]
  /\ work    \in [Processes -> Transactions \union {NoTx}]
  /\ left    \in [Processes -> SUBSET Files]
  /\ listed  \in [Processes -> SUBSET TxIds]
  /\ lastTx  \in 0 .. MaxTx

\* All or nothing, and durable: whenever a process is neither committing nor
\* recovering, the tree is what the commits that returned have left: no part
\* of one that failed or crashed, and all of every one reported as done.
AtRestTheTreeIsWhole ==
  \A p \in Processes : pc[p] \in {"idle", "staged"} => disk = tree

\* Write-ahead: at every moment the next startup can restore the tree, because
\* a file that is not what it should be has its proper content in a journal.
DamageIsJournaled ==
  \A f \in Files :
    disk[f] # tree[f] =>
      \E t \in TxIds :
        /\ journal[t] # NoTx
        /\ f \in journal[t].files
        /\ journal[t].original[f] = tree[f]

\* A commit or a recovery that is under way has its whole transaction on
\* disk until it is through, whatever fails.
WorkIsJournaled ==
  \A p \in Processes :
    pc[p] \in {"applying", "undoing", "restoring"} =>
      journal[work[p].id] = work[p]

\* What the next startup would make of the tree.
Recovered ==
  [f \in Files |->
     LET ts == {t \in TxIds : journal[t] # NoTx /\ f \in journal[t].files}
     IN  IF ts = {} THEN disk[f] ELSE journal[Min(ts)].original[f]]

\* The atomic store: all the files of a commit change at once.
Store == INSTANCE AtomicStore WITH content <- Recovered, returned <- tree

\* Every step of the journaled commit, its crashes and its recovery is a
\* commit of the atomic store or changes nothing that can be seen.
ImplementsAtomicStore == Store!SSpec

=============================================================================
