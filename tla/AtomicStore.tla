---------------------------- MODULE AtomicStore ----------------------------
(***************************************************************************)
(* What journaled commits promise: several files change at once, in the    *)
(* very step in which the commit returns, or none changes.                 *)
(***************************************************************************)
CONSTANTS Files, Contents

VARIABLES
  content,   \* the content of each file, as seen after any crash
  returned   \* the tree as the commits that returned have left it

svars == <<content, returned>>

SInit == content \in [Files -> Contents] /\ returned = content

\* All the files of fs get their new contents together.
Commit(fs, g) ==
  /\ content' = [f \in Files |-> IF f \in fs THEN g[f] ELSE content[f]]
  /\ returned' = content'

SNext == \E fs \in SUBSET Files, g \in [Files -> Contents] : Commit(fs, g)

SSpec == SInit /\ [][SNext]_svars

=============================================================================
