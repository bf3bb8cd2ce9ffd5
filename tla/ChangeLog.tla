----------------------------- MODULE ChangeLog -----------------------------
(***************************************************************************)
(* What one open tinylord database promises to those who read it, whatever *)
(* the batching, the savepoints and the failures of the writer thread      *)
(* behind it (src/src/db/writer.rs implements it; module Writer is shown   *)
(* to refine this one):                                                    *)
(*   - hist, the changes ever committed, only grows, numbered 1, 2, 3, ... *)
(*     without gap, and each change is legal where it stands;              *)
(*   - docs is always what hist amounts to;                                *)
(*   - log, the _changelog table, holds a suffix of hist, at least the     *)
(*     last Retention changes;                                             *)
(*   - sent counts the changes of hist handed to the broadcast channel:    *)
(*     every one, in order, and all of one commit before the next commit.  *)
(***************************************************************************)
EXTENDS Changes

CONSTANT Retention     \* changelog_retention: rows kept; <= 0 keeps them all

VARIABLES docs, hist, log, sent

clVars == <<docs, hist, log, sent>>

CLInit ==
    /\ hist = <<>>
    /\ docs = Replay(<<>>)
    /\ log = {}
    /\ sent = 0

RowsFrom(h, n) == {h[i] : i \in n .. Len(h)}

\* A group of changes becomes visible in one step.
CommitChanges ==
    /\ sent = Len(hist)
    /\ Len(hist') > Len(hist)
    /\ SubSeq(hist', 1, Len(hist)) = hist
    /\ \A i \in Len(hist) + 1 .. Len(hist') : hist'[i].seq = i
    /\ Legal(hist')
    /\ docs' = Replay(hist')
    /\ log' = log \cup RowsFrom(hist', Len(hist) + 1)
    /\ UNCHANGED sent

Emit ==
    /\ sent < Len(hist)
    /\ sent' = sent + 1
    /\ UNCHANGED <<docs, hist, log>>

\* Only changes older than the last Retention are ever dropped.
DropOldRows ==
    /\ sent = Len(hist) /\ Retention > 0
    /\ log' = log \ {hist[i] : i \in 1 .. Len(hist) - Retention}
    /\ UNCHANGED <<docs, hist, sent>>

\* The process restarts: the new broadcast channel starts at the present.
Reopen ==
    /\ sent' = Len(hist)
    /\ UNCHANGED <<docs, hist, log>>

CLNext == CommitChanges \/ Emit \/ DropOldRows \/ Reopen

CLSpec == CLInit /\ [][CLNext]_clVars
=============================================================================
