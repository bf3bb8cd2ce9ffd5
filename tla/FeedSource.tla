----------------------------- MODULE FeedSource -----------------------------
(***************************************************************************)
(* What a subscriber of the change feed sees of the writer: the changes    *)
(* committed so far, by sequence number, how many of them _changelog has   *)
(* dropped, and how many were handed to the broadcast channel.  A change   *)
(* is represented by its class, which decides who wants it.                *)
(* ChangeFeed builds on these actions; module Writer is shown to take no   *)
(* other steps (ImplementsFeedSource in Writer).                           *)
(***************************************************************************)
EXTENDS Integers, Sequences

CONSTANTS
    Classes,      \* kinds of changes
    MaxChanges,   \* bound: changes ever committed
    MaxGroup,     \* bound: changes of one commit (group_commit_max_batch)
    Retention     \* changelog_retention

ASSUME SourceAssumption ==
    MaxChanges \in Nat /\ MaxGroup \in Nat /\ Retention \in Int

VARIABLES
    hist,    \* the class of change 1, 2, 3, ...
    low,     \* _changelog holds the changes low + 1 .. Len(hist)
    sent     \* changes 1 .. sent were broadcast

source == <<hist, low, sent>>

Groups == UNION {[1 .. n -> Classes] : n \in 1 .. MaxGroup}

SourceInit == hist = <<>> /\ low = 0 /\ sent = 0

\* The writer commits a batch once the previous one is broadcast.
CommitGroup ==
    /\ sent = Len(hist)
    /\ \E g \in Groups :
          /\ Len(hist) + Len(g) <= MaxChanges
          /\ hist' = hist \o g
    /\ UNCHANGED <<low, sent>>

EmitNext ==
    /\ sent < Len(hist)
    /\ sent' = sent + 1
    /\ UNCHANGED <<hist, low>>

\* (mistaken) a retention longer than the history drops rows that never were
TrimLogUnguarded ==
    /\ sent = Len(hist)
    /\ Retention > 0
    /\ low' = Len(hist) - Retention
    /\ UNCHANGED <<hist, sent>>

\* trim_changelog, after the broadcast
TrimLog ==
    /\ sent = Len(hist)
    /\ Retention > 0
    /\ low < Len(hist) - Retention
    /\ low' = Len(hist) - Retention
    /\ UNCHANGED <<hist, sent>>

\* The database is opened again: nothing is left to broadcast.
OpenAgain == sent' = Len(hist) /\ UNCHANGED <<hist, low>>

SourceNext == CommitGroup \/ EmitNext \/ TrimLog \/ OpenAgain

SourceSpec == SourceInit /\ [][SourceNext]_source
=============================================================================
