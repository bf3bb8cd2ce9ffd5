------------------------------ MODULE Changes ------------------------------
(***************************************************************************)
(* The vocabulary of the change log of one tinylord database: what a row   *)
(* of the _changelog table (and the realtime event made from it) is, how   *)
(* the next sequence number is found, and what documents a sequence of     *)
(* changes amounts to.  No state: used by the writer, by the abstract      *)
(* change log and by the change feed.                                      *)
(*                                                                         *)
(* A key stands for a (collection, document id) pair and a value for a     *)
(* document body; bodies are compared for equality only.                   *)
(***************************************************************************)
EXTENDS Integers, Sequences

CONSTANTS
    Keys,      \* documents, each a (collection, id) pair
    Vals,      \* document bodies
    NoDoc      \* "no such document"; also the body of a delete row

ASSUME NoDocAssumption == NoDoc \notin Vals

Bodies == Vals \cup {NoDoc}

ChangeOps == {"insert", "update", "delete"}

(***************************************************************************)
(* A row of _changelog.  req is a ghost: the number of the request that    *)
(* made the change, which the table does not store.                        *)
(***************************************************************************)
Change == [seq : Nat \ {0}, op : ChangeOps, key : Keys, val : Bodies, req : Nat]

Seqs(rows) == {r.seq : r \in rows}

\* SELECT COALESCE(MAX(seq), 0) FROM _changelog
MaxSeq(rows) ==
    IF rows = {} THEN 0
    ELSE CHOOSE m \in Seqs(rows) : \A s \in Seqs(rows) : s <= m

\* An INSERT without a value for the INTEGER PRIMARY KEY takes MAX(rowid) + 1.
NextSeq(rows) == MaxSeq(rows) + 1

\* (mistaken) one row too few and one too many
RetainedTooFew(rows, retention) ==
    IF retention <= 0 THEN rows ELSE {r \in rows : r.seq > MaxSeq(rows) - retention + 1}
RetainedTooMany(rows, retention) ==
    IF retention <= 0 THEN rows ELSE {r \in rows : r.seq >= MaxSeq(rows) - retention}

\* The rows the retention keeps: none is dropped when retention <= 0.
Retained(rows, retention) ==
    IF retention <= 0 THEN rows
    ELSE {r \in rows : r.seq > MaxSeq(rows) - retention}

(***************************************************************************)
(* Reading a history of changes back: the body each key has after the      *)
(* changes of h, in order, were applied to an empty database.              *)
(***************************************************************************)
ChangesOf(h, k) == {i \in DOMAIN h : h[i].key = k}

BodyAfter(h, k) ==
    IF ChangesOf(h, k) = {} THEN NoDoc
    ELSE h[CHOOSE m \in ChangesOf(h, k) : \A i \in ChangesOf(h, k) : i <= m].val

Replay(h) == [k \in Keys |-> BodyAfter(h, k)]

(***************************************************************************)
(* A history is legal when every change could be made where it stands: an  *)
(* insert finds no document, an update or a delete finds one, and only a   *)
(* delete leaves none.                                                     *)
(***************************************************************************)
LegalAt(h, i) ==
    LET before == BodyAfter(SubSeq(h, 1, i - 1), h[i].key)
    IN  /\ h[i].op = "insert" <=> before = NoDoc
        /\ h[i].op = "delete" <=> h[i].val = NoDoc

Legal(h) == \A i \in DOMAIN h : LegalAt(h, i)
=============================================================================
