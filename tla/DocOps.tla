------------------------------- MODULE DocOps -------------------------------
(***************************************************************************)
(* What each document operation does to one database: the SQL of           *)
(* do_create, do_replace and do_delete in src/src/db/writer.rs, as         *)
(* functions from a database state to the results it may have.             *)
(***************************************************************************)
EXTENDS Changes

CONSTANTS
    Collections,
    CollOf,        \* the collection of each key
    IndexNames,    \* names generate_index_name may mint
    SizeLimited    \* max_database_bytes > 0

ASSUME CollOfAssumption == CollOf \in [Keys -> Collections]
ASSUME SizeLimitedAssumption == SizeLimited \in BOOLEAN

\* A unique index on the whole body of a collection's documents; other
\* indexes change no outcome and are left out.
Index == [name : IndexNames, coll : Collections]

(***************************************************************************)
(* The contents of the database file: documents, collection tables, the    *)
(* indexes of sqlite_master, the rows of _indexes and those of _changelog. *)
(* hist is a ghost, _changelog as it would be had it never been trimmed.   *)
(***************************************************************************)
Db == [docs : [Keys -> Bodies], colls : SUBSET Collections,
       indexes : SUBSET Index, listed : SUBSET Index,
       log : SUBSET Change, hist : Seq(Change)]

EmptyDb == [docs |-> [k \in Keys |-> NoDoc], colls |-> {}, indexes |-> {},
            listed |-> {}, log |-> {}, hist |-> <<>>]

DataCommand ==
         [kind : {"create", "replace"}, key : Keys, val : Vals]
    \cup [kind : {"delete"}, key : Keys]

Accepted == {"created", "updated", "deleted"}
Refusals == {"absent", "conflict", "too_large", "internal"}

(***************************************************************************)
(* The result of one operation: the state it leaves, the reply its finish  *)
(* will send when the batch commits, the change to broadcast (none or      *)
(* one), and firm: whether the finish ignores the outcome of the commit.   *)
(***************************************************************************)
Result == [db : Db, reply : Accepted \cup Refusals,
           event : {<<>>} \cup {<<c>> : c \in Change}, firm : BOOLEAN]

Unchanged(s, reply) ==
    [db |-> s, reply |-> reply, event |-> <<>>, firm |-> TRUE]

\* (mistaken) the number of the last row again
NewChangeReused(s, op, k, v, id) ==
    [seq |-> MaxSeq(s.log), op |-> op, key |-> k, val |-> v, req |-> id]

NewChange(s, op, k, v, id) ==
    [seq |-> NextSeq(s.log), op |-> op, key |-> k, val |-> v, req |-> id]

\* The document statement and insert_changelog, in one savepoint.
Changed(s, op, k, v, id, reply) ==
    LET c == NewChange(s, op, k, v, id)
    IN  [db |-> [s EXCEPT !.docs[k] = v,
                          !.colls = @ \cup {CollOf[k]},
                          !.log = @ \cup {c},
                          !.hist = Append(@, c)],
         reply |-> reply, event |-> <<c>>, firm |-> FALSE]

\* (mistaken) only updates are checked
ClashesOnUpdate(s, k, v) ==
    /\ s.docs[k] # NoDoc
    /\ \E x \in s.indexes : x.coll = CollOf[k]
    /\ \E j \in Keys \ {k} : CollOf[j] = CollOf[k] /\ s.docs[j] = v

\* Another document of the collection has this body under a unique index.
Clashes(s, k, v) ==
    /\ \E x \in s.indexes : x.coll = CollOf[k]
    /\ \E j \in Keys \ {k} : CollOf[j] = CollOf[k] /\ s.docs[j] = v

\* check_db_size: whether the file has reached the cap is left open.
SizeCheck(s) == IF SizeLimited THEN {Unchanged(s, "too_large")} ELSE {}

Write(s, op, k, v, id, reply) ==
    IF Clashes(s, k, v) THEN {Unchanged(s, "conflict")}
    ELSE {Changed(s, op, k, v, id, reply)}

DoCreate(s, k, v, id) ==
    SizeCheck(s) \cup Write(s, "insert", k, v, id, "created")

\* (mistaken) without looking for the document first
DoReplaceBlind(s, k, v, id) ==
    SizeCheck(s) \cup Write(s, "insert", k, v, id, "created")

DoReplace(s, k, v, id) ==
    SizeCheck(s) \cup
        (IF s.docs[k] = NoDoc THEN Write(s, "insert", k, v, id, "created")
                              ELSE Write(s, "update", k, v, id, "updated"))

\* (mistaken) without insert_changelog
DoDeleteUnlogged(s, k, id) ==
    {IF s.docs[k] = NoDoc THEN Unchanged(s, "absent")
     ELSE [db |-> [s EXCEPT !.docs[k] = NoDoc], reply |-> "deleted",
           event |-> <<>>, firm |-> FALSE]}

DoDelete(s, k, id) ==
    IF CollOf[k] \notin s.colls \/ s.docs[k] = NoDoc
    THEN {Unchanged(s, "absent")}
    ELSE {Changed(s, "delete", k, NoDoc, id, "deleted")}

\* apply_op
Outcomes(s, cmd, id) ==
    CASE cmd.kind = "create"  -> DoCreate(s, cmd.key, cmd.val, id)
      [] cmd.kind = "replace" -> DoReplace(s, cmd.key, cmd.val, id)
      [] cmd.kind = "delete"  -> DoDelete(s, cmd.key, id)
=============================================================================
