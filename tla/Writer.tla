------------------------------- MODULE Writer -------------------------------
(***************************************************************************)
(* The writer actor of one open database, src/src/db/writer.rs: requests   *)
(* arrive on a bounded channel and one thread executes them, data commands *)
(* in groups inside one SQLite transaction with a savepoint each.  After a *)
(* commit it answers, broadcasts the changes and trims _changelog.         *)
(*                                                                         *)
(* SQLite is modelled by what the code sees of it: db is the committed     *)
(* state, which readers see; work is what the writer's connection sees;    *)
(* open tells whether the connection has a transaction.  Failures of       *)
(* SQLite are the members of Faults:                                       *)
(*   "begin"      BEGIN IMMEDIATE fails                                    *)
(*   "savepoint"  SAVEPOINT fails                                          *)
(*   "io"         a statement of an operation fails with an error (I/O,    *)
(*                disk full, out of memory) on which SQLite rolls back the *)
(*                whole transaction by itself                              *)
(*   "commit"     COMMIT fails                                             *)
(*   "trim"       the trimming DELETE fails                                *)
(* The process may die between any two steps (Crash): what was committed   *)
(* stays, everything else is lost.                                         *)
(***************************************************************************)
EXTENDS DocOps, FiniteSets

CONSTANTS
    QueueCap,      \* capacity of the command channel (1024)
    MaxBatch,      \* group_commit_max_batch
    GroupCommit,   \* group_commit
    Retention,     \* changelog_retention
    Faults,        \* the SQLite failures that may happen
    MaxRequests,   \* bound: requests ever made
    MaxCrashes     \* bound: crashes of the process

ASSUME BoundsAssumption ==
    /\ QueueCap \in Nat \ {0} /\ MaxBatch \in Nat
    /\ MaxRequests \in Nat /\ MaxCrashes \in Nat
ASSUME ConfigAssumption ==
    /\ GroupCommit \in BOOLEAN
    /\ Retention \in Int
    /\ Faults \subseteq {"begin", "savepoint", "io", "commit", "trim"}

Command ==
         DataCommand
    \cup [kind : {"create_index"}, name : IndexNames, coll : Collections]
    \cup [kind : {"drop_index"}, name : IndexNames]
    \cup [kind : {"snapshot", "checkpoint"}]

IsBatchable(cmd) == cmd.kind \in {"create", "replace", "delete"}

NoReply == "none"      \* the oneshot has not been used
Lost == "lost"         \* the process died before answering
Replies == Accepted \cup Refusals \cup {"ok", NoReply, Lost}

Phases == {"idle", "collect", "ops", "resolve", "broadcast", "trim",
           "make_index", "list_index", "unlist_index"}

VARIABLES
    reqs,       \* the commands sent so far; a request is its index here
    queue,      \* the channel: numbers of requests
    pending,    \* the non-batchable request put aside by a batch, 0 if none
    phase,      \* where the writer thread is
    batch,      \* requests in hand, not yet applied
    db,         \* committed state of the database file
    work,       \* the state the writer's connection sees
    open,       \* the connection has a transaction
    finishes,   \* what the batch will answer
    events,     \* changes of the batch, then those still to broadcast
    committed,  \* the outcome of COMMIT
    replies,    \* the answer of each request
    chan,       \* changes broadcast since the database was opened
    base,       \* changes committed before the database was opened
    crashes

vars == <<reqs, queue, pending, phase, batch, db, work, open, finishes, events,
          committed, replies, chan, base, crashes>>

clients == <<reqs, queue, replies>>
feed == <<chan, base>>
txn == <<db, work, open>>
outcome == <<finishes, events, committed>>

Ids == 1 .. Len(reqs)

Finish == [id : Nat, reply : Accepted \cup Refusals, firm : BOOLEAN]

Init ==
    /\ reqs = <<>> /\ queue = <<>> /\ replies = <<>>
    /\ pending = 0 /\ phase = "idle" /\ batch = <<>>
    /\ db = EmptyDb /\ work = EmptyDb /\ open = FALSE
    /\ finishes = <<>> /\ events = <<>> /\ committed = FALSE
    /\ chan = <<>> /\ base = 0 /\ crashes = 0

(***************************************************************************)
(* A handler sends a command and waits for its reply; while the channel is *)
(* full the send waits.  new_ulid never returns an id that is in use, so a *)
(* create names a key no request has named.  The ticker's try_checkpoint   *)
(* is a send that is given up when the channel is full.                    *)
(***************************************************************************)
Fresh(k) == \A i \in Ids : IsBatchable(reqs[i]) => reqs[i].key # k

Submit(cmd) ==
    /\ Len(reqs) < MaxRequests
    /\ Len(queue) < QueueCap
    /\ cmd.kind = "create" => Fresh(cmd.key)
    /\ reqs' = Append(reqs, cmd)
    /\ queue' = Append(queue, Len(reqs) + 1)
    /\ replies' = Append(replies, NoReply)
    /\ UNCHANGED <<pending, phase, batch, txn, outcome, feed, crashes>>

(***************************************************************************)
(* run_loop: the pending command first, else the head of the channel.      *)
(***************************************************************************)
Take(id) ==
    /\ phase = "idle"
    /\ \/ pending # 0 /\ id = pending /\ pending' = 0 /\ UNCHANGED queue
       \/ /\ pending = 0 /\ queue # <<>> /\ id = Head(queue)
          /\ queue' = Tail(queue) /\ UNCHANGED pending

Answer(id, reply) == replies' = [replies EXCEPT ![id] = reply]

\* Checkpoint and Snapshot leave the contents of the database alone.
RunMaintenance(id) ==
    /\ Take(id)
    /\ reqs[id].kind \in {"snapshot", "checkpoint"}
    /\ Answer(id, "ok")
    /\ UNCHANGED <<reqs, phase, batch, txn, outcome, feed, crashes>>

StartBatch(id) ==
    /\ Take(id)
    /\ IsBatchable(reqs[id])
    /\ batch' = <<id>>
    /\ phase' = "collect"
    /\ UNCHANGED <<reqs, replies, txn, outcome, feed, crashes>>

\* Whether try_recv is called once more.
MayCollect == GroupCommit /\ Len(batch) < MaxBatch

\* (mistaken) the batch grows at its head
CollectDataReversed ==
    /\ phase = "collect" /\ MayCollect
    /\ queue # <<>> /\ IsBatchable(reqs[Head(queue)])
    /\ batch' = <<Head(queue)>> \o batch
    /\ queue' = Tail(queue)
    /\ UNCHANGED <<reqs, replies, pending, phase, txn, outcome, feed, crashes>>

CollectData ==
    /\ phase = "collect" /\ MayCollect
    /\ queue # <<>> /\ IsBatchable(reqs[Head(queue)])
    /\ batch' = Append(batch, Head(queue))
    /\ queue' = Tail(queue)
    /\ UNCHANGED <<reqs, replies, pending, phase, txn, outcome, feed, crashes>>

\* BEGIN IMMEDIATE, once the batch is complete: it has its maximal size, the
\* channel is empty, or the command received is not batchable and put aside.
EndCollect ==
    \/ (~MayCollect \/ queue = <<>>) /\ UNCHANGED <<queue, pending>>
    \/ /\ MayCollect /\ queue # <<>> /\ ~IsBatchable(reqs[Head(queue)])
       /\ pending' = Head(queue) /\ queue' = Tail(queue)

Begin ==
    /\ phase = "collect" /\ EndCollect
    /\ open' = TRUE /\ phase' = "ops"
    /\ UNCHANGED <<reqs, replies, batch, db, work, outcome, feed, crashes>>

AnswerAll(ids, reply) ==
    replies' = [i \in DOMAIN replies |-> IF i \in ids THEN reply ELSE replies[i]]

BeginFails ==
    /\ "begin" \in Faults
    /\ phase = "collect" /\ EndCollect
    /\ AnswerAll({batch[i] : i \in DOMAIN batch}, "internal")
    /\ batch' = <<>> /\ phase' = "idle"
    /\ UNCHANGED <<reqs, txn, outcome, feed, crashes>>

(***************************************************************************)
(* The loop of process_batch.  Without a transaction (SQLite rolled it     *)
(* back, see ApplyFails) the savepoint starts one and RELEASE commits it.  *)
(***************************************************************************)
InOps == phase = "ops" /\ batch # <<>>

\* (mistaken) the refused operation stays in the batch; it is not answered
SavepointFailsRetried ==
    /\ "savepoint" \in Faults
    /\ InOps
    /\ Answer(Head(batch), "internal")
    /\ UNCHANGED <<reqs, queue, pending, batch, phase, txn, outcome, feed, crashes>>
SavepointFailsSilently ==
    /\ "savepoint" \in Faults
    /\ InOps
    /\ batch' = Tail(batch)
    /\ UNCHANGED <<clients, pending, phase, txn, outcome, feed, crashes>>

SavepointFails ==
    /\ "savepoint" \in Faults
    /\ InOps
    /\ Answer(Head(batch), "internal")
    /\ batch' = Tail(batch)
    /\ UNCHANGED <<reqs, queue, pending, phase, txn, outcome, feed, crashes>>

FinishOf(id, result) ==
    [id |-> id, reply |-> result.reply, firm |-> result.firm]

ApplyOp ==
    /\ InOps
    /\ \E result \in Outcomes(work, reqs[Head(batch)], Head(batch)) :
          /\ work' = result.db
          /\ db' = IF open THEN db ELSE result.db
          /\ finishes' = Append(finishes, FinishOf(Head(batch), result))
          /\ events' = events \o result.event
    /\ batch' = Tail(batch)
    /\ UNCHANGED <<clients, pending, phase, open, committed, feed, crashes>>

\* A failed statement ended the transaction: nothing of it is left, ROLLBACK
\* TO finds no savepoint, and the loop goes on.
ApplyFails ==
    /\ "io" \in Faults
    /\ InOps
    /\ work' = db /\ open' = FALSE
    /\ finishes' = Append(finishes, FinishOf(Head(batch), Unchanged(work, "internal")))
    /\ batch' = Tail(batch)
    /\ UNCHANGED <<clients, pending, phase, db, events, committed, feed, crashes>>

Commit ==
    /\ phase = "ops" /\ batch = <<>> /\ open
    /\ db' = work /\ open' = FALSE
    /\ committed' = TRUE /\ phase' = "resolve"
    /\ UNCHANGED <<clients, pending, batch, work, finishes, events, feed, crashes>>

\* COMMIT fails by itself or because no transaction is left; then ROLLBACK.
CommitFails ==
    /\ phase = "ops" /\ batch = <<>>
    /\ ~open \/ "commit" \in Faults
    /\ work' = db /\ open' = FALSE
    /\ committed' = FALSE /\ phase' = "resolve"
    /\ UNCHANGED <<clients, pending, batch, db, finishes, events, feed, crashes>>

\* (mistaken) the answer does not wait for the commit
FinishReplyEager(f) == f.reply

\* finish(committed) of one operation
FinishReply(f) == IF committed \/ f.firm THEN f.reply ELSE "internal"

Resolved(i) == {n \in DOMAIN finishes : finishes[n].id = i}

\* (mistaken) also the events of a failed commit
EventsToSendAlways == events

\* The events the finishes return
EventsToSend == IF committed THEN events ELSE <<>>

Resolve ==
    /\ phase = "resolve"
    /\ replies' = [i \in DOMAIN replies |->
           IF Resolved(i) = {} THEN replies[i]
           ELSE FinishReply(finishes[CHOOSE n \in Resolved(i) : TRUE])]
    /\ events' = EventsToSend
    /\ phase' = IF events' = <<>> THEN "idle" ELSE "broadcast"
    /\ finishes' = <<>> /\ committed' = FALSE
    /\ UNCHANGED <<reqs, queue, pending, batch, txn, feed, crashes>>

\* (mistaken) the loop ends after one event
BroadcastOnce ==
    /\ phase = "broadcast"
    /\ chan' = Append(chan, Head(events))
    /\ events' = <<>> /\ phase' = "trim"
    /\ UNCHANGED <<clients, pending, batch, txn, finishes, committed, base, crashes>>

Broadcast ==
    /\ phase = "broadcast"
    /\ chan' = Append(chan, Head(events))
    /\ events' = Tail(events)
    /\ phase' = IF Tail(events) = <<>> THEN "trim" ELSE "broadcast"
    /\ UNCHANGED <<clients, pending, batch, txn, finishes, committed, base, crashes>>

\* trim_changelog, a transaction of its own; a failure is only logged.
TrimmedDb(s) == [s EXCEPT !.log = Retained(@, Retention)]

Trim ==
    /\ phase = "trim" /\ phase' = "idle"
    /\ db' = TrimmedDb(db)
    /\ work' = db'
    /\ UNCHANGED <<clients, pending, batch, open, outcome, feed, crashes>>

TrimFails ==
    /\ "trim" \in Faults
    /\ phase = "trim" /\ phase' = "idle"
    /\ UNCHANGED <<clients, pending, batch, txn, outcome, feed, crashes>>

(***************************************************************************)
(* do_create_index and do_drop_index: each statement is a transaction of   *)
(* its own.  batch holds the request in hand between them.                 *)
(***************************************************************************)
SetDb(s) == db' = s /\ work' = s

InHand == reqs[batch[1]]

IndexOf(cmd) == [name |-> cmd.name, coll |-> cmd.coll]

\* ensure_collection
StartCreateIndex(id) ==
    /\ Take(id)
    /\ reqs[id].kind = "create_index"
    /\ SetDb([db EXCEPT !.colls = @ \cup {reqs[id].coll}])
    /\ batch' = <<id>> /\ phase' = "make_index"
    /\ UNCHANGED <<reqs, replies, open, outcome, feed, crashes>>

EndIndex(reply) ==
    /\ Answer(batch[1], reply)
    /\ batch' = <<>> /\ phase' = "idle"
    /\ UNCHANGED <<reqs, queue, pending, open, outcome, feed, crashes>>

HasDuplicates(s, c) ==
    \E j, k \in Keys : /\ j # k /\ CollOf[j] = c /\ CollOf[k] = c
                       /\ s.docs[j] # NoDoc /\ s.docs[j] = s.docs[k]

Named(indexes, name) == {x \in indexes : x.name = name}

\* CREATE UNIQUE INDEX
MakeIndex ==
    /\ phase = "make_index"
    /\ Named(db.indexes, InHand.name) = {}
    /\ ~HasDuplicates(db, InHand.coll)
    /\ SetDb([db EXCEPT !.indexes = @ \cup {IndexOf(InHand)}])
    /\ phase' = "list_index"
    /\ UNCHANGED <<clients, pending, batch, open, outcome, feed, crashes>>

MakeIndexRefused ==
    /\ phase = "make_index"
    /\ \/ Named(db.indexes, InHand.name) # {} /\ EndIndex("internal")
       \/ /\ Named(db.indexes, InHand.name) = {} /\ HasDuplicates(db, InHand.coll)
          /\ EndIndex("conflict")
    /\ UNCHANGED <<db, work>>

\* INSERT INTO _indexes, whose primary key is the name
ListIndex ==
    /\ phase = "list_index"
    /\ IF Named(db.listed, InHand.name) = {}
       THEN /\ SetDb([db EXCEPT !.listed = @ \cup {IndexOf(InHand)}])
            /\ EndIndex("ok")
       ELSE EndIndex("conflict") /\ UNCHANGED <<db, work>>

\* The lookup in _indexes and DROP INDEX IF EXISTS
StartDropIndex(id) ==
    /\ Take(id)
    /\ reqs[id].kind = "drop_index"
    /\ IF Named(db.listed, reqs[id].name) = {}
       THEN Answer(id, "absent") /\ UNCHANGED <<db, work, batch, phase>>
       ELSE /\ SetDb([db EXCEPT !.indexes = @ \ Named(@, reqs[id].name)])
            /\ batch' = <<id>> /\ phase' = "unlist_index"
            /\ UNCHANGED replies
    /\ UNCHANGED <<reqs, open, outcome, feed, crashes>>

\* (mistaken) the row of _indexes stays
UnlistIndexForgotten ==
    /\ phase = "unlist_index"
    /\ EndIndex("ok")
    /\ UNCHANGED <<db, work>>

\* DELETE FROM _indexes
UnlistIndex ==
    /\ phase = "unlist_index"
    /\ SetDb([db EXCEPT !.listed = @ \ Named(@, InHand.name)])
    /\ EndIndex("ok")

\* The statement fails; the earlier ones are committed.
IndexStepFails ==
    /\ "io" \in Faults
    /\ phase \in {"make_index", "list_index", "unlist_index"}
    /\ EndIndex("internal")
    /\ UNCHANGED <<db, work>>

(***************************************************************************)
(* The process dies and is started again; the database is opened anew.     *)
(***************************************************************************)
Crash ==
    /\ crashes < MaxCrashes /\ crashes' = crashes + 1
    /\ queue' = <<>> /\ pending' = 0 /\ batch' = <<>> /\ phase' = "idle"
    /\ work' = db /\ open' = FALSE
    /\ finishes' = <<>> /\ events' = <<>> /\ committed' = FALSE
    /\ replies' = [i \in DOMAIN replies |->
                       IF replies[i] = NoReply THEN Lost ELSE replies[i]]
    /\ chan' = <<>> /\ base' = Len(db.hist)
    /\ UNCHANGED <<reqs, db>>

\* One step of the writer thread.
Step ==
    \/ \E id \in Ids : RunMaintenance(id) \/ StartBatch(id)
                       \/ StartCreateIndex(id) \/ StartDropIndex(id)
    \/ CollectData \/ Begin \/ BeginFails
    \/ SavepointFails \/ ApplyOp \/ ApplyFails \/ Commit \/ CommitFails
    \/ Resolve \/ Broadcast \/ Trim \/ TrimFails
    \/ MakeIndex \/ MakeIndexRefused \/ ListIndex \/ UnlistIndex \/ IndexStepFails

Next == Step \/ Crash \/ \E cmd \in Command : Submit(cmd)

Spec == Init /\ [][Next]_vars

(***************************************************************************)
(* The thread runs as long as the process does; nobody has to make         *)
(* requests, and the process need not crash.                               *)
(***************************************************************************)
FairSpec == Spec /\ WF_vars(Step)

-----------------------------------------------------------------------------
\* Every variable has its type: the writer thread holds numbers of requests that
\* were made, and every row written to _changelog is a well-formed change.
TypeOK ==
    /\ reqs \in Seq(Command)
    /\ queue \in Seq(Ids) /\ batch \in Seq(Ids) /\ pending \in {0} \cup Ids
    /\ phase \in Phases
    /\ db \in Db /\ work \in Db /\ open \in BOOLEAN
    /\ finishes \in Seq(Finish) /\ events \in Seq(Change) /\ committed \in BOOLEAN
    /\ replies \in [Ids -> Replies]
    /\ chan \in Seq(Change) /\ base \in Nat /\ crashes \in 0 .. MaxCrashes

\* The sequence number of a change is its place in the history, whatever was
\* trimmed, rolled back or lost in a crash: the numbers are unique, increasing
\* and gap-free (insert_changelog, trim_changelog).
SeqIsPosition ==
    \A s \in {db, work} : \A i \in DOMAIN s.hist : s.hist[i].seq = i

\* Documents are exactly what the committed changes amount to: a savepoint that
\* is rolled back takes its change with it, and no change goes unrecorded.
DocsAreReplay == db.docs = Replay(db.hist)

\* Requests take effect at most once and in the order they were sent, whatever
\* was batched, put aside or lost in a crash.
AppliedInOrder ==
    \A i, j \in DOMAIN db.hist : i < j => db.hist[i].req < db.hist[j].req

Made(id) == \E i \in DOMAIN db.hist : db.hist[i].req = id

\* A success answer means the change is committed, now and ever after.
SuccessIsCommitted ==
    \A id \in Ids : replies[id] \in Accepted => Made(id)

\* An error answer means the request left nothing behind.
RefusalLeavesNothing ==
    \A id \in Ids : replies[id] \in Refusals => ~Made(id)

\* The live feed is the committed history without the part before the database
\* was opened: nothing skipped, repeated, reordered or rolled back.
FeedFollowsHistory ==
    /\ base + Len(chan) <= Len(db.hist)
    /\ chan = SubSeq(db.hist, base + 1, base + Len(chan))

\* After a restart the first batch that broadcasts brings _changelog back within
\* its retention, however many rows earlier crashes left behind.
LogWithinRetention ==
    phase = "idle" /\ chan # <<>> /\ Retention > 0
        => Cardinality(db.log) <= Retention

\* No two documents of a collection with a unique index have the same body,
\* also while a transaction is open.
UniqueHolds ==
    \A s \in {db, work} : \A x \in s.indexes : ~HasDuplicates(s, x.coll)

\* As long as nothing fails between two statements, _indexes lists the indexes
\* that exist.
IndexesInStep ==
    crashes = 0 /\ phase \notin {"list_index", "unlist_index"} => db.indexes = db.listed

\* When COMMIT fails everything is rolled back (writer.rs:361): no change of the
\* batch is in the database.
FailedCommitLeavesNothing ==
    phase = "resolve" /\ ~committed =>
        \A i \in DOMAIN events : events[i] \notin {db.hist[j] : j \in DOMAIN db.hist}

\* Every request is answered, whatever fails.
EveryRequestAnswered ==
    \A id \in 1 .. MaxRequests :
        [](id \in Ids => <>(id \in Ids /\ replies[id] # NoReply))

\* The writer implements the abstract change log: batches, savepoints, failed
\* commits and crashes are invisible but for the errors they answer.
Log == INSTANCE ChangeLog WITH
           docs <- db.docs, hist <- db.hist, log <- db.log, sent <- base + Len(chan)

ImplementsChangeLog == Log!CLSpec

\* To a subscriber the writer is the source module ChangeFeed assumes: what is
\* proved of the feed there holds of the feed of this writer.
Source == INSTANCE FeedSource WITH
              Classes <- Keys, MaxChanges <- MaxRequests,
              MaxGroup <- IF MaxBatch > 1 THEN MaxBatch ELSE 1,
              hist <- [i \in DOMAIN db.hist |-> db.hist[i].key],
              low <- Len(db.hist) - Cardinality(db.log),
              sent <- base + Len(chan)

ImplementsFeedSource == Source!SourceSpec
=============================================================================
