# tinylord in TLA+

A verification project for [tinylord](https://github.com/tudisco/tinylord), a
single-process document database server in Rust: JSON documents in SQLite files,
one writer thread per database, a change feed and pub/sub channels over server-sent
events, encryption at rest. Paths below are paths of the repository
(`src/db/writer.rs` and so on); `docs/api.md` and `README.md` are its documents.

## The system and its parts

| Part | State | Operations | Interacts with |
|---|---|---|---|
| **writer actor** `db/writer.rs` | the database file (documents, `_changelog`, indexes, `_indexes`), its open transaction, the command channel, a command put aside | create, replace, delete, create and drop index, snapshot, checkpoint; group commit, trim | handlers send commands and wait on a oneshot; sends `ChangeEvent`s to the broadcast channel |
| **change feed** `realtime.rs` | per connection: receiver position, watermark `max_sent`, replay still to send | subscribe, resume after `Last-Event-ID`, follow, lag, disconnect | reads `_changelog` through the read pool, receives the writer's broadcasts |
| **registry** `db/mod.rs`, `db/reader.rs` | the map name -> handle under one tokio mutex | `get_or_open`, `drop_database` | opens writer and pool; handlers and streams keep handles alive |
| **admin API** `api/admin.rs`, `system.rs` | tables `databases`, `grants`, principals in `_system.db` | create and delete database, grant, revoke, principals, snapshot | registry, authorization of every request |
| **presence** `api/pubsub.rs` | roster per channel under an RwLock, the pub/sub broadcast channel | subscribe, announce, drop of the guard, publish | handle of the database |
| **queries** `query.rs`, `api/query_ep.rs` | none on the server; a client's cursor or offset | query, count | read pool, while the writer writes |
| **encryption, rekey** `encryption.rs`, `main.rs` | key of each file, key file, backups | resolve key, offline rekey | every open of a file |
| documents, indexes, schema handlers | none | validation, reads by id, index names | writer, read pool |
| **browser accounts** `api/browser_auth.rs`, `system.rs`, `api/mod.rs` | the columns a migration adds to `principals`, `browser_access_tokens`, `browser_sessions`, the login guard's counters | register, log in, refresh, log out; reset a password, disable, open registration | `_system.db`, four pooled connections; authorization of every request |
| token principals, rate limits `auth.rs`, `limits.rs` | a row per principal, the limiter | create, look up by token | authorization |
| configuration, CLI, UI assets, `proxy.rs` | none | start-up and wiring | - |

What is hard in it, in one list (each with its line in `PROJECT.json`, "hazards"):

- one operation of a batch fails, or the whole commit does, or SQLite rolls the
  transaction back by itself in the middle of the batch, or the process dies;
  replies, tables, the change log and the broadcasts must still agree;
- the sequence number is recomputed as `MAX(seq) + 1` from a table that is trimmed;
- a subscriber joins two sources, the log and the channel, that both move while it
  reads them;
- a database is deleted while others open, use or create it;
- joins and leaves are decided under a lock and sent after it;
- rekey changes many files and a key file that no transaction spans;
- a client pages through a collection that changes between its pages;
- rotating a session, issuing tokens, resetting a password and migrating the table
  are several statements each, without a transaction;
- a client that goes away drops its handler wherever it waits.

What makes each part correct is stated under "Properties" below.

## Modules

    Changes      vocabulary of the change log: rows, next number, retention, replay
      ChangeLog    abstract: what readers of one database are promised
      DocOps       what each SQL operation does to a database, as functions
        Writer       the writer thread; implements ChangeLog and FeedSource   MCWriter
          WriterProofs, WriterRefinement   theorems, the second on the first
    FeedSource   abstract: the writer as a subscriber sees it
      ChangeFeed   subscribers on top of FeedSource        MCChangeFeed   FeedProofs
    Registry     one database name through its life        MCRegistry     RegistryProofs
    Presence     one pub/sub channel                       MCPresence     PresenceProofs
    Rekey        the offline rekey                         MCRekey        RekeyProofs
    Query        filters, sorting, paging, count           MCQuery        QueryProofs
    Accounts     browser accounts and their sessions       MCAccounts     AccountsProofs

`Writer` and `ChangeFeed` are composed through `FeedSource`: `ChangeFeed` is
checked over every behaviour of `FeedSource`, and the run `writer_core` shows that
`Writer` has no others (`ImplementsFeedSource`). This keeps the two large state
spaces apart. Restarts and rewinds of the log are `ChangeFeed`'s own additions.

### How state and actions correspond to the code

**Writer.** `phase` is the program counter of `run_loop` and `process_batch`. One
action per statement whose failure or interruption can be told apart: `Take` and
`CollectData` (`recv`/`try_recv`), `Begin`, `SavepointFails`, `ApplyOp` (savepoint,
operation, release or rollback to it), `ApplyFails`, `Commit`, `CommitFails`,
`Resolve` (all finishes), `Broadcast` (one event), `Trim`; the index commands are one
action per SQL statement, because each commits by itself. `db` is what is on disk,
`work` what the writer's connection sees; they differ only inside a transaction. A
`Finish` keeps what the closure in the code has captured, in particular `firm`:
whether it ignores the outcome of COMMIT, as the refusals do. `hist` is a ghost, the
log as it would be without trimming. Documents are keys with opaque bodies; all
indexes are unique and over the whole body, the strongest case; the size check is a
choice that may always say "full". A failure of `RELEASE` and of the rollback to a
savepoint are left out.

**ChangeFeed.** A change is only its class: of the subscriber's collection and filter,
of its collection but filtered out, or of another. The three SELECTs of
`build_resume_plan` are three actions, since they are not in a transaction, and the
receiver attaches before them. What a connection is still to send of its replay is a
set of numbers, the least of which is next (`ORDER BY seq`). `covered` and `excused` are ghosts: changes the client
has or was told to re-read, and changes in one of the two holes described below. The
client is the documented one: it remembers the last id it saw, reconnects with it,
and reads the state when it starts fresh or gets a resync.

**Registry.** Every statement on the system database and every stretch under the
mutex is a step of a request. Files are numbered like inodes, so an unlinked file
lives on in the handles that have it open. `.db`, `-wal` and `-shm` count as one file.
`Overlap` says whether other requests may run during a deletion. The faults are a
failing open of the writer or the pool, a failing unlink (`UnlinkFails`), and a client
that goes away: axum then drops the handler at the `await` it is at, with its mutex
guard and its handle. Dropped while it waits for the new writer (`CancelOpen`), it
leaves a thread that still opens the path and then ends (`StrayOpens`).

**Presence.** Subscribing is three steps (receiver, registration under the lock,
announcement), dropping is two. `view` is a ghost: whom a subscriber takes to be
present if it starts from the roster and applies the joins and leaves it receives.

**Rekey.** It starts with an empty machine: the first command makes the key file
(`Generate`, `WriteFirstKey`), the server the databases (`Create`). Then one action per
file and step of `cmd_rekey`. Key 1 is the first run's, key n + 1 that of the n-th
rekey, `known` the keys that were ever completely in the key file. `PRAGMA rekey` is
one SQLite transaction and atomic; truncating and writing the key file are two steps,
in the first run as in a rekey.

**Query.** `Satisfies` gives the truth of the SQL of each operator over values with a
type, NULL for null and missing, numbers below texts and booleans as 0 and 1.
`StreamPasses` is the JSON equality of the subscription filter. A page is one SELECT.
`Precedes` is the ORDER BY: NULL first, ties as SQLite's plan for the query gives them,
the same way on every page (`ties`); `InOrder` is the sequence it gives, which exists
and has every row once (`OrderedRows` under "Proofs").

**Accounts.** Every statement on the system database and every critical section of the
login guard is a step of a request, since no handler uses a transaction; a process
runs one request at a time and the system pool has room for all of them. These
handlers never `await` between statements, so a client that goes away does not cut
them short; the answer may be lost (`InsertSession`). A row of the two token tables is
a number into `tokens`, which keeps what the row says and, as ghosts, the login it
descends from, the password it was issued under, and whether a client has it. A reset
sets a password nobody had before. `schema` is what the migration has added so far.

Operators marked "(mistaken)" next to a definition are plausible bugs in it; the
modules never use them. Each property of a passing run is listed in `PROJECT.json`
with such a mistake that it must notice.

## Properties and runs

Passing runs (distinct states):

| Run | Instance | Shows |
|---|---|---|
| `writer_core` (3.8 M) | 2 documents of one collection, 2 bodies, one index name, queue 2, batch 2, retention 1, 4 requests, 1 crash; BEGIN, SAVEPOINT and COMMIT may fail | `SeqIsPosition`, `AppliedInOrder`, `RefusalLeavesNothing`, `FeedFollowsHistory`, `LogWithinRetention`, `UniqueHolds`, `IndexesInStep`; refinement of `ChangeLog` (documents are the replay of the history, each change is legal, the log keeps the last `Retention` changes) and of `FeedSource` (everything committed is broadcast before the next commit) |
| `writer_faults` (342 k) | 1 body, unlimited retention, a size cap, 3 requests, 1 crash, all faults including SQLite rolling back by itself | `DocsAreReplay` and `SuccessIsCommitted` hold even then; `EveryRequestAnswered` |
| `feed_core` (1.4 M) | one subscriber, 4 changes of 3 classes, commits of 1 or 2, retention 1, channel capacity 1, 2 connections, 1 restart or rewind | `GapsExplained`, `OnceInOrder`, `EventuallyAccounted` |
| `registry_quiet` (284 k) | 2 requests at a time, 1 user, the database created twice, 1 write, opens and removals may fail, clients may go away, 1 writer opened for nobody, 1 restart | `SingleWriter`, `BornEmpty`, `AckedSurvive`, `NoOrphanGrants`, `RequestsEnd` |
| `presence_core` (4.1 M) | 3 connections of 2 clients, 1 message, receivers may lag | `RosterIsLive`, `ViewIsRoster` |
| `rekey_core` (104 k) | the first run, 3 files, 2 rekeys, 2 writes per file, every failure, kills | `Recoverable`, `AbortRestores`, `KeyFollowsFiles` |
| `query_core` (297 k) | 3 ids, 5 documents, 9 filters, 4 sort orders, limits absent, 0 and 1 under a maximum of 2, any first collection, 2 writes | `PagesAreExact`, `PagesAreSorted`, `StreamedIsQueried` |
| `accounts_core` (1.1 M) | 2 handlers, 1 username, access tokens live 1 and sessions 2 ticks of 2, 1 failure allowed in a window of 1, 1 reset, 4 requests or restarts, statements may fail | `OneAccountPerName`, `OneSessionPerLogin`, `StaleOnlyByOverlap`, `GrantedLast`, `GuardHolds` |

Every module but `Changes`, `DocOps`, `ChangeLog` and `FeedSource` has a `TypeOK`,
checked by its passing run.

Runs that end in a violation, each of a sentence the repository states about itself:

| Run | Sentence | What the code does |
|---|---|---|
| `writer_lost_txn` | "COMMIT failed: everything rolled back." (`src/db/writer.rs:361`) | After SQLite's own rollback the later savepoints of the batch commit by themselves; then COMMIT fails and all of the batch are told that they failed. |
| `feed_trim_race` | "If `<seq>` predates the oldest retained row, the server sends a single `event: resync`" (`docs/api.md:404`) | A trim between reading MIN(seq) and reading the rows makes an unannounced gap. |
| `registry_overlap` | "Delete a database (irreversible: removes the file and -wal/-shm)" (`docs/api.md:226`) | A request under way re-opens the file between the removal of the handle and the unlink; the database created later under the name serves the deleted documents. |
| `rekey_keyfile` | "On any failure, restore from the pre-rekey snapshots and abort without changing the key source." (`src/main.rs:361`) | When the key file cannot be written, the files stay under a key that is lost. |

### Bounds, and why they suffice

- *Writer.* Four requests are what the interesting cases need: two in one batch of
  which one fails, one before and one after. Queue 2 makes senders wait, batch 2 makes
  batches full, retention 1 trims at the second change. The violation run uses batch
  and queue 3, because the loss shows only if something follows the failed statement.
- *ChangeFeed.* Subscribers do not influence each other, so one is enough. With
  capacity 1 a commit of two changes already makes it lag; two connections give one
  resume; four changes let a trim, a lag and a replay happen in one behaviour.
- *Registry.* Two requests make every race of two handlers; three files and handles
  are more than two requests, a stream and the map can hold at a time, so the guards
  that bound them never hold anything up.
- *Presence.* A client with two connections and one with one: the first/last logic
  needs two, and an observer from outside needs a second client. The bound on events
  counts also those about to be sent, so that no connection stops half way for it.
- *Accounts.* All the races are of two requests: two refreshes with one cookie, a reset
  against a login or refresh, two logins at the guard's limit. Two more make the session
  they fight over. With lifetimes 1 and 2 of a clock of 2, both an expired and a live
  row meet every sweep. The handlers are interchangeable, hence the symmetry.
- *Rekey.* Three files distinguish done, in hand and not begun, and some may not exist
  yet; two rekeys show one that starts from what the first left.
- *Query.* With limit 1 three documents make four pages; two writes fall between any
  two of them. The constraint `Claimed` cuts off what follows a write while a client
  pages by offset, of which nothing is claimed.

`CHECK_DEADLOCK FALSE` is set where the bounds on requests, connections or rekeys let
a behaviour end.

### Fairness

`Writer`: weak fairness of the thread's step; it is a dedicated thread that blocks
only on an empty channel. Nobody is obliged to send. `ChangeFeed`: weak fairness of
the broadcast and of each connection's task, under which a stream that stays connected
makes progress; clients need not connect or disconnect. `Registry`: weak fairness of
each request, and strong fairness of taking the mutex, which is tokio's and queues its
waiters first in, first out. The other modules claim no liveness.

### What the passing runs leave open on purpose

- `GapsExplained` excepts two holes and says exactly which changes are in them: rows
  trimmed between the two reads of the resume plan, and numbers up to a
  `Last-Event-ID` that the history had not reached or reached anew after a rewind
  (loss of the last commits with `synchronous = NORMAL`, or a re-created database).
- `FeedFollowsHistory` and both refinements are checked without the fault "io": with
  it changes are committed that are never broadcast (the same cause as
  `writer_lost_txn`).
- A refusal does not wait for COMMIT (`firm`). A delete batched behind a delete of the
  same document is therefore answered 404 although COMMIT may fail and the document
  stay, where `docs/api.md:293` says "404 if absent". No property claims it.
- `registry_quiet` has `Overlap = FALSE`: no other request runs during a deletion.
  `registry_overlap` shows that the properties need this. `SingleWriter` and
  `BornEmpty` except a file that could not be removed (`kept`): the next database of
  the name starts from it, and if an old stream still holds the old handle, with a
  second writer.
- `ViewIsRoster` excepts a client that joined anew before its leave was sent
  (`overtaken`): the leave comes last and an observer believes the client absent;
  nothing in the repository promises otherwise.
- `OneAccountPerName` excepts a migration that was interrupted (`cut`). `init_schema`
  runs it only if there is no column `username`, so a kill between its three statements
  leaves `password_hash` or the unique index missing at every later start.
- `OneSessionPerLogin` excepts logins whose cookie two requests used at once
  (`forked`): `rotate_browser_session` does not look at how many rows its DELETE
  removed, so two overlapping refreshes both get a session, and so does a refresh
  whose session a logout has just removed. A refresh that fails or is cut after the
  DELETE loses the session; a registration whose tokens cannot be issued leaves the
  account.
- `StaleOnlyByOverlap` excepts what is issued by requests that were under way when the
  reset changed the password, or took up such a session (`late`).
- `GuardHolds` allows what both handlers have in flight beyond the limit, and counts by
  the window that admitted an attempt.
- `StreamedIsQueried` is one-sided and excludes null: SQL equates `1`, `1.0` and
  `true`, JSON does not, and a query's null also matches a missing field.

## Proofs

Every invariant and action property that a passing run checks is proved, for every
value of the constants; so are both refinements. Each proof module begins with what it is about, then the parts of its inductive invariant,
then a lemma per part that says that every step keeps it. The assumptions are the
named ones of the modules (types of the constants; sets of processes and of ids finite, `Names`
and `Users` not empty), and those of the table.

| Module | Theorems (`Spec => ...`) | Assumed besides |
|---|---|---|
| `WriterProofs` | `TypeCorrect`, `SequenceNumbers`, `InOrderOfRequests`, `AnswersAreKept`, `DocumentsAreReplay`, `UniqueIndexesHold` | - |
| | `RefusalsLeaveNothing`, `IndexesAreListed` | no "io" |
| `WriterRefinement` | `FeedIsHistory`, `ChangeLogImplemented`, `FeedSourceImplemented` | no "io" |
| | `LogIsTrimmed` | no "io", no "trim" |
| `FeedProofs` | `FeedTypeCorrect`, `GapsAreExplained`, `DeliveredInOrder` | - |
| `PresenceProofs` | `RosterTypeCorrect`, `RosterIsExact`, `StreamsTellTheRoster` | - |
| `RegistryProofs` | `RegistryTypeCorrect` | - |
| | `OneWriterPerFile`, `NothingIsInherited`, `AckedIsKept`, `GrantsGoWithTheName` | no `Overlap` |
| `RekeyProofs` | `TypeCorrect`, `NothingIsLost`, `AbortsRestore`, `KeyComesLast` | - |
| `QueryProofs` | `QueryTypes`, `CursorPagesExact`, `OffsetPagesSorted`, `StreamSubsetOfQuery` | - |
| `AccountsProofs` | `AccountsTypeCorrect`, `NamesAreUnique`, `SessionsAreSingle`, `ResetsRevoke`, `GrantsLast`, `GuardCounts` | - |

The extra assumptions are about what may go wrong, not about sizes. "io" is a
statement whose failure makes SQLite end the transaction by itself; what is then false
is what `writer_lost_txn` shows. "trim" is a trimming that fails: the log is longer
until the next. With `Overlap` requests run during a deletion, and
`registry_overlap` shows what that breaks.

### Writer

`SeqIsPosition` is not inductive: nothing in it ties the table, from which the next
number is computed, to the history. `Sound(s)` adds what does, for the committed and
for the uncommitted state: the rows are changes of the history, and the last change
is always among them. From this `MaxSeqIsLength` concludes that `MAX(seq)` is the
length of the history, `ChangedIsSound` and `OutcomesAreSound` that each operation
keeps it, `TrimIsSound` that trimming never takes the last row. `Control` relates the
program counter to the batch in hand.

The second half of `WriterProofs` adds what relates the requests to the history. `Txn`: outside a
transaction the connection sees what is committed, inside one an extension of it.
`InLine`: the batch, the command put aside and the channel hold the requests in the
order they were sent. `Histories`: every change is of a request before all those still
in line. `Promises`: a finish that is going to send a success has its change in
`work`, for as long as the transaction or its commit lasts, so the answer is true even
when SQLite has dropped the transaction, since COMMIT then fails. `NothingLeft` is the
counterpart for refusals and needs the transaction to last. `Documents` says that both
states are the replay of their history. `Replay` takes the last change of each key, so
what one more change does to it needs no induction over sequences, only that a bounded
set of numbers has a greatest (`GreatestBelow`, from the library's `WFMin`).
`Listed` follows the two statements of an index command.

`WriterRefinement` proves four further parts: what was sent and what is `Due` make up
the history since the opening (`Feed`), `_changelog` is a suffix of the history, the
same one committed and uncommitted (`Suffix`), it is short whenever the thread is not
between a commit and the trimming (`Short`), and a group of events is no larger than
the batch it comes from (`Groups`). The refinements go step by step: a COMMIT with
changes is the abstract commit, each `Broadcast` sends one event, `Trim` trims, a
restart closes the channel, and every other action changes nothing that the mapping
shows.

### Change feed

For each subscriber (`Good`): its position, watermark and what it is still to be sent
lie within what was committed (`Placed`, `Marked`); every change it asked for up to
the one it will hear next is covered, excused, or in its hands (`Known`, `Held`); what
it has received is behind its watermark, unless a rewind undid it (`Behind`).

The attempt to prove `OnceInOrder` without an exception failed for a reason. After a
rewind a client resumes from an id the history has not reached anew (`stale`); if a
trim falls between the two reads of the resume plan and the channel is long, it gets
a resync with the newest number and then lower ones from the channel. TLC found that
behaviour with a capacity of 4. The property now names the exception, as
`GapsExplained` did all along.

### Presence

`RosterIsLive` is inductive with the types. For `ViewIsRoster` the invariant says what
a stream will have told its reader about a client at its end, `TellsTruth`: the last
unread announcement of the client is right, or, if there is none, what the reader
believes already. `LeavesAreTrue` says which announcements can be wrong: only a leave
that a join overtook.

### Registry

`Control` says that a deletion is alone, that one request holds the mutex, and what
each place of a request means for both (`Fits`). `AtPath` and `OnlyAtPath` together
are the argument for `SingleWriter`: the handle in the map and the one being opened
have the file at the path, all other live handles have unlinked files, but for a
removal that failed or is next. `Documents` and `Grants` follow the contents of the
file and the rows from one database of the name to the next.

### Accounts

`Indexed`: no request is served before the unique index is there, unless the migration
was cut. `OnePlace`: a login is in one session or carried by one request that has used
one up, never both; this is what makes `OneSessionPerLogin` inductive. `Valid` is
`GrantedLast` for every token, given or not. `Overtaken` ties each request that
issues tokens to the resets of its account: what it issues under is no older than the
password of any reset under way, or it is `late`. `Guarded` counts, for each window,
the failures and the requests that it admitted and that have not failed yet; their sum
stays within the bound, because a new window starts no earlier than the requests the
old one admitted.

### Rekey

`Recoverable` alone is not inductive: rekeying a file takes away the key it was
readable with, so a backup must already hold the same contents. The inductive
invariant says so in five more parts: the key file is whole for as long as the command
needs the old key (`KeyIsKnown`), before the first key there are no files
(`KeyComesFirst`), every backup is under a key it once held
(`BackupsAreKnown`), the running rekey's backups equal the files and are complete
before the first file is touched (`BackupsAreCopies`), and each step did what it
claims to the files it is through with (`FilesAreDone`). `CopyRecovers` is the lemma
the destructive steps use. Atomicity of `PRAGMA rekey` is in the model, not proved.

### Query

`PagesAreExact` says nothing of where the next page starts; the inductive invariant
`Kept` does. `ByCursor`: the cursor is the last id given, and every id up to it that
matched all the time was given. Writes only shrink the set of those ids, so this
survives any of them. `ByOffset`: while nothing is written, the ids given are the
first `offset` rows of the sorted collection. For that the sort order must determine
the rows: `PrecedesTotal` shows that ORDER BY, with NULL first, numbers before texts,
either direction and ties in either order of id, is a strict total order on any
documents, and `RankedOrder` that a finite set can be put in the order of any such
relation, by counting what is below each element, so no induction is needed.
`PageItems` says what one page is, for any limit and an offset behind the last row
too. `PagesAreSorted` and the agreement with the count then follow from the order and
from the number of elements. `StreamedIsQueried` follows from the two filters alone.

### Only model-checked

- liveness: `EveryRequestAnswered`, `EventuallyAccounted`, `RequestsEnd`. TLAPS has no
  rules for fairness and ENABLED here;
- that the writer composed with the feed keeps the feed's promises is not a theorem of
  its own: `FeedSourceImplemented` and `GapsAreExplained` state its two halves.

## Plan

Done: the writer and its abstractions, the change feed, the registry with failing
removals and clients that go away, presence and what subscribers make of it, the key
file and the rekey, queries with counts and sorts, browser accounts and sessions with
the login guard; the safety of all of them proved.

Next, in this order:

1. facts about operators shared by proof modules (least and greatest numbers, sets in
   order, finite sets of processes) in a module of their own;
2. sorting by several columns, whose order is the lexicographic one of `Precedes`.

Not modelled, and why: routing, rate limits and CORS (library configuration), parsing
and validation of names, filters and documents (string work without state), the
formats of events and responses, JSON storage detection, projections, UI and client
assets, and `proxy.rs` (pure I/O).
