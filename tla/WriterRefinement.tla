-------------------------- MODULE WriterRefinement --------------------------
(***************************************************************************)
(* Theorems about module Writer, for every instance: the live feed and     *)
(* _changelog follow the committed history, and the writer implements the  *)
(* abstract ChangeLog and the FeedSource on which module ChangeFeed is     *)
(* built.  All of them assume that no failed statement ends a transaction  *)
(* ("io" is not in Faults): when one does, operations that follow are      *)
(* committed one by one, and no longer in groups that are broadcast.       *)
(***************************************************************************)
EXTENDS WriterProofs, FiniteSetTheorems, FunctionTheorems

\* The events that will still be sent.
Due == IF phase = "resolve" /\ ~committed THEN <<>> ELSE events

(***************************************************************************)
(* What was sent and what is due make up the history the connection sees,  *)
(* from the opening of the database on.                                    *)
(***************************************************************************)
Feed ==
    /\ Len(work.hist) = base + Len(chan) + Len(Due)
    /\ phase \notin {"resolve", "broadcast"} => Len(db.hist) = base + Len(chan)
    /\ phase \notin {"ops", "resolve", "broadcast"} => events = <<>>
    /\ \A i \in DOMAIN chan : chan[i] = db.hist[base + i]
    /\ \A i \in DOMAIN Due : Due[i] = work.hist[base + Len(chan) + i]

LEMMA FeedTypes ==
    ASSUME IndInv
    PROVE  /\ chan \in Seq(Change) /\ events \in Seq(Change) /\ Due \in Seq(Change) /\ base \in Nat
           /\ db.hist \in Seq(Change) /\ work.hist \in Seq(Change)
           /\ Len(chan) \in Nat /\ Len(events) \in Nat /\ Len(Due) \in Nat
           /\ Len(db.hist) \in Nat /\ Len(work.hist) \in Nat
           /\ (phase # "ops" => work = db)
<1>1. /\ chan \in Seq(Change) /\ events \in Seq(Change) /\ base \in Nat
      /\ db.hist \in Seq(Change) /\ work.hist \in Seq(Change)
      /\ (phase # "ops" => work = db)
  BY DEF IndInv, TypeOK, Db, Control
<1>2. Due \in Seq(Change)
  <2>1. <<>> \in Seq(Change)
    OBVIOUS
  <2>2. QED
    BY <1>1, <2>1 DEF Due
<1>3. QED
  BY <1>1, <1>2

\* A step that keeps histories, channel and due events keeps the invariant.
LEMMA QuietFeed ==
    ASSUME IndInv, Feed, SameData(db', db), SameData(work', work), UNCHANGED <<chan, base>>,
           Due' = Due,
           \/ phase' \in {"resolve", "broadcast"}
           \/ phase \notin {"resolve", "broadcast"}
           \/ Due = <<>> /\ work = db,
           phase' \in {"ops", "resolve", "broadcast"} \/ events' = <<>>
    PROVE  Feed'
<1>1. db'.hist = db.hist /\ work'.hist = work.hist
  BY DEF SameData
<1>2. phase' \notin {"resolve", "broadcast"} => Len(db.hist) = base + Len(chan)
  <2>1. CASE Due = <<>> /\ work = db
    BY <2>1, FeedTypes DEF Feed
  <2>2. QED
    BY <2>1 DEF Feed
<1> HIDE DEF Due
<1>3. QED
  BY <1>1, <1>2 DEF Feed

LEMMA FeedOps ==
    ASSUME IndInv, Txn, NothingLeft, Promises, Feed, ApplyOp
    PROVE  Feed'
<1>1. /\ phase = "ops" /\ phase' = "ops" /\ open /\ UNCHANGED <<chan, base, committed>>
      /\ Due = events /\ Due' = events'
  BY DEF ApplyOp, InOps, feed, NothingLeft, Due
<1>2. CASE Refuses
  BY <1>1, <1>2, QuietFeed DEF Refuses, SameData
<1>3. ASSUME NEW c \in Change, Makes(c) PROVE Feed'
  <2>1. /\ work'.hist = Append(work.hist, c) /\ events' = Append(events, c) /\ db' = db
    BY <1>1, <1>3 DEF Makes
  <2>2. /\ chan \in Seq(Change) /\ events \in Seq(Change) /\ work.hist \in Seq(Change) /\ base \in Nat
        /\ Len(chan) \in Nat /\ Len(events) \in Nat /\ Len(work.hist) \in Nat
    BY FeedTypes
  <2>3. /\ Len(work'.hist) = Len(work.hist) + 1 /\ Len(events') = Len(events) + 1
        /\ \A i \in 1 .. Len(work.hist) : work'.hist[i] = work.hist[i]
        /\ work'.hist[Len(work.hist) + 1] = c
        /\ \A i \in 1 .. Len(events) : events'[i] = events[i]
        /\ events'[Len(events) + 1] = c
        /\ DOMAIN events = 1 .. Len(events) /\ DOMAIN events' = 1 .. Len(events) + 1
    BY <2>1, <2>2
  <2>4. /\ Len(work.hist) = base + Len(chan) + Len(events)
        /\ \A i \in 1 .. Len(events) : events[i] = work.hist[base + Len(chan) + i]
    BY <1>1, <2>3 DEF Feed
  <2>5. \A i \in DOMAIN events' : events'[i] = work'.hist[base + Len(chan) + i]
    <3>1. TAKE i \in DOMAIN events'
    <3>2. CASE i \in 1 .. Len(events)
      <4>1. base + Len(chan) + i \in 1 .. Len(work.hist)
        BY <2>2, <2>4, <3>2
      <4>2. QED
        BY <2>3, <2>4, <3>2, <4>1
    <3>3. CASE i = Len(events) + 1
      BY <2>2, <2>3, <2>4, <3>3
    <3>4. QED
      BY <2>2, <2>3, <3>2, <3>3
  <2>6. Len(work'.hist) = base + Len(chan) + Len(events')
    BY <2>2, <2>3, <2>4
  <2>7. /\ Len(db.hist) = base + Len(chan)
        /\ \A i \in DOMAIN chan : chan[i] = db.hist[base + i]
    BY <1>1 DEF Feed
  <2>8. QED
    BY <1>1, <2>1, <2>5, <2>6, <2>7 DEF Feed
<1>4. QED
  BY <1>2, <1>3, ApplyShape

LEMMA FeedCommit ==
    ASSUME IndInv, Txn, Promises, Feed, Commit \/ CommitFails \/ Resolve
    PROVE  Feed'
<1>0. UNCHANGED <<chan, base>>
  BY DEF Commit, CommitFails, Resolve, feed
<1>1. CASE Commit
  <2>1. /\ phase = "ops" /\ phase' = "resolve" /\ committed' = TRUE /\ events' = events
        /\ db' = work /\ work' = work /\ Due = events /\ Due' = events
    BY <1>1 DEF Commit, Due
  <2>2. Len(db.hist) = base + Len(chan)
    BY <2>1 DEF Feed
  <2>3. \A i \in DOMAIN chan : chan[i] = work.hist[base + i]
    <3>1. ASSUME NEW i \in DOMAIN chan PROVE chan[i] = work.hist[base + i]
      <4>1. base + i \in DOMAIN db.hist
        BY <2>2, FeedTypes
      <4>2. chan[i] = db.hist[base + i] /\ work.hist[base + i] = db.hist[base + i]
        BY <4>1 DEF Feed, Txn, Prefix
      <4>3. QED
        BY <4>2
    <3>2. QED
      BY <3>1
  <2>4. QED
    BY <1>0, <2>1, <2>3 DEF Feed
<1>2. CASE CommitFails
  <2>1. /\ phase = "ops" /\ phase' = "resolve" /\ committed' = FALSE /\ db' = db /\ work' = db
        /\ Due' = <<>>
    BY <1>2 DEF CommitFails, Due
  <2>2. Len(db.hist) = base + Len(chan)
    BY <2>1 DEF Feed
  <2>3. Len(<<>>) = 0 /\ base + Len(chan) + 0 = base + Len(chan)
    BY FeedTypes
  <2>4. QED
    BY <1>0, <2>1, <2>2, <2>3 DEF Feed
<1>3. CASE Resolve
  <2>1. /\ phase = "resolve" /\ db' = db /\ work' = work /\ committed' = FALSE
        /\ phase' = IF events' = <<>> THEN "idle" ELSE "broadcast"
        /\ events' = Due
    BY <1>3 DEF Resolve, EventsToSend, txn, Due
  <2>2. Due' = events'
    BY <2>1 DEF Due
  <2>3. work = db
    BY <2>1, FeedTypes
  <2>4. QED
    BY <1>0, <2>1, <2>2, <2>3, QuietFeed DEF SameData
<1>4. QED
  BY <1>1, <1>2, <1>3

LEMMA FeedBroadcast ==
    ASSUME IndInv, Feed, Broadcast
    PROVE  Feed'
<1>1. /\ phase = "broadcast" /\ events # <<>> /\ chan' = Append(chan, Head(events))
      /\ events' = Tail(events) /\ UNCHANGED <<db, work, base, committed>>
      /\ phase' = IF events' = <<>> THEN "trim" ELSE "broadcast"
      /\ work = db
  BY FeedTypes DEF Broadcast, txn, IndInv, Control
<1>2. /\ chan \in Seq(Change) /\ events \in Seq(Change) /\ db.hist \in Seq(Change) /\ base \in Nat
      /\ Len(chan) \in Nat /\ Len(events) \in Nat /\ Len(db.hist) \in Nat
  BY FeedTypes
<1>3. /\ Len(chan') = Len(chan) + 1 /\ Len(events') = Len(events) - 1 /\ Head(events) = events[1]
      /\ \A i \in 1 .. Len(chan) : chan'[i] = chan[i]
      /\ chan'[Len(chan) + 1] = events[1]
      /\ \A i \in 1 .. Len(events) - 1 : events'[i] = events[i + 1]
      /\ DOMAIN events = 1 .. Len(events) /\ DOMAIN chan = 1 .. Len(chan)
      /\ DOMAIN events' = 1 .. Len(events) - 1 /\ DOMAIN chan' = 1 .. Len(chan) + 1
      /\ Len(events) >= 1
  BY <1>1, <1>2
<1>4. Due = events /\ Due' = events'
  BY <1>1 DEF Due
<1>5. /\ Len(db.hist) = base + Len(chan) + Len(events)
      /\ \A i \in 1 .. Len(events) : events[i] = db.hist[base + Len(chan) + i]
      /\ \A i \in 1 .. Len(chan) : chan[i] = db.hist[base + i]
  BY <1>1, <1>3, <1>4 DEF Feed
<1>6. \A i \in DOMAIN chan' : chan'[i] = db.hist[base + i]
  <2>1. chan'[Len(chan) + 1] = db.hist[base + (Len(chan) + 1)]
    <3>1. events[1] = db.hist[base + Len(chan) + 1] /\ base + Len(chan) + 1 = base + (Len(chan) + 1)
      BY <1>2, <1>3, <1>5
    <3>2. QED
      BY <1>3, <3>1
  <2>2. TAKE i \in DOMAIN chan'
  <2>3. CASE i \in 1 .. Len(chan)
    BY <1>3, <1>5, <2>3
  <2>4. CASE i = Len(chan) + 1
    BY <2>1, <2>4
  <2>5. QED
    BY <1>2, <1>3, <2>3, <2>4
<1>7. \A i \in DOMAIN events' : events'[i] = db.hist[base + Len(chan') + i]
  <2>1. TAKE i \in DOMAIN events'
  <2>2. i + 1 \in 1 .. Len(events) /\ base + Len(chan') + i = base + Len(chan) + (i + 1)
    BY <1>2, <1>3, SMTT(30)
  <2>3. QED
    BY <1>3, <1>5, <2>2
<1>8. Len(db.hist) = base + Len(chan') + Len(events')
  BY <1>2, <1>3, <1>5
<1>9. events' = <<>> => Len(db.hist) = base + Len(chan')
  BY <1>2, <1>3, <1>8
<1>10. QED
  BY <1>1, <1>4, <1>6, <1>7, <1>8, <1>9 DEF Feed

\* What the remaining steps leave alone.
LEMMA QuietSteps ==
    ASSUME [Next]_vars,
           ~(ApplyOp \/ ApplyFails \/ Commit \/ CommitFails \/ Resolve \/ Broadcast \/ Crash)
    PROVE  /\ UNCHANGED <<chan, base, events, committed>>
           /\ \/ phase' = phase
              \/ /\ phase \notin {"resolve", "broadcast", "ops"}
                 /\ phase' \notin {"resolve", "broadcast"}
                 /\ phase # "trim" \/ Trim \/ TrimFails
<1>1. CASE UNCHANGED vars \/ \E cmd \in Command : Submit(cmd)
  BY <1>1 DEF vars, Submit, feed, outcome
<1>2. ASSUME NEW id \in Ids,
             RunMaintenance(id) \/ StartBatch(id) \/ StartCreateIndex(id) \/ StartDropIndex(id)
      PROVE  /\ UNCHANGED <<chan, base, events, committed>>
             /\ phase = "idle" /\ phase' \notin {"resolve", "broadcast"}
  BY <1>2 DEF RunMaintenance, StartBatch, StartCreateIndex, StartDropIndex, Take, feed, outcome
<1>3. CASE CollectData \/ Begin \/ BeginFails \/ SavepointFails \/ Trim \/ TrimFails
  BY <1>3 DEF CollectData, Begin, BeginFails, SavepointFails, Trim, TrimFails, feed, outcome
<1>4. CASE MakeIndex \/ MakeIndexRefused \/ ListIndex \/ UnlistIndex \/ IndexStepFails
  BY <1>4 DEF MakeIndex, MakeIndexRefused, ListIndex, UnlistIndex, IndexStepFails, EndIndex,
              feed, outcome
<1>5. QED
  BY <1>1, <1>2, <1>3, <1>4 DEF Next, Step

LEMMA FeedKept ==
    ASSUME "io" \notin Faults, IndInv, IndInv', Txn, NothingLeft, Promises, Feed, [Next]_vars
    PROVE  Feed'
<1>1. CASE ApplyOp \/ Commit \/ CommitFails \/ Resolve \/ Broadcast
  BY <1>1, FeedOps, FeedCommit, FeedBroadcast
<1>2. CASE Crash
  <2>1. /\ chan' = <<>> /\ base' = Len(db.hist) /\ db' = db /\ work' = db /\ events' = <<>>
        /\ phase' = "idle" /\ Due' = <<>>
    BY <1>2 DEF Crash, Due
  <2>2. Len(<<>>) = 0 /\ Len(db.hist) + 0 = Len(db.hist) /\ Len(db.hist) + 0 + 0 = Len(db.hist)
    BY FeedTypes
  <2>3. QED
    BY <2>1, <2>2 DEF Feed
<1>3. CASE ~(ApplyOp \/ Commit \/ CommitFails \/ Resolve \/ Broadcast \/ Crash)
  <2>1. SameData(db', db) /\ SameData(work', work)
    BY <1>3, DataSteps DEF ApplyFails
  <2>2. /\ UNCHANGED <<chan, base, events, committed>>
        /\ \/ phase' = phase
           \/ phase \notin {"resolve", "broadcast", "ops"} /\ phase' \notin {"resolve", "broadcast"}
    BY <1>3, QuietSteps DEF ApplyFails
  <2>3. Due' = Due
    BY <2>2 DEF Due, Promises
  <2>4. phase' \in {"ops", "resolve", "broadcast"} \/ events' = <<>>
    BY <2>2 DEF Feed
  <2>5. \/ phase' \in {"resolve", "broadcast"} \/ phase \notin {"resolve", "broadcast"}
    BY <2>2
  <2>6. QED
    BY <2>1, <2>2, <2>3, <2>4, <2>5, QuietFeed
<1>4. QED
  BY <1>1, <1>2, <1>3

LEMMA FeedInvariant ==
    ASSUME "io" \notin Faults
    PROVE  Spec => []Feed
<1>1. Init => Feed
  <2>1. Len(<<>>) = 0 /\ 0 + 0 = 0 /\ 0 + 0 + 0 = 0
    OBVIOUS
  <2>2. QED
    BY <2>1 DEF Init, Feed, Due, EmptyDb
<1>2. IndInv /\ IndInv' /\ Txn /\ NothingLeft /\ Promises /\ Feed /\ [Next]_vars => Feed'
  BY FeedKept
<1>3. QED
  BY <1>1, <1>2, IndInvIsInvariant, TxnIsInvariant, NothingLeftInvariant, PTL DEF Spec

\* The live feed is the committed history from the opening of the database on,
\* in order and without a gap, for histories and batches of any length.
THEOREM FeedIsHistory ==
    ASSUME "io" \notin Faults
    PROVE  Spec => []FeedFollowsHistory
<1>1. IndInv /\ Feed => FeedFollowsHistory
  <2> SUFFICES ASSUME IndInv, Feed PROVE FeedFollowsHistory
    OBVIOUS
  <2>1. /\ chan \in Seq(Change) /\ db.hist \in Seq(Change) /\ base \in Nat
        /\ Len(chan) \in Nat /\ Len(db.hist) \in Nat /\ Len(Due) \in Nat
        /\ DOMAIN chan = 1 .. Len(chan)
    BY FeedTypes
  <2>2. base + Len(chan) <= Len(db.hist)
    BY <2>1, FeedTypes DEF Feed
  <2> DEFINE q == SubSeq(db.hist, base + 1, base + Len(chan))
  <2>3. /\ q \in Seq(Change) /\ Len(q) = Len(chan)
        /\ \A i \in 1 .. Len(chan) : q[i] = db.hist[base + i]
    BY <2>1, <2>2
  <2>4. \A i \in 1 .. Len(chan) : chan[i] = q[i]
    BY <2>1, <2>3 DEF Feed
  <2> HIDE DEF q
  <2>5. chan = q
    BY <2>1, <2>3, <2>4
  <2>6. QED
    BY <2>2, <2>5 DEF FeedFollowsHistory, q
<1>2. QED
  BY <1>1, IndInvIsInvariant, FeedInvariant, PTL

-----------------------------------------------------------------------------
(***************************************************************************)
(* _changelog holds the changes of the history from the n-th on.           *)
(***************************************************************************)
RowsAfter(s, n) == s.log = {s.hist[i] : i \in n + 1 .. Len(s.hist)}

Suffix == \E n \in 0 .. Len(db.hist) : RowsAfter(db, n) /\ RowsAfter(work, n)

LEMMA RowsCounted ==
    ASSUME NEW s \in Db, Sound(s), NEW n \in 0 .. Len(s.hist), RowsAfter(s, n)
    PROVE  Cardinality(s.log) = Len(s.hist) - n
<1> DEFINE I == n + 1 .. Len(s.hist)
           f == [i \in I |-> s.hist[i]]
<1>1. /\ s.hist \in Seq(Change) /\ Len(s.hist) \in Nat /\ DOMAIN s.hist = 1 .. Len(s.hist)
      /\ n \in Nat /\ I \subseteq 1 .. Len(s.hist)
  BY DEF Db
<1>2. f \in [I -> s.log] /\ \A i \in I : f[i] = s.hist[i]
  BY DEF RowsAfter
<1>3. \A i, j \in I : f[i] = f[j] => i = j
  <2>1. \A i \in I : s.hist[i].seq = i
    BY <1>1 DEF Sound
  <2> HIDE DEF I, f
  <2>2. QED
    BY <1>2, <2>1
<1>4. \A r \in s.log : \E i \in I : f[i] = r
  BY <1>2 DEF RowsAfter
<1>5. IsFiniteSet(I) /\ Cardinality(I) = Len(s.hist) - n
  <2>1. n + 1 \in Int /\ Len(s.hist) \in Int
    BY <1>1
  <2>2. /\ IsFiniteSet(I)
        /\ Cardinality(I) = IF n + 1 > Len(s.hist) THEN 0 ELSE Len(s.hist) - (n + 1) + 1
    BY <2>1, FS_Interval
  <2>3. n <= Len(s.hist)
    OBVIOUS
  <2>4. QED
    BY <1>1, <2>2, <2>3
<1> HIDE DEF f, I
<1>6. ExistsBijection(I, s.log)
  <2>1. f \in Bijection(I, s.log)
    BY <1>2, <1>3, <1>4, Fun_IsBij
  <2>2. QED
    BY <2>1 DEF ExistsBijection
<1>7. QED
  BY <1>5, <1>6, FS_Bijection

\* An operation adds the row of its change at the end.
LEMMA RowsGrow ==
    ASSUME NEW s \in Db, NEW t \in Db, NEW n \in 0 .. Len(s.hist), RowsAfter(s, n),
           NEW c \in Change, t.hist = Append(s.hist, c), t.log = s.log \cup {c}
    PROVE  n \in 0 .. Len(t.hist) /\ RowsAfter(t, n)
<1> DEFINE m == Len(s.hist)
<1>1. /\ s.hist \in Seq(Change) /\ m \in Nat /\ Len(t.hist) = m + 1 /\ t.hist[m + 1] = c
      /\ \A i \in 1 .. m : t.hist[i] = s.hist[i]
  BY DEF Db
<1> HIDE DEF m
<1>2. n \in Nat /\ n <= m
  BY <1>1 DEF m
<1>3. n + 1 .. m + 1 = (n + 1 .. m) \cup {m + 1}
  BY <1>1, <1>2
<1>4. \A i \in n + 1 .. m : t.hist[i] = s.hist[i]
  BY <1>1, <1>2
<1>5. {t.hist[i] : i \in n + 1 .. m + 1} = {s.hist[i] : i \in n + 1 .. m} \cup {c}
  BY <1>1, <1>3, <1>4
<1>6. QED
  BY <1>1, <1>2, <1>5 DEF RowsAfter, m

\* What trimming leaves is again a suffix.
LEMMA RowsTrimmed ==
    ASSUME NEW s \in Db, Sound(s), NEW n \in 0 .. Len(s.hist), RowsAfter(s, n)
    PROVE  LET m == IF Retention > 0 /\ n < Len(s.hist) - Retention
                    THEN Len(s.hist) - Retention ELSE n
           IN  m \in 0 .. Len(s.hist) /\ RowsAfter(TrimmedDb(s), m)
<1> DEFINE top == Len(s.hist)
           m == IF Retention > 0 /\ n < top - Retention THEN top - Retention ELSE n
<1>1. /\ TrimmedDb(s).hist = s.hist /\ TrimmedDb(s).log = Retained(s.log, Retention)
      /\ s.hist \in Seq(Change) /\ top \in Nat /\ DOMAIN s.hist = 1 .. top
  BY DEF TrimmedDb, Db
<1>2. MaxSeq(s.log) = top
  BY MaxSeqIsLength
<1>3. \A i \in 1 .. top : s.hist[i].seq = i
  BY <1>1 DEF Sound
<1>4. s.log = {s.hist[i] : i \in n + 1 .. top} /\ n \in 0 .. top
  BY DEF RowsAfter
<1> HIDE DEF top
<1>5. m \in 0 .. top
  BY <1>1, <1>4, ConfigAssumption
<1>6. CASE Retention <= 0
  <2>1. Retained(s.log, Retention) = s.log /\ m = n
    BY <1>6, ConfigAssumption DEF Retained
  <2>2. QED
    BY <1>1, <1>4, <1>5, <2>1 DEF RowsAfter, top
<1>7. CASE Retention > 0
  <2>1. Retained(s.log, Retention) = {r \in s.log : r.seq > top - Retention}
    BY <1>2, <1>7, ConfigAssumption DEF Retained
  <2>2. \A i \in n + 1 .. top : i \in 1 .. top /\ (i > top - Retention <=> i \in m + 1 .. top)
    BY <1>1, <1>4, <1>7, ConfigAssumption
  <2>3. \A i \in m + 1 .. top : i \in n + 1 .. top
    BY <1>1, <1>4, <1>7, ConfigAssumption
  <2>4. {r \in s.log : r.seq > top - Retention} = {s.hist[i] : i \in m + 1 .. top}
    <3> HIDE DEF m
    <3>1. ASSUME NEW r \in s.log, r.seq > top - Retention
          PROVE  r \in {s.hist[i] : i \in m + 1 .. top}
      BY <1>3, <1>4, <2>2, <3>1
    <3>2. ASSUME NEW i \in m + 1 .. top
          PROVE  s.hist[i] \in s.log /\ s.hist[i].seq > top - Retention
      <4>1. i \in n + 1 .. top
        BY <2>3
      <4>2. QED
        BY <1>3, <1>4, <2>2, <4>1
    <3>3. QED
      BY <3>1, <3>2
  <2>5. QED
    BY <1>1, <1>5, <2>1, <2>4 DEF RowsAfter, top
<1>8. QED
  BY <1>5, <1>6, <1>7, ConfigAssumption DEF top

LEMMA SuffixKept ==
    ASSUME IndInv, IndInv', Txn, Suffix, [Next]_vars
    PROVE  Suffix'
<1>0. /\ db \in Db /\ work \in Db /\ db' \in Db /\ work' \in Db
      /\ db.hist \in Seq(Change) /\ work.hist \in Seq(Change)
      /\ Len(db.hist) \in Nat /\ Len(work.hist) \in Nat /\ Len(db.hist) <= Len(work.hist)
  <2>1. db \in Db /\ work \in Db /\ db' \in Db /\ work' \in Db
    BY DEF IndInv, TypeOK
  <2>2. \A s \in Db : s.hist \in Seq(Change)
    BY DEF Db
  <2>3. Len(db.hist) <= Len(work.hist)
    BY DEF Txn, Prefix
  <2>4. QED
    BY <2>1, <2>2, <2>3
<1>1. PICK n \in 0 .. Len(db.hist) : RowsAfter(db, n) /\ RowsAfter(work, n)
  BY DEF Suffix
<1>2. n \in 0 .. Len(work.hist)
  BY <1>0
<1>3. CASE /\ SameData(db', db) /\ SameData(work', work)
           /\ db'.log = db.log /\ work'.log = work.log
  BY <1>1, <1>3 DEF SameData, Suffix, RowsAfter
<1>4. CASE Trim
  <2>1. db' = TrimmedDb(db) /\ work' = db'
    BY <1>4 DEF Trim
  <2>2. TrimmedDb(db).hist = db.hist /\ Sound(db)
    BY <1>0, TrimIsSound DEF IndInv
  <2>3. \E m \in 0 .. Len(db.hist) : RowsAfter(TrimmedDb(db), m)
    BY <1>0, <1>1, <2>2, RowsTrimmed
  <2>4. QED
    BY <2>1, <2>2, <2>3 DEF Suffix
<1>5. CASE ApplyFails \/ CommitFails \/ Crash
  BY <1>1, <1>5 DEF ApplyFails, CommitFails, Crash, Suffix
<1>6. CASE Commit
  BY <1>1, <1>2, <1>6 DEF Commit, Suffix
<1>7. CASE ApplyOp
  <2>1. CASE Refuses
    BY <1>1, <2>1 DEF Refuses, Suffix
  <2>2. ASSUME NEW c \in Change, Makes(c) PROVE Suffix'
    <3>1. /\ work'.hist = Append(work.hist, c) /\ work'.log = work.log \cup {c}
          /\ db' = IF open THEN db ELSE work'
      BY <2>2 DEF Makes
    <3>2. n \in 0 .. Len(work'.hist) /\ RowsAfter(work', n)
      BY <1>0, <1>1, <1>2, <3>1, RowsGrow
    <3>3. QED
      BY <1>1, <3>1, <3>2 DEF Suffix
  <2>3. QED
    BY <1>7, <2>1, <2>2, ApplyShape
<1>8. QED
  BY <1>3, <1>4, <1>5, <1>6, <1>7, DataSteps

LEMMA SuffixInvariant == Spec => []Suffix
<1>1. Init => Suffix
  <2> SUFFICES ASSUME Init PROVE Suffix
    OBVIOUS
  <2>1. db.log = {} /\ db.hist = <<>> /\ work = db /\ Len(<<>>) = 0 /\ 0 \in 0 .. 0
    BY DEF Init, EmptyDb
  <2>2. {db.hist[i] : i \in 0 + 1 .. 0} = {}
    OBVIOUS
  <2>3. QED
    BY <2>1, <2>2 DEF Suffix, RowsAfter
<1>2. IndInv /\ IndInv' /\ Txn /\ Suffix /\ [Next]_vars => Suffix'
  BY SuffixKept
<1>3. QED
  BY <1>1, <1>2, IndInvIsInvariant, TxnIsInvariant, PTL DEF Spec

\* A commit without events leaves the database as it was.
LEMMA EmptyCommit ==
    ASSUME IndInv, Txn, Feed, Suffix, phase = "ops", Due = <<>>
    PROVE  work.hist = db.hist /\ work.log = db.log
<1>1. /\ work.hist \in Seq(Change) /\ db.hist \in Seq(Change) /\ base \in Nat /\ Len(chan) \in Nat
  BY FeedTypes
<1>2. Len(work.hist) = Len(db.hist)
  <2>1. Len(Due) = 0 /\ Len(work.hist) = base + Len(chan) + Len(Due)
        /\ Len(db.hist) = base + Len(chan)
    BY DEF Feed
  <2>2. QED
    BY <1>1, <2>1
<1>3. \A i \in 1 .. Len(db.hist) : work.hist[i] = db.hist[i]
  BY <1>1 DEF Txn, Prefix
<1>4. work.hist = db.hist
  BY <1>1, <1>2, <1>3
<1>5. QED
  BY <1>4 DEF Suffix, RowsAfter

(***************************************************************************)
(* From the first broadcast on, the table is within its retention whenever *)
(* the thread is not on its way from a commit to the trimming.             *)
(***************************************************************************)
AtRest == phase \notin {"broadcast", "trim"} /\ (phase = "resolve" => Due = <<>>)

Short ==
    Retention > 0 /\ chan # <<>> /\ AtRest
        => \A r \in db.log : r.seq > Len(db.hist) - Retention

LEMMA ShortKept ==
    ASSUME "io" \notin Faults, "trim" \notin Faults,
           IndInv, IndInv', Txn, NothingLeft, Promises, Feed, Suffix, Short, [Next]_vars
    PROVE  Short'
<1> SUFFICES ASSUME Retention > 0, chan' # <<>>, AtRest'
             PROVE  \A r \in db'.log : r.seq > Len(db'.hist) - Retention
  BY DEF Short
<1>0. ASSUME chan = chan', AtRest, db'.hist = db.hist, db'.log = db.log
      PROVE  \A r \in db'.log : r.seq > Len(db'.hist) - Retention
  BY <1>0 DEF Short
<1>1. CASE Trim
  <2>1. db' = TrimmedDb(db) /\ db \in Db /\ Sound(db)
    BY <1>1 DEF Trim, IndInv, TypeOK
  <2>2. db'.hist = db.hist /\ db'.log = Retained(db.log, Retention)
    BY <2>1, TrimIsSound DEF TrimmedDb, Db
  <2>3. MaxSeq(db.log) = Len(db.hist)
    BY <2>1, MaxSeqIsLength
  <2>4. QED
    BY <2>2, <2>3, ConfigAssumption DEF Retained
<1>2. CASE Commit
  <2>1. /\ phase = "ops" /\ phase' = "resolve" /\ committed' = TRUE /\ events' = events
        /\ db' = work /\ chan' = chan
    BY <1>2 DEF Commit, feed
  <2>2. Due = <<>> /\ AtRest
    BY <2>1 DEF AtRest, Due
  <2>3. QED
    BY <1>0, <2>1, <2>2, EmptyCommit
<1>3. CASE CommitFails
  BY <1>0, <1>3 DEF CommitFails, AtRest, feed
<1>4. CASE Resolve
  <2>1. /\ phase = "resolve" /\ db' = db /\ events' = Due /\ chan' = chan
        /\ phase' = IF events' = <<>> THEN "idle" ELSE "broadcast"
    BY <1>4 DEF Resolve, EventsToSend, Due, txn, feed
  <2>2. AtRest
    BY <2>1 DEF AtRest
  <2>3. QED
    BY <1>0, <2>1, <2>2
<1>5. CASE Broadcast
  BY <1>5 DEF Broadcast, AtRest
<1>6. CASE Crash
  BY <1>6 DEF Crash
<1>7. CASE ApplyOp
  <2>1. phase = "ops" /\ open /\ chan' = chan
    BY <1>7 DEF ApplyOp, InOps, NothingLeft, feed
  <2>2. db' = db
    BY <1>7, <2>1, ApplyShape DEF Refuses, Makes
  <2>3. QED
    BY <1>0, <2>1, <2>2 DEF AtRest
<1>8. CASE ~(Trim \/ ApplyOp \/ Commit \/ CommitFails \/ Resolve \/ Broadcast \/ Crash)
  <2>1. ~ApplyFails /\ ~TrimFails
    BY DEF ApplyFails, TrimFails
  <2>2. /\ UNCHANGED <<chan, events, committed>>
        /\ \/ phase' = phase
           \/ phase \notin {"resolve", "broadcast", "trim"}
    BY <1>8, <2>1, QuietSteps
  <2>3. db'.hist = db.hist /\ db'.log = db.log
    BY <1>8, <2>1, DataSteps DEF SameData
  <2>4. AtRest
    BY <2>2 DEF AtRest, Due
  <2>5. QED
    BY <1>0, <2>2, <2>3, <2>4
<1>9. QED
  BY <1>1, <1>2, <1>3, <1>4, <1>5, <1>6, <1>7, <1>8

\* When the trimming itself does not fail, the first batch that broadcasts brings
\* _changelog back within its retention, however many rows crashes left behind.
THEOREM LogIsTrimmed ==
    ASSUME "io" \notin Faults, "trim" \notin Faults
    PROVE  Spec => []LogWithinRetention
<1>1. Init => Short
  BY DEF Init, Short
<1>2. IndInv /\ IndInv' /\ Txn /\ NothingLeft /\ Promises /\ Feed /\ Suffix /\ Short /\ [Next]_vars
          => Short'
  BY ShortKept
<1>3. IndInv /\ Suffix /\ Short => LogWithinRetention
  <2> SUFFICES ASSUME IndInv, Suffix, Short, phase = "idle", chan # <<>>, Retention > 0
               PROVE  Cardinality(db.log) <= Retention
    BY DEF LogWithinRetention
  <2>1. db \in Db /\ Sound(db) /\ db.hist \in Seq(Change) /\ Len(db.hist) \in Nat
    BY DEF IndInv, TypeOK, Db
  <2>2. PICK n \in 0 .. Len(db.hist) : RowsAfter(db, n)
    BY DEF Suffix
  <2>3. Cardinality(db.log) = Len(db.hist) - n
    BY <2>1, <2>2, RowsCounted
  <2>4. \A r \in db.log : r.seq > Len(db.hist) - Retention
    BY DEF Short, AtRest
  <2>5. CASE n = Len(db.hist)
    BY <2>1, <2>3, <2>5, ConfigAssumption
  <2>6. CASE n # Len(db.hist)
    <3>1. n + 1 \in 1 .. Len(db.hist)
      BY <2>1, <2>6
    <3>2. db.hist[n + 1] \in db.log /\ db.hist[n + 1].seq = n + 1
      BY <2>1, <2>2, <3>1 DEF RowsAfter, Sound
    <3>3. n + 1 > Len(db.hist) - Retention
      BY <2>4, <3>2
    <3>4. QED
      BY <2>1, <2>3, <3>3, ConfigAssumption
  <2>7. QED
    BY <2>5, <2>6
<1>4. QED
  BY <1>1, <1>2, <1>3, IndInvIsInvariant, TxnIsInvariant, NothingLeftInvariant, FeedInvariant,
     SuffixInvariant, PTL DEF Spec

-----------------------------------------------------------------------------
(***************************************************************************)
(* The writer implements ChangeLog: a commit with events is one step of    *)
(* it, a broadcast, a trimming and a restart are the others, and whatever  *)
(* else happens changes nothing that the change log shows.                 *)
(***************************************************************************)
LEMMA SameReading ==
    /\ \A h : Log!Replay(h) = Replay(h)
    /\ \A h : Log!Legal(h) <=> Legal(h)
BY DEF Log!Replay, Log!Legal, Log!LegalAt, Log!BodyAfter, Log!ChangesOf,
       Replay, Legal, LegalAt, BodyAfter, ChangesOf

LogStutters == UNCHANGED <<db.docs, db.hist, db.log, base + Len(chan)>>

LEMMA CommitShowsGroup ==
    ASSUME IndInv, Txn, Documents, Feed, Suffix, Commit, events # <<>>
    PROVE  Log!CommitChanges
<1>0. /\ db' = work /\ phase = "ops" /\ chan' = chan /\ base' = base /\ Due = events
  BY DEF Commit, feed, Due
<1>1. /\ db.hist \in Seq(Change) /\ work.hist \in Seq(Change) /\ events \in Seq(Change)
      /\ chan \in Seq(Change) /\ base \in Nat
  BY FeedTypes
<1> DEFINE m == Len(db.hist)
           w == Len(work.hist)
<1>2. m \in Nat /\ w \in Nat /\ Len(events) \in Nat /\ Len(events) > 0 /\ Len(chan) \in Nat
  BY <1>1
<1>3. base + Len(chan) = m /\ w = m + Len(events) /\ w > m
  <2>1. m = base + Len(chan) /\ w = base + Len(chan) + Len(events)
    BY <1>0 DEF Feed
  <2>2. QED
    BY <1>1, <1>2, <2>1
<1>4. \A i \in 1 .. m : work.hist[i] = db.hist[i]
  BY <1>1 DEF Txn, Prefix
<1>5. SubSeq(work.hist, 1, m) = db.hist
  <2>1. /\ SubSeq(work.hist, 1, m) \in Seq(Change) /\ Len(SubSeq(work.hist, 1, m)) = m
        /\ \A i \in 1 .. m : SubSeq(work.hist, 1, m)[i] = work.hist[i]
    BY <1>1, <1>2, <1>3
  <2>2. QED
    BY <1>1, <1>4, <2>1
<1>6. \A i \in m + 1 .. w : work.hist[i].seq = i
  BY <1>1, <1>2 DEF IndInv, Sound
<1>7. Log!Legal(work.hist) /\ work.docs = Log!Replay(work.hist)
  BY SameReading DEF Documents, ReplayOf
<1>8. work.log = db.log \cup {work.hist[i] : i \in m + 1 .. w}
  <2>1. PICK n \in 0 .. m : RowsAfter(db, n) /\ RowsAfter(work, n)
    BY DEF Suffix
  <2>2. n + 1 .. w = (n + 1 .. m) \cup (m + 1 .. w) /\ n \in Nat
    BY <1>2, <1>3
  <2>3. \A i \in n + 1 .. m : work.hist[i] = db.hist[i]
    BY <1>2, <1>4
  <2>4. {work.hist[i] : i \in n + 1 .. w}
            = {db.hist[i] : i \in n + 1 .. m} \cup {work.hist[i] : i \in m + 1 .. w}
    BY <2>2, <2>3
  <2>5. QED
    BY <2>1, <2>4 DEF RowsAfter
<1>9. Log!RowsFrom(work.hist, m + 1) = {work.hist[i] : i \in m + 1 .. w}
  BY DEF Log!RowsFrom
<1> HIDE DEF m, w
<1>10. QED
  BY <1>0, <1>3, <1>5, <1>6, <1>7, <1>8, <1>9 DEF Log!CommitChanges, m, w

LEMMA TrimShowsDropping ==
    ASSUME IndInv, Feed, Trim
    PROVE  Log!DropOldRows \/ LogStutters
<1>0. /\ db' = TrimmedDb(db) /\ phase = "trim" /\ chan' = chan /\ base' = base
      /\ db \in Db /\ Sound(db)
  BY DEF Trim, feed, IndInv, TypeOK
<1> DEFINE m == Len(db.hist)
<1>1. /\ db.hist \in Seq(Change) /\ m \in Nat /\ DOMAIN db.hist = 1 .. m
      /\ base \in Nat /\ Len(chan) \in Nat
  BY FeedTypes
<1>2. db'.docs = db.docs /\ db'.hist = db.hist /\ db'.log = Retained(db.log, Retention)
  BY <1>0 DEF TrimmedDb, Db
<1>3. base + Len(chan) = m
  BY <1>0 DEF Feed
<1>4. MaxSeq(db.log) = m
  BY <1>0, MaxSeqIsLength
<1>5. CASE Retention <= 0
  BY <1>0, <1>2, <1>5, ConfigAssumption DEF Retained, LogStutters
<1>6. CASE Retention > 0
  <2>1. db'.log = {r \in db.log : r.seq > m - Retention}
    BY <1>2, <1>4, <1>6, ConfigAssumption DEF Retained
  <2>2. \A i \in 1 .. m : db.hist[i].seq = i
    BY <1>0, <1>1 DEF Sound
  <2>3. \A r \in db.log : \E i \in 1 .. m : r = db.hist[i]
    BY <1>0, <1>1 DEF Sound
  <2>4. \A i \in 1 .. m - Retention : i \in 1 .. m /\ ~(i > m - Retention)
    BY <1>1, <1>6, ConfigAssumption
  <2>5. \A i \in 1 .. m : i > m - Retention \/ i \in 1 .. m - Retention
    BY <1>1, <1>6, ConfigAssumption
  <2> HIDE DEF m
  <2>6. db'.log = db.log \ {db.hist[i] : i \in 1 .. m - Retention}
    <3>1. ASSUME NEW r \in db.log
          PROVE  r.seq > m - Retention <=> r \notin {db.hist[i] : i \in 1 .. m - Retention}
      <4>1. PICK j \in 1 .. m : r = db.hist[j] /\ r.seq = j
        BY <2>2, <2>3
      <4>2. CASE j > m - Retention
        BY <2>2, <2>4, <4>1, <4>2
      <4>3. CASE ~(j > m - Retention)
        BY <2>5, <4>1, <4>3
      <4>4. QED
        BY <4>2, <4>3
    <3>2. QED
      BY <2>1, <3>1
  <2>7. QED
    BY <1>0, <1>2, <1>3, <1>6, <2>6 DEF Log!DropOldRows, m
<1>7. QED
  BY <1>5, <1>6, ConfigAssumption

LEMMA LogSteps ==
    ASSUME "io" \notin Faults,
           IndInv, Txn, NothingLeft, Documents, Feed, Suffix, [Next]_vars
    PROVE  Log!CLNext \/ LogStutters
<1>1. CASE Commit
  <2>1. CASE events # <<>>
    BY <1>1, <2>1, CommitShowsGroup DEF Log!CLNext
  <2>2. CASE events = <<>>
    <3>1. phase = "ops" /\ db' = work /\ chan' = chan /\ base' = base /\ Due = <<>>
      BY <1>1, <2>2 DEF Commit, feed, Due
    <3>2. work.hist = db.hist /\ work.log = db.log
      BY <3>1, EmptyCommit
    <3>3. work.docs = db.docs
      BY <3>2 DEF Documents, ReplayOf
    <3>4. QED
      BY <3>1, <3>2, <3>3 DEF LogStutters
  <2>3. QED
    BY <2>1, <2>2
<1>2. CASE Broadcast
  <2>1. /\ phase = "broadcast" /\ events # <<>> /\ chan' = Append(chan, Head(events))
        /\ db' = db /\ base' = base /\ work = db /\ Due = events
    BY <1>2 DEF Broadcast, txn, IndInv, Control, Due
  <2>2. /\ chan \in Seq(Change) /\ events \in Seq(Change) /\ base \in Nat
        /\ Len(events) > 0 /\ Len(chan) \in Nat /\ Len(events) \in Nat /\ Head(events) \in Change
    BY <2>1, FeedTypes
  <2>3. Len(db.hist) = base + Len(chan) + Len(events)
    BY <2>1 DEF Feed
  <2>4. base + Len(chan') = base + Len(chan) + 1
    BY <2>1, <2>2
  <2>5. base + Len(chan) < Len(db.hist)
    BY <2>2, <2>3
  <2>6. QED
    BY <2>1, <2>4, <2>5 DEF Log!CLNext, Log!Emit
<1>3. CASE Trim
  BY <1>3, TrimShowsDropping DEF Log!CLNext
<1>4. CASE Crash
  <2>1. chan' = <<>> /\ base' = Len(db.hist) /\ db' = db /\ Len(<<>>) = 0
    BY <1>4 DEF Crash
  <2>2. base' + Len(chan') = Len(db.hist)
    BY <2>1, FeedTypes
  <2>3. QED
    BY <2>1, <2>2 DEF Log!CLNext, Log!Reopen
<1>5. CASE CommitFails \/ Resolve
  BY <1>5 DEF CommitFails, Resolve, feed, txn, LogStutters
<1>6. CASE ApplyOp
  <2>1. open /\ chan' = chan /\ base' = base
    BY <1>6 DEF ApplyOp, InOps, NothingLeft, feed
  <2>2. db' = db
    BY <1>6, <2>1, ApplyShape DEF Refuses, Makes
  <2>3. QED
    BY <2>1, <2>2 DEF LogStutters
<1>7. CASE ~(Trim \/ ApplyOp \/ Commit \/ CommitFails \/ Resolve \/ Broadcast \/ Crash)
  <2>1. ~ApplyFails
    BY DEF ApplyFails
  <2>2. UNCHANGED <<chan, base>>
    BY <1>7, <2>1, QuietSteps
  <2>3. db'.docs = db.docs /\ db'.hist = db.hist /\ db'.log = db.log
    BY <1>7, <2>1, DataSteps DEF SameData
  <2>4. QED
    BY <2>2, <2>3 DEF LogStutters
<1>8. QED
  BY <1>1, <1>2, <1>3, <1>4, <1>5, <1>6, <1>7

\* Whatever is batched, refused, rolled back or lost in a crash, a reader sees
\* the abstract change log, for every queue, batch size and retention.
THEOREM ChangeLogImplemented ==
    ASSUME "io" \notin Faults
    PROVE  Spec => ImplementsChangeLog
<1>1. Init => Log!CLInit
  <2> SUFFICES ASSUME Init PROVE Log!CLInit
    OBVIOUS
  <2>1. /\ db.docs = [k \in Keys |-> NoDoc] /\ db.hist = <<>> /\ db.log = {}
        /\ base = 0 /\ chan = <<>>
    BY DEF Init, EmptyDb
  <2>2. \A k \in Keys : BodyAfter(<<>>, k) = NoDoc
    BY DEF BodyAfter, ChangesOf
  <2>3. db.docs = Log!Replay(<<>>)
    BY <2>1, <2>2, SameReading DEF Replay
  <2>4. base + Len(chan) = 0
    BY <2>1
  <2>5. QED
    BY <2>1, <2>3, <2>4 DEF Log!CLInit
<1>2. IndInv /\ Txn /\ NothingLeft /\ Documents /\ Feed /\ Suffix /\ [Next]_vars
          => [Log!CLNext]_(Log!clVars)
  BY LogSteps DEF LogStutters, Log!clVars
<1>3. QED
  BY <1>1, <1>2, IndInvIsInvariant, TxnIsInvariant, NothingLeftInvariant, DocumentsInvariant,
     FeedInvariant, SuffixInvariant, PTL DEF Spec, ImplementsChangeLog, Log!CLSpec

-----------------------------------------------------------------------------
(***************************************************************************)
(* The writer implements FeedSource, on which ChangeFeed is built.  This   *)
(* one also bounds the groups: a batch holds at most MaxBatch requests, an *)
(* operation makes at most one change, and there are no more changes than  *)
(* requests.                                                               *)
(***************************************************************************)
Largest == IF MaxBatch > 1 THEN MaxBatch ELSE 1

Groups ==
    /\ Len(reqs) <= MaxRequests
    /\ phase = "collect" => Len(batch) <= Largest
    /\ phase = "ops" => Len(finishes) + Len(batch) <= Largest /\ Len(events) <= Len(finishes)

LEMMA GroupTypes ==
    ASSUME IndInv
    PROVE  /\ reqs \in Seq(Command) /\ batch \in Seq(Ids) /\ finishes \in Seq(Finish)
           /\ events \in Seq(Change)
           /\ Len(reqs) \in Nat /\ Len(batch) \in Nat /\ Len(finishes) \in Nat /\ Len(events) \in Nat
           /\ Largest \in Nat /\ 1 <= Largest /\ MaxBatch <= Largest
BY BoundsAssumption DEF IndInv, TypeOK, Largest

LEMMA GroupsInOps ==
    ASSUME IndInv, IndInv', Txn, NothingLeft, Groups, InOps,
           ApplyOp \/ ApplyFails \/ SavepointFails
    PROVE  Groups'
<1>0. /\ phase = "ops" /\ phase' = "ops" /\ reqs' = reqs /\ batch' = Tail(batch) /\ batch # <<>>
  BY DEF ApplyOp, ApplyFails, SavepointFails, InOps, clients
<1>1. Len(batch') = Len(batch) - 1
  BY <1>0, GroupTypes
<1>2. ASSUME NEW f, finishes' = Append(finishes, f), Len(events') <= Len(events) + 1
      PROVE  Groups'
  <2>1. finishes \in Seq(Finish) /\ finishes' \in Seq(Finish)
    BY DEF IndInv, TypeOK, Finish
  <2>2. Len(finishes') = Len(finishes) + 1
    BY <1>2, <2>1
  <2>3. Len(finishes) + Len(batch) <= Largest /\ Len(events) <= Len(finishes)
    BY <1>0 DEF Groups
  <2>4. Len(events') \in Nat /\ Len(finishes') + Len(batch') <= Largest
    BY <1>1, <2>2, <2>3, GroupTypes DEF IndInv, TypeOK
  <2>5. Len(events') <= Len(finishes')
    BY <1>2, <2>2, <2>3, <2>4, GroupTypes
  <2>6. QED
    BY <1>0, <2>4, <2>5 DEF Groups
<1>3. CASE ApplyOp
  <2>1. CASE Refuses
    BY <1>2, <2>1, GroupTypes DEF Refuses
  <2>2. ASSUME NEW c \in Change, Makes(c) PROVE Groups'
    <3>1. events' = Append(events, c) /\ \E f : finishes' = Append(finishes, f)
      BY <2>2 DEF Makes
    <3>2. Len(events') = Len(events) + 1
      BY <3>1, GroupTypes
    <3>3. QED
      BY <1>2, <3>1, <3>2, GroupTypes
  <2>3. QED
    BY <1>3, <2>1, <2>2, ApplyShape
<1>4. CASE ApplyFails
  BY <1>2, <1>4, GroupTypes DEF ApplyFails
<1>5. CASE SavepointFails
  <2>1. finishes' = finishes /\ events' = events
    BY <1>5 DEF SavepointFails, outcome
  <2>2. QED
    BY <1>0, <1>1, <2>1, GroupTypes DEF Groups
<1>6. QED
  BY <1>3, <1>4, <1>5

LEMMA GroupsKept ==
    ASSUME IndInv, IndInv', Txn, InLine, NothingLeft, Feed, Groups, [Next]_vars
    PROVE  Groups'
<1>1. CASE ApplyOp \/ ApplyFails \/ SavepointFails
  BY <1>1, GroupsInOps DEF ApplyOp, ApplyFails, SavepointFails
<1>2. CASE CollectData
  <2>1. /\ phase' = phase /\ phase = "collect" /\ reqs' = reqs
        /\ batch' = Append(batch, Head(queue)) /\ Len(batch) < MaxBatch
    BY <1>2 DEF CollectData, MayCollect
  <2>2. Len(batch') = Len(batch) + 1
    BY <2>1, GroupTypes
  <2>3. QED
    BY <2>1, <2>2, GroupTypes, BoundsAssumption DEF Groups
<1>3. CASE Begin
  <2>1. /\ phase = "collect" /\ phase' = "ops" /\ reqs' = reqs /\ batch' = batch
        /\ finishes' = finishes /\ events' = events
    BY <1>3 DEF Begin, outcome
  <2>2. finishes = <<>> /\ events = <<>> /\ Len(<<>>) = 0
    BY <2>1 DEF InLine, Feed
  <2>3. QED
    BY <2>1, <2>2, GroupTypes DEF Groups
<1>4. ASSUME NEW id \in Ids, StartBatch(id) PROVE Groups'
  <2>1. batch' = <<id>> /\ phase' = "collect" /\ reqs' = reqs /\ Len(<<id>>) = 1
    BY <1>4 DEF StartBatch
  <2>2. QED
    BY <2>1, GroupTypes DEF Groups
<1>5. ASSUME NEW id \in Ids, RunMaintenance(id) \/ StartCreateIndex(id) \/ StartDropIndex(id)
      PROVE  Groups'
  BY <1>5 DEF RunMaintenance, StartCreateIndex, StartDropIndex, Take, Groups
<1>6. ASSUME NEW cmd \in Command, Submit(cmd) PROVE Groups'
  <2>1. /\ reqs' = Append(reqs, cmd) /\ Len(reqs) < MaxRequests
        /\ UNCHANGED <<phase, batch, finishes, events>>
    BY <1>6 DEF Submit, outcome
  <2>2. Len(reqs') = Len(reqs) + 1
    BY <2>1, GroupTypes
  <2>3. QED
    BY <2>1, <2>2, GroupTypes, BoundsAssumption DEF Groups
<1>7. CASE BeginFails \/ Commit \/ CommitFails \/ Resolve \/ Broadcast \/ Trim \/ TrimFails
  BY <1>7 DEF BeginFails, Commit, CommitFails, Resolve, Broadcast, Trim, TrimFails, clients, Groups
<1>8. CASE MakeIndex \/ MakeIndexRefused \/ ListIndex \/ UnlistIndex \/ IndexStepFails
  BY <1>8 DEF MakeIndex, MakeIndexRefused, ListIndex, UnlistIndex, IndexStepFails, EndIndex,
              clients, Groups
<1>9. CASE Crash
  BY <1>9 DEF Crash, Groups
<1>10. CASE UNCHANGED vars
  BY <1>10 DEF vars, Groups
<1>11. QED
  BY <1>1, <1>2, <1>3, <1>4, <1>5, <1>6, <1>7, <1>8, <1>9, <1>10 DEF Next, Step

LEMMA GroupsInvariant ==
    ASSUME "io" \notin Faults
    PROVE  Spec => []Groups
<1>1. Init => Groups
  <2>1. Len(<<>>) = 0
    OBVIOUS
  <2>2. QED
    BY <2>1, BoundsAssumption DEF Init, Groups
<1>2. IndInv /\ IndInv' /\ Txn /\ InLine /\ NothingLeft /\ Feed /\ Groups /\ [Next]_vars => Groups'
  BY GroupsKept
<1>3. QED
  BY <1>1, <1>2, IndInvIsInvariant, TxnIsInvariant, InLineIsInvariant, NothingLeftInvariant,
     FeedInvariant, PTL DEF Spec

\* There are no more changes than requests.
LEMMA FewChanges ==
    ASSUME IndInv, Histories, Groups
    PROVE  Len(work.hist) <= MaxRequests
<1>1. work.hist \in Seq(Change) /\ Len(work.hist) \in Nat /\ Len(reqs) \in Nat
  BY GroupTypes DEF IndInv, TypeOK, Db
<1>2. CASE work.hist = <<>>
  BY <1>2, BoundsAssumption
<1>3. CASE work.hist # <<>>
  <2>1. Len(work.hist) \in DOMAIN work.hist
    BY <1>1, <1>3
  <2>2. work.hist[Len(work.hist)].req \in 1 .. Len(reqs) /\ Len(work.hist) <= work.hist[Len(work.hist)].req
    BY <2>1 DEF Histories, InOrder
  <2>3. QED
    BY <1>1, <2>2, BoundsAssumption DEF Groups
<1>4. QED
  BY <1>2, <1>3

(***************************************************************************)
(* What a subscriber sees: the keys of the changes, and how many of them   *)
(* _changelog has dropped.                                                 *)
(***************************************************************************)
KeysOf(h) == [i \in DOMAIN h |-> h[i].key]
Dropped(s) == Len(s.hist) - Cardinality(s.log)

LEMMA KeysOfHistory ==
    ASSUME NEW h \in Seq(Change)
    PROVE  /\ KeysOf(h) \in Seq(Keys) /\ Len(KeysOf(h)) = Len(h)
           /\ \A i \in 1 .. Len(h) : KeysOf(h)[i] = h[i].key
<1>1. Len(h) \in Nat /\ DOMAIN h = 1 .. Len(h) /\ \A i \in 1 .. Len(h) : h[i] \in Change
  OBVIOUS
<1>2. KeysOf(h) \in [1 .. Len(h) -> Keys]
  BY <1>1 DEF KeysOf, Change
<1>3. QED
  BY <1>1, <1>2, FunctionIsSeq DEF KeysOf

LEMMA ConcatParts ==
    ASSUME NEW S, NEW h \in Seq(S), NEW g \in Seq(S), NEW m, NEW w, m = Len(h), w = m + Len(g)
    PROVE  /\ h \o g \in Seq(S) /\ Len(h \o g) = w
           /\ \A i \in 1 .. m : (h \o g)[i] = h[i]
           /\ \A i \in m + 1 .. w : (h \o g)[i] = g[i - m]
BY ConcatProperties

LEMMA DroppedRows ==
    ASSUME NEW s \in Db, Sound(s), NEW n \in 0 .. Len(s.hist), RowsAfter(s, n)
    PROVE  Dropped(s) = n
<1>1. Cardinality(s.log) = Len(s.hist) - n /\ s.hist \in Seq(Change) /\ Len(s.hist) \in Nat
  BY RowsCounted DEF Db
<1>2. QED
  BY <1>1 DEF Dropped

SourceStutters == UNCHANGED <<KeysOf(db.hist), Dropped(db), base + Len(chan)>>

LEMMA CommitIsGroup ==
    ASSUME IndInv, Txn, Histories, Feed, Suffix, Groups, Commit, events # <<>>
    PROVE  Source!CommitGroup
<1>0. /\ db' = work /\ phase = "ops" /\ chan' = chan /\ base' = base /\ Due = events /\ batch = <<>>
  BY DEF Commit, feed, Due
<1>1. /\ db.hist \in Seq(Change) /\ work.hist \in Seq(Change) /\ events \in Seq(Change)
      /\ base \in Nat
  BY FeedTypes
<1> DEFINE m == Len(db.hist)
           w == Len(work.hist)
           e == Len(events)
           g == [i \in 1 .. e |-> work.hist[m + i].key]
<1>2. m \in Nat /\ w \in Nat /\ e \in Nat /\ e > 0 /\ Len(chan) \in Nat
  BY <1>1, FeedTypes
<1>3. base + Len(chan) = m /\ w = m + e
  <2>1. m = base + Len(chan) /\ w = base + Len(chan) + e
    BY <1>0 DEF Feed
  <2>2. QED
    BY <1>1, <1>2, <2>1
<1>4. \A i \in 1 .. m : work.hist[i] = db.hist[i]
  BY <1>1 DEF Txn, Prefix
<1>5. e \in 1 .. Largest
  <2>1. Len(finishes) + Len(batch) <= Largest /\ e <= Len(finishes) /\ Len(batch) = 0
    BY <1>0 DEF Groups
  <2>2. QED
    BY <1>2, <2>1, GroupTypes
<1>6. g \in [1 .. e -> Keys]
  <2>1. \A i \in 1 .. e : work.hist[m + i] \in Change
    BY <1>1, <1>2, <1>3
  <2>2. QED
    BY <2>1 DEF Change
<1>7. g \in Seq(Keys) /\ Len(g) = e /\ \A i \in 1 .. e : g[i] = work.hist[m + i].key
  BY <1>2, <1>6, FunctionIsSeq
<1> HIDE DEF g
<1>8. KeysOf(work.hist) = KeysOf(db.hist) \o g
  <2> DEFINE h == KeysOf(db.hist)
             k == KeysOf(work.hist)
  <2>1. /\ h \in Seq(Keys) /\ Len(h) = m /\ \A i \in 1 .. m : h[i] = db.hist[i].key
        /\ k \in Seq(Keys) /\ Len(k) = w /\ \A i \in 1 .. w : k[i] = work.hist[i].key
    BY <1>1, KeysOfHistory
  <2> HIDE DEF h, k, m, w, e
  <2>2. /\ h \o g \in Seq(Keys) /\ Len(h \o g) = m + e
        /\ \A i \in 1 .. m : (h \o g)[i] = h[i]
        /\ \A i \in m + 1 .. w : (h \o g)[i] = g[i - m]
    <3>1. g \in Seq(Keys) /\ h \in Seq(Keys) /\ m = Len(h) /\ w = m + Len(g) /\ w = m + e
      BY <1>3, <1>7, <2>1
    <3>2. QED
      BY <3>1, ConcatParts
  <2>3. ASSUME NEW i \in 1 .. w PROVE k[i] = (h \o g)[i]
    <3>1. CASE i \in 1 .. m
      BY <1>4, <2>1, <2>2, <3>1
    <3>2. CASE i \in m + 1 .. w
      <4>1. i - m \in 1 .. e /\ m + (i - m) = i
        BY <1>2, <1>3, <3>2
      <4>2. g[i - m] = work.hist[i].key
        BY <1>7, <4>1
      <4>3. QED
        BY <2>1, <2>2, <3>2, <4>2
    <3>3. i \in 1 .. m \/ i \in m + 1 .. w
      BY <1>2
    <3>4. QED
      BY <3>1, <3>2, <3>3
  <2>4. k = h \o g
    BY <1>3, <2>1, <2>2, <2>3, SMTT(30)
  <2>5. QED
    BY <2>4, Zenon DEF h, k
<1>9. Dropped(work) = Dropped(db)
  <2>1. PICK n \in 0 .. m : RowsAfter(db, n) /\ RowsAfter(work, n)
    BY DEF Suffix
  <2>2. n \in 0 .. w /\ db \in Db /\ work \in Db /\ Sound(db) /\ Sound(work)
    BY <1>2, <1>3 DEF IndInv, TypeOK
  <2>3. QED
    BY <2>1, <2>2, DroppedRows
<1>10. w <= MaxRequests
  BY FewChanges
<1>11. Len(KeysOf(db.hist)) = m
  BY <1>1, KeysOfHistory
<1> HIDE DEF m, w, e
<1>12. g \in Source!Groups
  BY <1>5, <1>6 DEF Source!Groups, Largest
<1>13. QED
  BY <1>0, <1>3, <1>7, <1>8, <1>9, <1>10, <1>11, <1>12 DEF Source!CommitGroup, KeysOf, Dropped

LEMMA TrimIsTrimLog ==
    ASSUME IndInv, Feed, Suffix, Trim
    PROVE  Source!TrimLog \/ SourceStutters
<1>0. /\ db' = TrimmedDb(db) /\ phase = "trim" /\ chan' = chan /\ base' = base
      /\ db \in Db /\ Sound(db) /\ TrimmedDb(db) \in Db /\ Sound(TrimmedDb(db))
      /\ TrimmedDb(db).hist = db.hist
  BY TrimIsSound DEF Trim, feed, IndInv, TypeOK
<1>1. /\ db.hist \in Seq(Change) /\ Len(db.hist) \in Nat /\ Len(KeysOf(db.hist)) = Len(db.hist)
  BY FeedTypes, KeysOfHistory
<1>2. base + Len(chan) = Len(db.hist)
  BY <1>0 DEF Feed
<1>3. PICK n \in 0 .. Len(db.hist) : RowsAfter(db, n)
  BY DEF Suffix
<1> DEFINE m == IF Retention > 0 /\ n < Len(db.hist) - Retention
                THEN Len(db.hist) - Retention ELSE n
<1>4. m \in 0 .. Len(db.hist) /\ RowsAfter(TrimmedDb(db), m)
  BY <1>0, <1>3, RowsTrimmed
<1>5. Dropped(db) = n /\ Dropped(db') = m
  BY <1>0, <1>3, <1>4, DroppedRows
<1>6. CASE Retention > 0 /\ n < Len(db.hist) - Retention
  BY <1>0, <1>1, <1>2, <1>5, <1>6 DEF Source!TrimLog, KeysOf, Dropped
<1>7. CASE ~(Retention > 0 /\ n < Len(db.hist) - Retention)
  BY <1>0, <1>5, <1>7 DEF SourceStutters
<1>8. QED
  BY <1>6, <1>7

LEMMA SourceSteps ==
    ASSUME "io" \notin Faults,
           IndInv, Txn, Histories, NothingLeft, Feed, Suffix, Groups, [Next]_vars
    PROVE  Source!SourceNext \/ SourceStutters
<1>1. CASE Commit
  <2>1. CASE events # <<>>
    BY <1>1, <2>1, CommitIsGroup DEF Source!SourceNext
  <2>2. CASE events = <<>>
    <3>1. phase = "ops" /\ db' = work /\ chan' = chan /\ base' = base /\ Due = <<>>
      BY <1>1, <2>2 DEF Commit, feed, Due
    <3>2. work.hist = db.hist /\ work.log = db.log
      BY <3>1, EmptyCommit
    <3>3. QED
      BY <3>1, <3>2 DEF SourceStutters, Dropped
  <2>3. QED
    BY <2>1, <2>2
<1>2. CASE Broadcast
  <2>1. /\ phase = "broadcast" /\ events # <<>> /\ chan' = Append(chan, Head(events))
        /\ db' = db /\ base' = base /\ work = db /\ Due = events
    BY <1>2 DEF Broadcast, txn, IndInv, Control, Due
  <2>2. /\ chan \in Seq(Change) /\ events \in Seq(Change) /\ base \in Nat
        /\ Len(events) > 0 /\ Len(chan) \in Nat /\ Len(events) \in Nat /\ Head(events) \in Change
        /\ Len(KeysOf(db.hist)) = Len(db.hist)
    BY <2>1, FeedTypes, KeysOfHistory
  <2>3. Len(db.hist) = base + Len(chan) + Len(events)
    BY <2>1 DEF Feed
  <2>4. base + Len(chan') = base + Len(chan) + 1
    BY <2>1, <2>2
  <2>5. base + Len(chan) < Len(KeysOf(db.hist))
    BY <2>2, <2>3
  <2>6. QED
    BY <2>1, <2>4, <2>5 DEF Source!SourceNext, Source!EmitNext, KeysOf
<1>3. CASE Trim
  BY <1>3, TrimIsTrimLog DEF Source!SourceNext
<1>4. CASE Crash
  <2>1. chan' = <<>> /\ base' = Len(db.hist) /\ db' = db /\ Len(<<>>) = 0
    BY <1>4 DEF Crash
  <2>2. base' + Len(chan') = Len(KeysOf(db.hist))
    BY <2>1, FeedTypes, KeysOfHistory
  <2>3. QED
    BY <2>1, <2>2 DEF Source!SourceNext, Source!OpenAgain, KeysOf
<1>5. CASE CommitFails \/ Resolve
  BY <1>5 DEF CommitFails, Resolve, feed, txn, SourceStutters
<1>6. CASE ApplyOp
  <2>1. open /\ chan' = chan /\ base' = base
    BY <1>6 DEF ApplyOp, InOps, NothingLeft, feed
  <2>2. db' = db
    BY <1>6, <2>1, ApplyShape DEF Refuses, Makes
  <2>3. QED
    BY <2>1, <2>2 DEF SourceStutters
<1>7. CASE ~(Trim \/ ApplyOp \/ Commit \/ CommitFails \/ Resolve \/ Broadcast \/ Crash)
  <2>1. ~ApplyFails
    BY DEF ApplyFails
  <2>2. UNCHANGED <<chan, base>>
    BY <1>7, <2>1, QuietSteps
  <2>3. db'.hist = db.hist /\ db'.log = db.log
    BY <1>7, <2>1, DataSteps DEF SameData
  <2>4. QED
    BY <2>2, <2>3 DEF SourceStutters, Dropped
<1>8. QED
  BY <1>1, <1>2, <1>3, <1>4, <1>5, <1>6, <1>7

\* Module ChangeFeed may rely on FeedSource: the writer takes no other steps, for
\* every queue, batch size and retention.
THEOREM FeedSourceImplemented ==
    ASSUME "io" \notin Faults
    PROVE  Spec => ImplementsFeedSource
<1>1. Init => Source!SourceInit
  <2> SUFFICES ASSUME Init PROVE Source!SourceInit
    OBVIOUS
  <2>1. /\ db.hist = <<>> /\ db.log = {} /\ base = 0 /\ chan = <<>> /\ Len(<<>>) = 0
    BY DEF Init, EmptyDb
  <2>2. KeysOf(<<>>) \in Seq(Keys) /\ Len(KeysOf(<<>>)) = 0
    <3>1. <<>> \in Seq(Change)
      OBVIOUS
    <3>2. QED
      BY <2>1, <3>1, KeysOfHistory
  <2>3. KeysOf(db.hist) = <<>>
    BY <2>1, <2>2
  <2>4. Len(db.hist) - Cardinality(db.log) = 0
    BY <2>1, FS_EmptySet
  <2>5. base + Len(chan) = 0
    BY <2>1
  <2>6. QED
    BY <2>3, <2>4, <2>5 DEF Source!SourceInit, KeysOf
<1>2. IndInv /\ Txn /\ Histories /\ NothingLeft /\ Feed /\ Suffix /\ Groups /\ [Next]_vars
          => [Source!SourceNext]_(Source!source)
  BY SourceSteps DEF SourceStutters, Source!source, KeysOf, Dropped
<1>3. QED
  BY <1>1, <1>2, IndInvIsInvariant, TxnIsInvariant, HistoriesInvariant, NothingLeftInvariant,
     FeedInvariant, SuffixInvariant, GroupsInvariant,
     PTL DEF Spec, ImplementsFeedSource, Source!SourceSpec
==============================================================================
