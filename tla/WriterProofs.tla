---------------------------- MODULE WriterProofs ----------------------------
(***************************************************************************)
(* Theorems about module Writer, for every instance: any number of         *)
(* requests, any queue and batch size, any retention, any set of faults.   *)
(***************************************************************************)
EXTENDS Writer, SequenceTheorems, WellFoundedInduction, TLAPS

(***************************************************************************)
(* What keeps the sequence numbers right: the table holds changes of the   *)
(* history only, numbered by their place in it, and always the last one.   *)
(***************************************************************************)
Sound(s) ==
    /\ \A i \in DOMAIN s.hist : s.hist[i].seq = i
    /\ s.log \subseteq {s.hist[i] : i \in DOMAIN s.hist}
    /\ s.hist # <<>> => s.hist[Len(s.hist)] \in s.log

\* The next sequence number follows the history, also after rows were trimmed.
LEMMA MaxSeqIsLength ==
    ASSUME NEW s \in Db, Sound(s)
    PROVE  MaxSeq(s.log) = Len(s.hist)
<1> DEFINE n == Len(s.hist)
<1>0. s.hist \in Seq(Change) /\ s.log \subseteq Change /\ n \in Nat
  BY DEF Db
<1>1. \A r \in s.log : r.seq \in 1 .. n
  BY <1>0 DEF Sound
<1>2. CASE n = 0
  <2>1. s.log = {}
    BY <1>1, <1>2
  <2>2. QED
    BY <2>1, <1>2 DEF MaxSeq
<1>3. CASE n # 0
  <2>1. s.hist[n] \in s.log /\ s.hist[n].seq = n
    BY <1>0, <1>3 DEF Sound
  <2>2. n \in Seqs(s.log) /\ \A q \in Seqs(s.log) : q \in Nat /\ q <= n
    BY <1>1, <2>1 DEF Seqs
  <2>3. \A m \in Seqs(s.log) : (\A q \in Seqs(s.log) : q <= m) => m = n
    BY <2>2, <1>0
  <2>4. s.log # {}
    BY <2>1
  <2>5. QED
    BY <2>2, <2>3, <2>4 DEF MaxSeq
<1>4. QED
  BY <1>2, <1>3

\* One recorded change: its number is the length of the new history.
LEMMA ChangedIsSound ==
    ASSUME NEW s \in Db, Sound(s), NEW k \in Keys, NEW v \in Bodies,
           NEW op \in ChangeOps, NEW id \in Nat, NEW reply \in Accepted
    PROVE  LET r == Changed(s, op, k, v, id, reply)
               c == NewChange(s, op, k, v, id)
           IN  /\ c \in Change /\ c.seq = Len(s.hist) + 1
               /\ r \in Result /\ Sound(r.db) /\ r.event = <<c>>
               /\ r.db.hist = Append(s.hist, c)
<1> DEFINE c == NewChange(s, op, k, v, id)
           r == Changed(s, op, k, v, id, reply)
<1>1. s.hist \in Seq(Change) /\ s.log \subseteq Change /\ Len(s.hist) \in Nat
      /\ s.docs \in [Keys -> Bodies] /\ s.colls \in SUBSET Collections
  BY DEF Db
<1>2. c.seq = Len(s.hist) + 1
  BY MaxSeqIsLength DEF NewChange, NextSeq
<1>3. c \in Change
  BY <1>1, <1>2 DEF NewChange, Change
<1>4. r.db.hist = Append(s.hist, c) /\ r.db.log = s.log \cup {c}
      /\ r.db.docs = [s.docs EXCEPT ![k] = v]
      /\ r.db.colls = s.colls \cup {CollOf[k]}
      /\ r.event = <<c>> /\ r.reply = reply /\ r.firm = FALSE
  BY DEF Changed, Db
<1>5. r.db \in Db
  <2>1. CollOf[k] \in Collections
    BY CollOfAssumption
  <2>2. r.db = [docs |-> [s.docs EXCEPT ![k] = v], colls |-> s.colls \cup {CollOf[k]},
                indexes |-> s.indexes, listed |-> s.listed,
                log |-> s.log \cup {c}, hist |-> Append(s.hist, c)]
    BY DEF Changed, Db
  <2>3. Append(s.hist, c) \in Seq(Change)
    BY <1>1, <1>3
  <2>4. [s.docs EXCEPT ![k] = v] \in [Keys -> Bodies]
    BY <1>1
  <2>5. s.indexes \in SUBSET Index /\ s.listed \in SUBSET Index
    BY DEF Db
  <2>6. s.colls \cup {CollOf[k]} \in SUBSET Collections /\ s.log \cup {c} \in SUBSET Change
    BY <1>1, <2>1, <1>3
  <2>7. QED
    BY <2>2, <2>3, <2>4, <2>5, <2>6 DEF Db
<1>6. Sound(r.db)
  <2>1. DOMAIN r.db.hist = 1 .. Len(s.hist) + 1
    BY <1>1, <1>4
  <2>2. \A i \in DOMAIN s.hist : r.db.hist[i] = s.hist[i]
    BY <1>1, <1>4
  <2>3. r.db.hist[Len(s.hist) + 1] = c /\ Len(r.db.hist) = Len(s.hist) + 1
    BY <1>1, <1>4
  <2>4. \A i \in DOMAIN r.db.hist : r.db.hist[i].seq = i
    <3>1. DOMAIN s.hist = 1 .. Len(s.hist) /\ \A i \in DOMAIN s.hist : s.hist[i].seq = i
      BY <1>1 DEF Sound
    <3>2. r.db.hist[Len(s.hist) + 1].seq = Len(s.hist) + 1
      BY <1>2, <2>3
    <3> HIDE DEF r, c
    <3>3. \A i \in DOMAIN r.db.hist : i \in DOMAIN s.hist \/ i = Len(s.hist) + 1
      BY <1>1, <2>1, <3>1
    <3>4. QED
      BY <2>2, <3>1, <3>2, <3>3
  <2>5. r.db.log \subseteq {r.db.hist[i] : i \in DOMAIN r.db.hist}
    BY <1>1, <1>4, <2>1, <2>2, <2>3, SMTT(30) DEF Sound
  <2>6. QED
    BY <1>4, <2>3, <2>4, <2>5 DEF Sound
<1>7. r \in Result
  BY <1>3, <1>4, <1>5 DEF Result, Changed
<1>8. QED
  BY <1>2, <1>3, <1>4, <1>6, <1>7

\* Every outcome of a data command: either nothing happened, or one change was
\* recorded at the end of the history.
LEMMA OutcomesAreSound ==
    ASSUME NEW s \in Db, Sound(s), NEW cmd \in DataCommand, NEW id \in Nat,
           NEW r \in Outcomes(s, cmd, id)
    PROVE  /\ r \in Result /\ Sound(r.db)
           /\ \/ r.event = <<>> /\ r.db = s /\ r.reply \in Refusals /\ r.firm = TRUE
              \/ /\ r.firm = FALSE /\ r.reply \in Accepted
                 /\ \E c \in Change : /\ c.seq = Len(s.hist) + 1 /\ c.req = id
                                      /\ r.event = <<c>>
                                      /\ r.db.hist = Append(s.hist, c)
<1> DEFINE Recorded(x) ==
        /\ x \in Result /\ Sound(x.db) /\ x.firm = FALSE /\ x.reply \in Accepted
        /\ \E c \in Change : /\ c.seq = Len(s.hist) + 1 /\ c.req = id
                             /\ x.event = <<c>> /\ x.db.hist = Append(s.hist, c)
           Nothing(x) ==
        /\ x \in Result /\ Sound(x.db)
        /\ x.event = <<>> /\ x.db = s /\ x.reply \in Refusals /\ x.firm = TRUE
<1>1. ASSUME NEW reply \in Refusals
      PROVE  Nothing(Unchanged(s, reply))
  BY DEF Unchanged, Result
<1>2. ASSUME NEW k \in Keys, NEW v \in Bodies, NEW op \in ChangeOps, NEW reply \in Accepted
      PROVE  Recorded(Changed(s, op, k, v, id, reply))
  <2>1. NewChange(s, op, k, v, id).req = id
    BY DEF NewChange
  <2>2. Changed(s, op, k, v, id, reply).reply = reply /\ Changed(s, op, k, v, id, reply).firm = FALSE
    BY DEF Changed
  <2>3. QED
    BY <2>1, <2>2, ChangedIsSound
<1>3. ASSUME NEW k \in Keys, NEW v \in Vals, NEW op \in ChangeOps, NEW reply \in Accepted,
             NEW x \in Write(s, op, k, v, id, reply)
      PROVE  Recorded(x) \/ Nothing(x)
  <2>1. v \in Bodies /\ "conflict" \in Refusals
    BY DEF Bodies, Refusals
  <2>2. x = Unchanged(s, "conflict") \/ x = Changed(s, op, k, v, id, reply)
    BY DEF Write
  <2>3. Recorded(Changed(s, op, k, v, id, reply)) /\ Nothing(Unchanged(s, "conflict"))
    BY <2>1, <1>1, <1>2
  <2> HIDE DEF Recorded, Nothing
  <2>4. QED
    BY <2>2, <2>3
<1>4. ASSUME NEW x \in SizeCheck(s) PROVE Nothing(x)
  BY <1>1 DEF SizeCheck, Refusals
<1> HIDE DEF Recorded, Nothing
<1>5. Recorded(r) \/ Nothing(r)
  <2>0. {"insert", "update", "delete"} = ChangeOps /\ {"created", "updated", "deleted"} = Accepted
        /\ "absent" \in Refusals
    BY DEF ChangeOps, Accepted, Refusals
  <2>1. CASE cmd.kind = "create"
    <3>1. cmd.key \in Keys /\ cmd.val \in Vals
      BY <2>1 DEF DataCommand
    <3>2. r \in DoCreate(s, cmd.key, cmd.val, id)
      BY <2>1 DEF Outcomes
    <3>3. QED
      BY <3>1, <3>2, <2>0, <1>3, <1>4 DEF DoCreate
  <2>2. CASE cmd.kind = "replace"
    <3>1. cmd.key \in Keys /\ cmd.val \in Vals
      BY <2>2 DEF DataCommand
    <3>2. r \in DoReplace(s, cmd.key, cmd.val, id)
      BY <2>2 DEF Outcomes
    <3>3. QED
      BY <3>1, <3>2, <2>0, <1>3, <1>4 DEF DoReplace
  <2>3. CASE cmd.kind = "delete"
    <3>1. cmd.key \in Keys /\ NoDoc \in Bodies
      BY <2>3 DEF DataCommand, Bodies
    <3>2. r \in DoDelete(s, cmd.key, id)
      BY <2>3 DEF Outcomes
    <3>3. r = Unchanged(s, "absent") \/ r = Changed(s, "delete", cmd.key, NoDoc, id, "deleted")
      BY <3>2 DEF DoDelete
    <3>4. QED
      BY <3>1, <3>3, <2>0, <1>1, <1>2
  <2>4. QED
    BY <2>1, <2>2, <2>3 DEF DataCommand
<1>6. QED
  BY <1>5 DEF Recorded, Nothing

-----------------------------------------------------------------------------
(***************************************************************************)
(* The inductive invariant.  Types alone are not inductive: the type of    *)
(* the next sequence number needs Sound, and the commands a batch or an    *)
(* index phase holds are of the right kind because of where the thread is. *)
(***************************************************************************)
Control ==
    /\ phase \in {"collect", "ops"} =>
           \A i \in DOMAIN batch : IsBatchable(reqs[batch[i]])
    /\ phase \in {"make_index", "list_index"} =>
           batch # <<>> /\ reqs[batch[1]].kind = "create_index"
    /\ phase = "unlist_index" =>
           batch # <<>> /\ reqs[batch[1]].kind = "drop_index"
    /\ phase = "broadcast" => events # <<>>
    /\ phase # "ops" => work = db

IndInv == TypeOK /\ Sound(db) /\ Sound(work) /\ Control

LEMMA FunctionIsSeq ==
    ASSUME NEW S, NEW n \in Nat, NEW f \in [1 .. n -> S]
    PROVE  f \in Seq(S) /\ Len(f) = n
<1>1. f \in Seq(S)
  BY SeqDef
<1>2. Len(f) \in Nat /\ DOMAIN f = 1 .. Len(f)
  BY <1>1, LenProperties
<1>3. QED
  BY <1>1, <1>2

LEMMA SeqIsFunction ==
    ASSUME NEW S, NEW f \in Seq(S)
    PROVE  f \in [1 .. Len(f) -> S]
<1>1. \A i \in 1 .. Len(f) : f[i] \in S
  BY ElementOfSeq
<1>2. QED
  BY <1>1, LenProperties

LEMMA EmptyIsSound == EmptyDb \in Db /\ Sound(EmptyDb)
<1>1. <<>> \in Seq(Change) /\ DOMAIN <<>> = {}
  OBVIOUS
<1>2. [k \in Keys |-> NoDoc] \in [Keys -> Bodies]
  BY DEF Bodies
<1>3. EmptyDb \in Db
  BY <1>1, <1>2 DEF EmptyDb, Db
<1>4. EmptyDb.hist = <<>> /\ EmptyDb.log = {}
  BY DEF EmptyDb
<1>5. QED
  BY <1>1, <1>3, <1>4 DEF Sound

\* Trimming never takes the last row, so it never makes a number free again.
LEMMA TrimIsSound ==
    ASSUME NEW s \in Db, Sound(s)
    PROVE  TrimmedDb(s) \in Db /\ Sound(TrimmedDb(s)) /\ TrimmedDb(s).hist = s.hist
<1>1. /\ TrimmedDb(s).hist = s.hist /\ TrimmedDb(s).log = Retained(s.log, Retention)
      /\ s.log \subseteq Change /\ s.hist \in Seq(Change) /\ Len(s.hist) \in Nat
  BY DEF TrimmedDb, Db
<1>2. Retained(s.log, Retention) \subseteq s.log
  BY DEF Retained
<1>3. TrimmedDb(s) \in Db
  BY <1>2 DEF TrimmedDb, Db
<1>4. ASSUME s.hist # <<>> PROVE s.hist[Len(s.hist)] \in Retained(s.log, Retention)
  <2>1. s.hist[Len(s.hist)] \in s.log /\ s.hist[Len(s.hist)].seq = Len(s.hist)
    BY <1>1, <1>4 DEF Sound
  <2>2. QED
    BY <1>1, <2>1, MaxSeqIsLength, ConfigAssumption DEF Retained
<1>5. QED
  BY <1>1, <1>2, <1>3, <1>4 DEF Sound

LEMMA InitIsGood == Init => IndInv
<1> SUFFICES ASSUME Init PROVE IndInv
  OBVIOUS
<1>1. Ids = {} /\ replies \in [Ids -> Replies]
  BY DEF Init, Ids
<1>2. TypeOK
  <2>1. reqs \in Seq(Command) /\ queue \in Seq(Ids) /\ batch \in Seq(Ids)
        /\ finishes \in Seq(Finish) /\ events \in Seq(Change) /\ chan \in Seq(Change)
    BY DEF Init
  <2>2. pending \in {0} \cup Ids /\ phase \in Phases /\ open \in BOOLEAN /\ committed \in BOOLEAN
        /\ base \in Nat /\ crashes \in 0 .. MaxCrashes
    <3>1. 0 \in 0 .. MaxCrashes
      BY BoundsAssumption
    <3>2. QED
      BY <3>1 DEF Init, Phases
  <2>3. QED
    BY <1>1, <2>1, <2>2, EmptyIsSound DEF Init, TypeOK
<1>3. Control
  BY DEF Init, Control
<1>4. QED
  BY <1>2, <1>3, EmptyIsSound DEF Init, IndInv

\* A request number keeps its command; new numbers are added at the end.
LEMMA SubmitKeeps ==
    ASSUME IndInv, NEW cmd \in Command, Submit(cmd)
    PROVE  IndInv'
<1>1. /\ reqs' = Append(reqs, cmd) /\ reqs \in Seq(Command)
      /\ queue' = Append(queue, Len(reqs) + 1) /\ replies' = Append(replies, NoReply)
      /\ UNCHANGED <<pending, phase, batch, txn, outcome, feed, crashes>>
  BY DEF Submit, IndInv, TypeOK
<1>2. Ids' = 1 .. Len(reqs) + 1 /\ Ids \subseteq Ids' /\ \A i \in Ids : reqs'[i] = reqs[i]
  BY <1>1 DEF Ids
<1>3. TypeOK'
  <2>1. reqs' \in Seq(Command)'
    BY <1>1 DEF Command, DataCommand
  <2>2. queue' \in Seq(Ids')
    BY <1>1, <1>2 DEF IndInv, TypeOK, Ids
  <2>3. batch' \in Seq(Ids') /\ pending' \in {0} \cup Ids'
    BY <1>1, <1>2, SMTT(30) DEF IndInv, TypeOK
  <2>4. replies' \in [Ids' -> Replies]
    <3>1. replies \in Seq(Replies) /\ Len(replies) = Len(reqs)
      <4>1. replies \in [1 .. Len(reqs) -> Replies] /\ Len(reqs) \in Nat
        BY <1>1 DEF IndInv, TypeOK, Ids
      <4>2. QED
        BY <4>1, FunctionIsSeq
    <3>2. NoReply \in Replies
      BY DEF Replies
    <3>3. replies' \in Seq(Replies) /\ Len(replies') = Len(reqs) + 1
      BY <1>1, <3>1, <3>2, AppendProperties
    <3>4. replies' \in [1 .. Len(replies') -> Replies]
      BY <3>3, SeqIsFunction
    <3>5. QED
      BY <1>2, <3>3, <3>4
  <2>5. QED
    BY <1>1, <2>1, <2>2, <2>3, <2>4 DEF IndInv, TypeOK, txn, outcome, feed
<1>4. Control'
  <2>1. /\ phase' = phase /\ batch' = batch /\ events' = events
        /\ work' = work /\ db' = db
    BY <1>1 DEF txn, outcome
  <2>2. batch \in Seq(Ids) /\ \A i \in DOMAIN batch : reqs'[batch[i]] = reqs[batch[i]]
    <3>1. batch \in Seq(Ids)
      BY DEF IndInv, TypeOK
    <3>2. \A i \in DOMAIN batch : batch[i] \in Ids
      BY <3>1
    <3>3. QED
      BY <1>2, <3>1, <3>2
  <2>3. batch # <<>> => 1 \in DOMAIN batch
    BY <2>2
  <2>4. Control
    BY DEF IndInv
  <2>5. QED
    BY <2>1, <2>2, <2>3, <2>4 DEF Control, IsBatchable
<1>5. QED
  BY <1>1, <1>3, <1>4 DEF IndInv, txn, Sound

-----------------------------------------------------------------------------
\* Steps that take a request from the pending slot or the channel.
LEMMA TakeKeeps ==
    ASSUME IndInv, NEW id \in Ids,
           RunMaintenance(id) \/ StartBatch(id) \/ StartCreateIndex(id) \/ StartDropIndex(id)
    PROVE  IndInv'
<1>1. Ids' = Ids /\ reqs' = reqs /\ Take(id) /\ reqs \in Seq(Command)
  BY DEF RunMaintenance, StartBatch, StartCreateIndex, StartDropIndex, Ids, IndInv, TypeOK
<1>2. queue' \in Seq(Ids) /\ pending' \in {0} \cup Ids /\ phase = "idle" /\ work = db
  <2>1. phase = "idle" /\ work = db /\ queue \in Seq(Ids) /\ pending \in {0} \cup Ids
    BY <1>1 DEF Take, IndInv, TypeOK, Control
  <2>2. queue # <<>> => Tail(queue) \in Seq(Ids)
    BY <2>1
  <2>3. QED
    BY <1>1, <2>1, <2>2 DEF Take
<1>3. <<id>> \in Seq(Ids)
  OBVIOUS
<1>4. \A r \in Replies : [replies EXCEPT ![id] = r] \in [Ids -> Replies]
  BY DEF IndInv, TypeOK
<1>5. CASE RunMaintenance(id)
  <2>1. "ok" \in Replies
    BY DEF Replies
  <2>2. QED
    BY <1>1, <1>2, <1>4, <1>5, <2>1
    DEF RunMaintenance, Answer, txn, outcome, feed, IndInv, TypeOK, Control, Sound
<1>6. CASE StartBatch(id)
  BY <1>1, <1>2, <1>3, <1>6
  DEF StartBatch, txn, outcome, feed, IndInv, TypeOK, Control, Sound, Phases
<1>7. CASE StartCreateIndex(id)
  <2>1. reqs[id].coll \in Collections
    BY <1>1, <1>7 DEF StartCreateIndex, Ids, Command, DataCommand
  <2> DEFINE s == [db EXCEPT !.colls = @ \cup {reqs[id].coll}]
  <2>2. s \in Db /\ s.hist = db.hist /\ s.log = db.log
    BY <2>1 DEF IndInv, TypeOK, Db
  <2>3. Sound(s)
    BY <2>2 DEF IndInv, Sound
  <2>4. db' = s /\ work' = s
    BY <1>7 DEF StartCreateIndex, SetDb
  <2> HIDE DEF s
  <2>5. TypeOK'
    BY <1>1, <1>2, <1>3, <1>7, <2>2, <2>4
    DEF StartCreateIndex, outcome, feed, IndInv, TypeOK, Phases
  <2>6. Sound(db') /\ Sound(work') /\ phase' # "ops" /\ phase' # "collect"
    BY <1>7, <2>3, <2>4 DEF StartCreateIndex
  <2>7. QED
    BY <1>1, <1>2, <1>3, <1>7, <2>2, <2>4, <2>5, <2>6
    DEF StartCreateIndex, outcome, feed, IndInv, Control, Sound
<1>8. CASE StartDropIndex(id)
  <2> DEFINE s == [db EXCEPT !.indexes = @ \ Named(@, reqs[id].name)]
  <2>1. s \in Db /\ s.hist = db.hist /\ s.log = db.log
    BY DEF IndInv, TypeOK, Db, Named
  <2>2. Sound(s)
    BY <2>1 DEF IndInv, Sound
  <2>3. "absent" \in Replies
    BY DEF Replies, Refusals
  <2>4. \/ Answer(id, "absent") /\ UNCHANGED <<db, work, batch, phase>>
        \/ /\ db' = s /\ work' = s /\ batch' = <<id>> /\ phase' = "unlist_index"
           /\ UNCHANGED replies
    BY <1>8 DEF StartDropIndex, SetDb
  <2>5. reqs[id].kind = "drop_index" /\ UNCHANGED <<reqs, open, outcome, feed, crashes>>
    BY <1>8 DEF StartDropIndex
  <2> HIDE DEF s
  <2>6. CASE Answer(id, "absent") /\ UNCHANGED <<db, work, batch, phase>>
    <3>1. replies' \in [Ids -> Replies]
      BY <1>4, <2>3, <2>6 DEF Answer
    <3>2. Sound(db)' /\ Sound(work)' /\ Control'
      BY <1>1, <1>2, <2>5, <2>6 DEF outcome, IndInv, Sound, Control
    <3>3. QED
      BY <1>1, <1>2, <2>5, <2>6, <3>1, <3>2 DEF outcome, feed, IndInv, TypeOK
  <2>7. CASE /\ db' = s /\ work' = s /\ batch' = <<id>> /\ phase' = "unlist_index"
             /\ UNCHANGED replies
    <3>1. Sound(db)' /\ Sound(work)'
      BY <2>2, <2>7 DEF Sound
    <3>2. Control'
      BY <1>1, <2>5, <2>7 DEF Control
    <3>3. QED
      BY <1>1, <1>2, <1>3, <2>1, <2>5, <2>7, <3>1, <3>2
      DEF outcome, feed, IndInv, TypeOK, Phases
  <2>8. QED
    BY <2>4, <2>6, <2>7
<1>9. QED
  BY <1>5, <1>6, <1>7, <1>8

-----------------------------------------------------------------------------
\* The steps of process_batch up to BEGIN.
LEMMA CollectKeeps ==
    ASSUME IndInv, CollectData \/ Begin \/ BeginFails
    PROVE  IndInv'
<1>1. /\ Ids' = Ids /\ reqs' = reqs /\ phase = "collect" /\ work = db
      /\ UNCHANGED <<db, work, outcome, feed, crashes>>
  BY DEF CollectData, Begin, BeginFails, Ids, txn, IndInv, Control
<1>2. queue \in Seq(Ids) /\ batch \in Seq(Ids) /\ (queue # <<>> => Head(queue) \in Ids /\ Tail(queue) \in Seq(Ids))
  BY DEF IndInv, TypeOK
<1>3. CASE CollectData
  <2>1. batch' \in Seq(Ids) /\ queue' \in Seq(Ids)
    BY <1>2, <1>3 DEF CollectData
  <2>2. \A i \in DOMAIN batch' : IsBatchable(reqs[batch'[i]])
    <3>1. /\ Len(batch) \in Nat /\ DOMAIN batch = 1 .. Len(batch)
          /\ DOMAIN batch' = 1 .. Len(batch) + 1
          /\ batch'[Len(batch) + 1] = Head(queue)
          /\ \A i \in DOMAIN batch : batch'[i] = batch[i]
      BY <1>2, <1>3 DEF CollectData
    <3>2. IsBatchable(reqs[Head(queue)]) /\ \A i \in DOMAIN batch : IsBatchable(reqs[batch[i]])
      BY <1>1, <1>3 DEF CollectData, IndInv, Control
    <3> QED
      BY <3>1, <3>2
  <2>3. UNCHANGED <<phase, open, replies, pending>>
    BY <1>3 DEF CollectData, txn
  <2>4. Control'
    BY <1>1, <2>2, <2>3 DEF Control, IsBatchable
  <2>5. QED
    BY <1>1, <2>1, <2>3, <2>4 DEF outcome, feed, IndInv, TypeOK, Sound
<1>4. ASSUME EndCollect
      PROVE  queue' \in Seq(Ids) /\ pending' \in {0} \cup Ids
  BY <1>2, <1>4 DEF EndCollect, IndInv, TypeOK
<1>5. CASE Begin
  <2>1. queue' \in Seq(Ids) /\ pending' \in {0} \cup Ids
    BY <1>4, <1>5 DEF Begin
  <2>2. open' = TRUE /\ phase' = "ops" /\ UNCHANGED <<replies, batch>>
    BY <1>5 DEF Begin
  <2>3. Control'
    BY <1>1, <2>2 DEF IndInv, Control, IsBatchable
  <2>4. QED
    BY <1>1, <2>1, <2>2, <2>3 DEF outcome, feed, IndInv, TypeOK, Sound, Phases
<1>6. CASE BeginFails
  <2>1. queue' \in Seq(Ids) /\ pending' \in {0} \cup Ids
    BY <1>4, <1>6 DEF BeginFails
  <2>2. replies' \in [Ids -> Replies]
    BY <1>6 DEF BeginFails, AnswerAll, IndInv, TypeOK, Replies, Refusals
  <2>3. phase' = "idle" /\ batch' = <<>> /\ open' = open
    BY <1>6 DEF BeginFails, txn
  <2>4. Control'
    BY <1>1, <2>3 DEF Control
  <2>5. QED
    BY <1>1, <2>1, <2>2, <2>3, <2>4 DEF outcome, feed, IndInv, TypeOK, Sound, Phases
<1>7. QED
  BY <1>3, <1>5, <1>6

\* The loop over the operations: whatever an operation did, both states of the
\* database keep their changes in place.
LEMMA OpsKeep ==
    ASSUME IndInv, SavepointFails \/ ApplyOp \/ ApplyFails
    PROVE  IndInv'
<1> DEFINE id == Head(batch)
<1>1. /\ Ids' = Ids /\ reqs' = reqs /\ phase = "ops" /\ phase' = "ops"
      /\ UNCHANGED <<queue, pending, committed, feed, crashes>>
      /\ batch # <<>> /\ batch' = Tail(batch)
  BY DEF SavepointFails, ApplyOp, ApplyFails, InOps, Ids, outcome, clients
<1>2. /\ batch \in Seq(Ids) /\ batch' \in Seq(Ids) /\ id \in Ids /\ id \in Nat
      /\ \A i \in DOMAIN batch' : batch'[i] = batch[i + 1] /\ i + 1 \in DOMAIN batch
      /\ id = batch[1] /\ 1 \in DOMAIN batch
  BY <1>1, SMTT(30) DEF IndInv, TypeOK, Ids
<1>3. Control'
  BY <1>1, <1>2 DEF IndInv, Control, IsBatchable
<1>4. reqs[id] \in DataCommand
  <2>1. reqs[id] \in Command /\ IsBatchable(reqs[id])
    BY <1>1, <1>2 DEF IndInv, TypeOK, Control, Ids
  <2>2. QED
    BY <2>1 DEF Command, IsBatchable
<1>5. CASE SavepointFails
  <2>1. UNCHANGED <<db, work, open, finishes, events>>
    BY <1>5 DEF SavepointFails, txn, outcome
  <2>2. replies' \in [Ids -> Replies]
    BY <1>2, <1>5 DEF SavepointFails, Answer, IndInv, TypeOK, Replies, Refusals
  <2>3. QED
    BY <1>1, <1>2, <1>3, <2>1, <2>2 DEF feed, IndInv, TypeOK, Sound
<1>6. CASE ApplyOp
  <2>1. PICK result \in Outcomes(work, reqs[id], id) :
           /\ work' = result.db
           /\ db' = IF open THEN db ELSE result.db
           /\ finishes' = Append(finishes, FinishOf(id, result))
           /\ events' = events \o result.event
    BY <1>6 DEF ApplyOp
  <2>2. result \in Result /\ Sound(result.db)
    BY <1>2, <1>4, OutcomesAreSound DEF IndInv, TypeOK
  <2>3. finishes' \in Seq(Finish)
    BY <1>2, <2>1, <2>2 DEF Result, Finish, FinishOf, IndInv, TypeOK
  <2>4. events' \in Seq(Change)
    <3>1. result.event \in Seq(Change)
      <4>1. result.event = <<>> \/ \E c \in Change : result.event = <<c>>
        BY <2>2 DEF Result
      <4>2. <<>> \in Seq(Change) /\ \A c \in Change : <<c>> \in Seq(Change)
        OBVIOUS
      <4>3. QED
        BY <4>1, <4>2
    <3>2. QED
      BY <2>1, <3>1 DEF IndInv, TypeOK
  <2>5. work' \in Db /\ db' \in Db /\ Sound(work') /\ Sound(db')
    BY <2>1, <2>2 DEF Result, IndInv, TypeOK
  <2>6. UNCHANGED <<open, replies>>
    BY <1>6 DEF ApplyOp, clients
  <2>7. Sound(work)' /\ Sound(db)'
    BY <2>5 DEF Sound
  <2>8. QED
    BY <1>1, <1>2, <1>3, <2>3, <2>4, <2>5, <2>6, <2>7 DEF feed, IndInv, TypeOK
<1>7. CASE ApplyFails
  <2>1. /\ work' = db /\ db' = db /\ open' = FALSE /\ UNCHANGED <<events, replies>>
        /\ finishes' = Append(finishes, FinishOf(id, Unchanged(work, "internal")))
    BY <1>7 DEF ApplyFails, clients
  <2>2. finishes' \in Seq(Finish)
    BY <1>2, <2>1 DEF Finish, FinishOf, Unchanged, Refusals, IndInv, TypeOK
  <2>3. Sound(db)' /\ Sound(work)'
    BY <2>1 DEF IndInv, Sound
  <2>4. TypeOK'
    BY <1>1, <1>2, <2>1, <2>2 DEF feed, IndInv, TypeOK
  <2>5. QED
    BY <1>3, <2>3, <2>4 DEF IndInv
<1>8. QED
  BY <1>5, <1>6, <1>7

\* COMMIT, the finishes, the broadcasts and the trim.
LEMMA BatchEndKeeps ==
    ASSUME IndInv, Commit \/ CommitFails \/ Resolve \/ Broadcast \/ Trim \/ TrimFails
    PROVE  IndInv'
<1>1. Ids' = Ids /\ UNCHANGED <<reqs, queue, pending, batch, base, crashes>>
  BY DEF Commit, CommitFails, Resolve, Broadcast, Trim, TrimFails, Ids, clients, feed
<1>2. CASE Commit \/ CommitFails
  <2>1. /\ phase' = "resolve" /\ open' = FALSE /\ committed' \in BOOLEAN
        /\ UNCHANGED <<replies, finishes, events, chan>>
        /\ db' = work' /\ (work' = work \/ work' = db)
    BY <1>2 DEF Commit, CommitFails, clients, feed
  <2>2. Sound(db)' /\ Sound(work)' /\ db' \in Db /\ work' \in Db
    BY <2>1, SMTT(30) DEF IndInv, TypeOK, Sound
  <2>3. Control'
    BY <2>1 DEF Control
  <2>4. QED
    BY <1>1, <2>1, <2>2, <2>3 DEF IndInv, TypeOK, Phases
<1>3. CASE Resolve
  <2>1. /\ phase' \in {"idle", "broadcast"} /\ (phase' = "broadcast" => events' # <<>>)
        /\ finishes' = <<>> /\ committed' = FALSE /\ (events' = events \/ events' = <<>>)
        /\ UNCHANGED <<db, work, open, chan>> /\ work = db
    BY <1>3 DEF Resolve, EventsToSend, txn, feed, IndInv, Control
  <2>2. replies' \in [Ids -> Replies]
    <3>1. \A f \in Finish : FinishReply(f) \in Replies
      BY DEF Finish, FinishReply, Replies, Refusals
    <3>2. \A i \in Ids : Resolved(i) # {} => (CHOOSE n \in Resolved(i) : TRUE) \in DOMAIN finishes
      BY DEF Resolved
    <3>3. \A n \in DOMAIN finishes : finishes[n] \in Finish
      BY DEF IndInv, TypeOK
    <3>4. replies \in [Ids -> Replies]
      BY DEF IndInv, TypeOK
    <3>5. QED
      BY <1>3, <3>1, <3>2, <3>3, <3>4 DEF Resolve
  <2>3. Control' /\ Sound(db)' /\ Sound(work)'
    BY <2>1 DEF Control, IndInv, Sound
  <2>4. finishes' \in Seq(Finish) /\ events' \in Seq(Change)
    <3>1. events \in Seq(Change) /\ <<>> \in Seq(Change) /\ <<>> \in Seq(Finish)
      BY DEF IndInv, TypeOK
    <3>2. QED
      BY <2>1, <3>1
  <2>5. QED
    BY <1>1, <2>1, <2>2, <2>3, <2>4 DEF IndInv, TypeOK, Phases
<1>4. CASE Broadcast
  <2>1. /\ events # <<>> /\ chan' = Append(chan, Head(events)) /\ events' = Tail(events)
        /\ phase' = (IF Tail(events) = <<>> THEN "trim" ELSE "broadcast")
        /\ UNCHANGED <<db, work, open, finishes, committed, replies>> /\ work = db
    BY <1>4 DEF Broadcast, txn, clients, IndInv, Control
  <2>2. chan' \in Seq(Change) /\ events' \in Seq(Change)
    BY <2>1 DEF IndInv, TypeOK
  <2>3. Control' /\ Sound(db)' /\ Sound(work)'
    BY <2>1 DEF Control, IndInv, Sound
  <2>4. QED
    BY <1>1, <2>1, <2>2, <2>3 DEF IndInv, TypeOK, Phases
<1>5. CASE Trim
  <2>1. /\ db' = TrimmedDb(db) /\ work' = db' /\ phase' = "idle"
        /\ UNCHANGED <<open, finishes, events, committed, chan, replies>>
    BY <1>5 DEF Trim, clients, outcome, feed
  <2>2. db' \in Db /\ Sound(db')
    BY <2>1, TrimIsSound DEF IndInv, TypeOK
  <2>3. Control' /\ Sound(db)' /\ Sound(work)'
    BY <2>1, <2>2 DEF Control, Sound
  <2>4. QED
    BY <1>1, <2>1, <2>2, <2>3 DEF IndInv, TypeOK, Phases
<1>6. CASE TrimFails
  <2>1. phase = "trim" /\ phase' = "idle" /\ UNCHANGED <<txn, outcome, chan, replies>>
    BY <1>6 DEF TrimFails, clients, feed
  <2>2. Control' /\ Sound(db)' /\ Sound(work)'
    BY <2>1 DEF txn, Control, IndInv, Sound
  <2>3. QED
    BY <1>1, <2>1, <2>2 DEF txn, outcome, IndInv, TypeOK, Phases
<1>7. QED
  BY <1>2, <1>3, <1>4, <1>5, <1>6

\* The statements of an index command touch no document and no change.
LEMMA IndexKeeps ==
    ASSUME IndInv, MakeIndex \/ MakeIndexRefused \/ ListIndex \/ UnlistIndex \/ IndexStepFails
    PROVE  IndInv'
<1>1. /\ Ids' = Ids /\ UNCHANGED <<reqs, queue, pending, open, outcome, feed, crashes>>
      /\ phase \in {"make_index", "list_index", "unlist_index"} /\ work = db
  BY DEF MakeIndex, MakeIndexRefused, ListIndex, UnlistIndex, IndexStepFails, EndIndex,
         clients, Ids, IndInv, Control
<1>2. batch # <<>> /\ batch \in Seq(Ids) /\ batch[1] \in Ids /\ reqs[batch[1]] \in Command
  BY <1>1 DEF IndInv, TypeOK, Control, Ids
<1>3. /\ phase \in {"make_index", "list_index"} => InHand.kind = "create_index"
      /\ phase = "unlist_index" => InHand.kind = "drop_index"
  BY DEF IndInv, Control, InHand
<1>4. ASSUME NEW s, s \in Db, s.hist = db.hist, s.log = db.log, SetDb(s)
      PROVE  db' \in Db /\ work' \in Db /\ Sound(db)' /\ Sound(work)' /\ work' = db'
  BY <1>4 DEF SetDb, IndInv, Sound
<1>5. ASSUME NEW x \in Index
      PROVE  LET s == [db EXCEPT !.indexes = @ \cup {x}]
                 t == [db EXCEPT !.listed = @ \cup {x}]
             IN  /\ s \in Db /\ s.hist = db.hist /\ s.log = db.log
                 /\ t \in Db /\ t.hist = db.hist /\ t.log = db.log
  BY DEF IndInv, TypeOK, Db
<1>6. LET s == [db EXCEPT !.listed = @ \ Named(@, InHand.name)]
      IN  s \in Db /\ s.hist = db.hist /\ s.log = db.log
  BY DEF IndInv, TypeOK, Db, Named
<1>7. phase \in {"make_index", "list_index"} => IndexOf(InHand) \in Index
  BY <1>2, <1>3 DEF InHand, IndexOf, Index, Command, DataCommand
<1>8. db' \in Db /\ work' \in Db /\ Sound(db)' /\ Sound(work)' /\ work' = db'
  <2>1. CASE UNCHANGED <<db, work>>
    BY <1>1, <2>1 DEF IndInv, TypeOK, Sound
  <2>2. CASE MakeIndex
    <3>1. SetDb([db EXCEPT !.indexes = @ \cup {IndexOf(InHand)}]) /\ IndexOf(InHand) \in Index
      BY <1>7, <2>2 DEF MakeIndex
    <3>2. QED
      BY <3>1, <1>4, <1>5
  <2>3. CASE ListIndex /\ ~UNCHANGED <<db, work>>
    <3>1. SetDb([db EXCEPT !.listed = @ \cup {IndexOf(InHand)}]) /\ IndexOf(InHand) \in Index
      BY <1>7, <2>3 DEF ListIndex
    <3>2. QED
      BY <3>1, <1>4, <1>5
  <2>4. CASE UnlistIndex
    <3>1. SetDb([db EXCEPT !.listed = @ \ Named(@, InHand.name)])
      BY <2>4 DEF UnlistIndex
    <3>2. QED
      BY <3>1, <1>4, <1>6
  <2>5. QED
    BY <2>1, <2>2, <2>3, <2>4 DEF MakeIndexRefused, IndexStepFails
<1>9. /\ batch' \in Seq(Ids) /\ phase' \in Phases /\ replies' \in [Ids -> Replies]
      /\ \/ phase' = "idle"
         \/ phase' = "list_index" /\ batch' = batch /\ InHand.kind = "create_index"
  <2>1. CASE MakeIndex
    BY <1>2, <1>3, <2>1 DEF MakeIndex, clients, Phases, IndInv, TypeOK
  <2>2. CASE \E reply \in Refusals \cup {"ok"} : EndIndex(reply)
    <3>1. PICK reply \in Refusals \cup {"ok"} : EndIndex(reply)
      BY <2>2
    <3>2. reply \in Replies
      BY DEF Replies
    <3>3. replies' \in [Ids -> Replies]
      BY <3>1, <3>2 DEF EndIndex, Answer, IndInv, TypeOK
    <3>4. batch' = <<>> /\ phase' = "idle"
      BY <3>1 DEF EndIndex
    <3>5. QED
      BY <3>3, <3>4 DEF Phases
  <2>3. QED
    BY <2>1, <2>2 DEF MakeIndexRefused, ListIndex, UnlistIndex, IndexStepFails, Refusals
<1>10. Control'
  BY <1>1, <1>2, <1>8, <1>9 DEF Control, InHand
<1>11. QED
  BY <1>1, <1>8, <1>9, <1>10 DEF outcome, feed, IndInv, TypeOK

LEMMA CrashKeeps == ASSUME IndInv, Crash PROVE IndInv'
<1>1. /\ Ids' = Ids /\ UNCHANGED <<reqs, db>> /\ work' = db /\ phase' = "idle" /\ open' = FALSE
      /\ queue' = <<>> /\ pending' = 0 /\ batch' = <<>> /\ finishes' = <<>> /\ events' = <<>>
      /\ committed' = FALSE /\ chan' = <<>>
  BY DEF Crash, Ids
<1>2. replies' \in [Ids -> Replies]
  BY DEF Crash, Replies, IndInv, TypeOK
<1>3. base' \in Nat
  BY DEF Crash, IndInv, TypeOK, Db
<1>4. crashes' \in 0 .. MaxCrashes
  BY BoundsAssumption DEF Crash, IndInv, TypeOK
<1>5. Sound(db)' /\ Sound(work)' /\ Control'
  BY <1>1 DEF IndInv, Sound, Control
<1>6. TypeOK'
  <2>1. /\ queue' \in Seq(Ids') /\ batch' \in Seq(Ids') /\ finishes' \in Seq(Finish)
        /\ events' \in Seq(Change) /\ chan' \in Seq(Change)
    BY <1>1
  <2>2. pending' \in {0} \cup Ids' /\ phase' \in Phases /\ open' \in BOOLEAN /\ committed' \in BOOLEAN
    BY <1>1 DEF Phases
  <2>3. reqs' \in Seq(Command) /\ db' \in Db /\ work' \in Db
    BY <1>1 DEF IndInv, TypeOK
  <2>4. QED
    BY <1>1, <1>2, <1>3, <1>4, <2>1, <2>2, <2>3 DEF TypeOK
<1>7. QED
  BY <1>5, <1>6 DEF IndInv

-----------------------------------------------------------------------------
LEMMA IndInvIsInvariant == Spec => []IndInv
<1>1. Init => IndInv
  BY InitIsGood
<1>2. IndInv /\ [Next]_vars => IndInv'
  <2> SUFFICES ASSUME IndInv, [Next]_vars PROVE IndInv'
    OBVIOUS
  <2>1. CASE UNCHANGED vars
    BY <2>1 DEF vars, IndInv, TypeOK, Sound, Control, Ids, IsBatchable
  <2>2. CASE \E cmd \in Command : Submit(cmd)
    BY <2>2, SubmitKeeps
  <2>3. CASE Crash
    BY <2>3, CrashKeeps
  <2>4. CASE Step
    BY <2>4, TakeKeeps, CollectKeeps, OpsKeep, BatchEndKeeps, IndexKeeps DEF Step
  <2>5. QED
    BY <2>1, <2>2, <2>3, <2>4 DEF Next
<1>3. QED
  BY <1>1, <1>2, PTL DEF Spec

\* Every variable of the writer stays in its type: in particular every sequence
\* number is positive and every row of the log is a well-formed change.
THEOREM TypeCorrect == Spec => []TypeOK
<1>1. IndInv => TypeOK
  BY DEF IndInv
<1>2. QED
  BY <1>1, IndInvIsInvariant, PTL

\* The sequence number of a change is its place in the history, in every
\* instance and with every fault: neither trimming (also with a retention of
\* one row), nor roll-backs, nor crashes make a number be used twice or skipped.
THEOREM SequenceNumbers == Spec => []SeqIsPosition
<1>1. IndInv => SeqIsPosition
  BY DEF IndInv, Sound, SeqIsPosition
<1>2. QED
  BY <1>1, IndInvIsInvariant, PTL

-----------------------------------------------------------------------------
(***************************************************************************)
(* What the answers promise, in which order requests take effect, what the *)
(* documents and the indexes are.  The invariant above says what the       *)
(* writer thread holds; here are the facts that relate the requests still  *)
(* in line, the history, and the answers.                                  *)
(***************************************************************************)

(***************************************************************************)
(* Sequences of numbers: what taking the head and adding at the end do.    *)
(***************************************************************************)
Elems(q) == {q[i] : i \in DOMAIN q}
Increasing(q) == \A i, j \in DOMAIN q : i < j => q[i] < q[j]

LEMMA EmptyQueue == Elems(<<>>) = {} /\ Increasing(<<>>)
BY DEF Elems, Increasing

LEMMA SingleQueue ==
    ASSUME NEW x PROVE Elems(<<x>>) = {x} /\ Increasing(<<x>>)
<1>1. DOMAIN <<x>> = {1} /\ <<x>>[1] = x
  OBVIOUS
<1>2. QED
  BY <1>1 DEF Elems, Increasing

LEMMA TailOfQueue ==
    ASSUME NEW S \in SUBSET Nat, NEW q \in Seq(S), q # <<>>
    PROVE  /\ Head(q) \in S /\ Tail(q) \in Seq(S)
           /\ Elems(q) = {Head(q)} \cup Elems(Tail(q))
           /\ Increasing(q) => /\ Increasing(Tail(q))
                               /\ \A w \in Elems(Tail(q)) : Head(q) < w
<1>1. /\ Head(q) \in S /\ Tail(q) \in Seq(S) /\ Len(q) \in Nat /\ Len(q) >= 1
      /\ Len(Tail(q)) = Len(q) - 1 /\ Head(q) = q[1]
      /\ \A i \in 1 .. Len(q) - 1 : Tail(q)[i] = q[i + 1]
      /\ DOMAIN q = 1 .. Len(q) /\ DOMAIN Tail(q) = 1 .. Len(q) - 1
  OBVIOUS
<1>2. Elems(q) = {Head(q)} \cup Elems(Tail(q))
  <2>1. \A i \in DOMAIN q : q[i] \in {Head(q)} \cup Elems(Tail(q))
    <3>1. TAKE i \in DOMAIN q
    <3>2. CASE i = 1
      BY <3>2, <1>1
    <3>3. CASE i # 1
      <4>1. i - 1 \in DOMAIN Tail(q) /\ Tail(q)[i - 1] = q[i]
        BY <1>1, <3>3
      <4>2. QED
        BY <4>1 DEF Elems
    <3>4. QED
      BY <3>2, <3>3
  <2>2. \A i \in DOMAIN Tail(q) : Tail(q)[i] \in Elems(q)
    BY <1>1 DEF Elems
  <2>3. Head(q) \in Elems(q)
    BY <1>1 DEF Elems
  <2>4. QED
    BY <2>1, <2>2, <2>3 DEF Elems
<1>3. ASSUME Increasing(q) PROVE Increasing(Tail(q)) /\ \A w \in Elems(Tail(q)) : Head(q) < w
  <2>1. \A i, j \in 1 .. Len(q) : i < j => q[i] < q[j]
    BY <1>1, <1>3 DEF Increasing
  <2>2. Increasing(Tail(q))
    BY <1>1, <2>1 DEF Increasing
  <2>3. \A i \in DOMAIN Tail(q) : Head(q) < Tail(q)[i]
    BY <1>1, <2>1
  <2>4. QED
    BY <2>2, <2>3 DEF Elems
<1>4. QED
  BY <1>1, <1>2, <1>3

LEMMA AppendToQueue ==
    ASSUME NEW S \in SUBSET Nat, NEW q \in Seq(S), NEW x \in Nat
    PROVE  /\ Elems(Append(q, x)) = Elems(q) \cup {x}
           /\ Increasing(q) /\ (\A w \in Elems(q) : w < x) => Increasing(Append(q, x))
<1>1. /\ Len(q) \in Nat /\ DOMAIN q = 1 .. Len(q) /\ DOMAIN Append(q, x) = 1 .. Len(q) + 1
      /\ \A i \in 1 .. Len(q) : Append(q, x)[i] = q[i]
      /\ Append(q, x)[Len(q) + 1] = x
  OBVIOUS
<1>2. Elems(Append(q, x)) = Elems(q) \cup {x}
  BY <1>1 DEF Elems
<1>3. ASSUME Increasing(q), \A w \in Elems(q) : w < x PROVE Increasing(Append(q, x))
  BY <1>1, <1>3 DEF Increasing, Elems
<1>4. QED
  BY <1>2, <1>3

(***************************************************************************)
(* A set of naturals has a least element, one that is bounded has a        *)
(* greatest.                                                               *)
(***************************************************************************)
LEMMA LeastNatural ==
    ASSUME NEW T \in SUBSET Nat, T # {}
    PROVE  \E n \in T : \A m \in T : n <= m
<1>1. IsWellFoundedOn(OpToRel(<, Nat), Nat)
  BY NatLessThanWellFounded
<1>2. PICK n \in T : \A m \in T : ~ (<<m, n>> \in OpToRel(<, Nat))
  BY <1>1, WFMin
<1>3. \A m \in T : ~ (m < n)
  BY <1>2 DEF OpToRel
<1>4. QED
  BY <1>3

LEMMA GreatestBelow ==
    ASSUME NEW b \in Nat, NEW T \in SUBSET (0 .. b), T # {}
    PROVE  \E n \in T : \A m \in T : m <= n
<1> DEFINE U == {u \in 0 .. b : b - u \in T}
<1>1. U \in SUBSET Nat
  OBVIOUS
<1>2. U # {}
  <2>1. PICK n \in T : TRUE
    OBVIOUS
  <2>2. n \in 0 .. b
    OBVIOUS
  <2>3. b - n \in 0 .. b /\ b - (b - n) = n
    BY <2>2
  <2>4. b - n \in U
    BY <2>1, <2>3
  <2>5. QED
    BY <2>4
<1> HIDE DEF U
<1>3. PICK u \in U : \A v \in U : u <= v
  BY <1>1, <1>2, LeastNatural
<1>4. u \in 0 .. b /\ b - u \in T
  BY <1>3 DEF U
<1>5. ASSUME NEW m \in T PROVE m <= b - u
  <2>1. m \in 0 .. b
    OBVIOUS
  <2>2. b - m \in 0 .. b /\ b - (b - m) = m
    BY <2>1
  <2>3. b - m \in U
    BY <2>2 DEF U
  <2>4. u <= b - m
    BY <2>3, <1>3
  <2>5. QED
    BY <2>1, <2>4, <1>4
<1>6. QED
  BY <1>4, <1>5

-----------------------------------------------------------------------------
(***************************************************************************)
(* Documents and histories.                                                *)
(***************************************************************************)
\* One change at the end of a history replaces one document.
LEMMA ReplayAppend ==
    ASSUME NEW h \in Seq(Change), NEW c \in Change
    PROVE  Replay(Append(h, c)) = [Replay(h) EXCEPT ![c.key] = c.val]
<1> DEFINE n == Len(h)
           g == Append(h, c)
<1>1. /\ n \in Nat /\ DOMAIN h = 1 .. n /\ DOMAIN g = 1 .. n + 1 /\ g[n + 1] = c
      /\ \A i \in 1 .. n : g[i] = h[i]
  OBVIOUS
<1> HIDE DEF g, n
<1>2. BodyAfter(g, c.key) = c.val
  <2>1. n + 1 \in ChangesOf(g, c.key) /\ \A i \in ChangesOf(g, c.key) : i <= n + 1
    BY <1>1 DEF ChangesOf
  <2>2. \A m \in ChangesOf(g, c.key) :
            (\A i \in ChangesOf(g, c.key) : i <= m) => m = n + 1
    <3>1. ChangesOf(g, c.key) \subseteq 1 .. n + 1
      BY <1>1 DEF ChangesOf
    <3>2. QED
      BY <2>1, <3>1, <1>1
  <2>3. (CHOOSE m \in ChangesOf(g, c.key) : \A i \in ChangesOf(g, c.key) : i <= m) = n + 1
    BY <2>1, <2>2
  <2>4. QED
    BY <2>1, <2>3, <1>1 DEF BodyAfter
<1>3. ASSUME NEW k \in Keys, k # c.key PROVE BodyAfter(g, k) = BodyAfter(h, k)
  <2>1. ChangesOf(g, k) = ChangesOf(h, k)
    BY <1>1, <1>3 DEF ChangesOf
  <2>2. CASE ChangesOf(h, k) = {}
    BY <2>1, <2>2 DEF BodyAfter
  <2>3. CASE ChangesOf(h, k) # {}
    <3>1. ChangesOf(h, k) \in SUBSET (0 .. n)
      BY <1>1 DEF ChangesOf
    <3>2. \E m \in ChangesOf(h, k) : \A i \in ChangesOf(h, k) : i <= m
      BY <1>1, <2>3, <3>1, GreatestBelow
    <3> DEFINE top == CHOOSE m \in ChangesOf(h, k) : \A i \in ChangesOf(h, k) : i <= m
    <3>3. top \in ChangesOf(h, k)
      BY <3>2
    <3>4. top \in 1 .. n
      BY <3>3, <1>1 DEF ChangesOf
    <3>5. BodyAfter(g, k) = g[top].val /\ BodyAfter(h, k) = h[top].val
      BY <2>1, <2>3 DEF BodyAfter
    <3>6. QED
      BY <3>4, <3>5, <1>1
  <2>4. QED
    BY <2>2, <2>3
<1>4. Replay(g) = [k \in Keys |-> IF k = c.key THEN c.val ELSE Replay(h)[k]]
  BY <1>2, <1>3 DEF Replay
<1>5. QED
  BY <1>4 DEF Replay, g

\* A legal history stays legal when the change added to it could be made.
LEMMA LegalAppend ==
    ASSUME NEW h \in Seq(Change), NEW c \in Change, Legal(h),
           c.op = "insert" <=> Replay(h)[c.key] = NoDoc,
           c.op = "delete" <=> c.val = NoDoc
    PROVE  Legal(Append(h, c))
<1> DEFINE n == Len(h)
           g == Append(h, c)
<1>1. /\ n \in Nat /\ DOMAIN h = 1 .. n /\ DOMAIN g = 1 .. n + 1 /\ g[n + 1] = c
      /\ \A i \in 1 .. n : g[i] = h[i]
  OBVIOUS
<1>2. ASSUME NEW i \in 1 .. n PROVE LegalAt(g, i)
  <2>1. SubSeq(g, 1, i - 1) = SubSeq(h, 1, i - 1)
    OBVIOUS
  <2>2. LegalAt(h, i) /\ g[i] = h[i]
    BY <1>1 DEF Legal
  <2> HIDE DEF g
  <2>3. QED
    BY <2>1, <2>2 DEF LegalAt
<1>3. LegalAt(g, n + 1)
  <2>1. SubSeq(g, 1, n + 1 - 1) = h
    OBVIOUS
  <2>2. BodyAfter(h, c.key) = Replay(h)[c.key]
    BY DEF Change, Replay
  <2> DEFINE m == n + 1
  <2>3. SubSeq(g, 1, m - 1) = h /\ g[m] = c
    BY <1>1, <2>1
  <2> HIDE DEF g, n, m
  <2>4. LegalAt(g, m)
    BY <2>2, <2>3 DEF LegalAt
  <2>5. QED
    BY <2>4 DEF m
<1>4. QED
  BY <1>1, <1>2, <1>3 DEF Legal

\* What a data command may do: refuse and change nothing, or make one change,
\* of the right kind and not against a unique index.
LEMMA OutcomesAreChanges ==
    ASSUME NEW s \in Db, NEW cmd \in DataCommand, NEW id \in Nat,
           NEW r \in Outcomes(s, cmd, id)
    PROVE  \/ \E reply \in Refusals : r = Unchanged(s, reply)
           \/ \E op \in ChangeOps, v \in Bodies, reply \in Accepted :
                 /\ r = Changed(s, op, cmd.key, v, id, reply)
                 /\ op = "delete" <=> v = NoDoc
                 /\ v # NoDoc => ~Clashes(s, cmd.key, v)
                 /\ cmd.kind = "create" => op = "insert"
                 /\ cmd.kind # "create" => (op = "insert" <=> s.docs[cmd.key] = NoDoc)
<1> DEFINE Refused == \E reply \in Refusals : r = Unchanged(s, reply)
           Made1(op, v, reply) ==
               /\ r = Changed(s, op, cmd.key, v, id, reply)
               /\ op = "delete" <=> v = NoDoc
               /\ v # NoDoc => ~Clashes(s, cmd.key, v)
               /\ cmd.kind = "create" => op = "insert"
               /\ cmd.kind # "create" => (op = "insert" <=> s.docs[cmd.key] = NoDoc)
           Goal == Refused \/ \E op \in ChangeOps, v \in Bodies, reply \in Accepted : Made1(op, v, reply)
<1>1. /\ "insert" \in ChangeOps /\ "update" \in ChangeOps /\ "delete" \in ChangeOps
      /\ "created" \in Accepted /\ "updated" \in Accepted /\ "deleted" \in Accepted
      /\ "conflict" \in Refusals /\ "too_large" \in Refusals /\ "absent" \in Refusals
      /\ NoDoc \in Bodies /\ Vals \subseteq Bodies
  BY DEF ChangeOps, Accepted, Refusals, Bodies
<1>2. r \in SizeCheck(s) => Refused
  BY <1>1 DEF SizeCheck
<1>3. ASSUME NEW op \in {"insert", "update"}, NEW reply \in Accepted, cmd.val \in Vals,
             cmd.kind = "create" => op = "insert",
             cmd.kind # "create" => (op = "insert" <=> s.docs[cmd.key] = NoDoc),
             r \in Write(s, op, cmd.key, cmd.val, id, reply)
      PROVE  Goal
  <2>1. cmd.val \in Bodies /\ cmd.val # NoDoc /\ op \in ChangeOps
    BY <1>1, <1>3, NoDocAssumption
  <2>2. CASE Clashes(s, cmd.key, cmd.val)
    <3>1. r = Unchanged(s, "conflict")
      BY <1>3, <2>2 DEF Write
    <3>2. QED
      BY <1>1, <3>1
  <2>3. CASE ~Clashes(s, cmd.key, cmd.val)
    <3>1. r = Changed(s, op, cmd.key, cmd.val, id, reply)
      BY <1>3, <2>3 DEF Write
    <3>2. Made1(op, cmd.val, reply)
      BY <1>3, <2>1, <2>3, <3>1
    <3>3. QED
      BY <2>1, <3>2
  <2>4. QED
    BY <2>2, <2>3
<1>4. CASE cmd.kind = "create"
  <2>1. r \in DoCreate(s, cmd.key, cmd.val, id) /\ cmd.val \in Vals
    BY <1>4 DEF Outcomes, DataCommand
  <2>2. QED
    BY <1>1, <1>2, <1>3, <1>4, <2>1 DEF DoCreate
<1>5. CASE cmd.kind = "replace"
  <2>1. r \in DoReplace(s, cmd.key, cmd.val, id) /\ cmd.val \in Vals
    BY <1>5 DEF Outcomes, DataCommand
  <2>2. CASE s.docs[cmd.key] = NoDoc
    BY <1>1, <1>2, <1>3, <1>5, <2>1, <2>2 DEF DoReplace
  <2>3. CASE s.docs[cmd.key] # NoDoc
    BY <1>1, <1>2, <1>3, <1>5, <2>1, <2>3 DEF DoReplace
  <2>4. QED
    BY <2>2, <2>3
<1>6. CASE cmd.kind = "delete"
  <2>1. r \in DoDelete(s, cmd.key, id)
    BY <1>6 DEF Outcomes
  <2>2. CASE CollOf[cmd.key] \notin s.colls \/ s.docs[cmd.key] = NoDoc
    <3>1. r = Unchanged(s, "absent")
      BY <2>1, <2>2 DEF DoDelete
    <3>2. QED
      BY <1>1, <3>1
  <2>3. CASE ~(CollOf[cmd.key] \notin s.colls \/ s.docs[cmd.key] = NoDoc)
    <3>1. r = Changed(s, "delete", cmd.key, NoDoc, id, "deleted")
      BY <2>1, <2>3 DEF DoDelete
    <3>2. Made1("delete", NoDoc, "deleted")
      BY <1>6, <2>3, <3>1
    <3>3. QED
      BY <1>1, <3>2
  <2>4. QED
    BY <2>2, <2>3
<1>7. QED
  BY <1>4, <1>5, <1>6 DEF DataCommand

-----------------------------------------------------------------------------
(***************************************************************************)
(* Outside a transaction the writer's connection sees what is committed;   *)
(* inside one, what is committed and then some.                            *)
(***************************************************************************)
Prefix(h, g) == Len(h) <= Len(g) /\ \A i \in DOMAIN h : g[i] = h[i]

Txn ==
    /\ open => phase = "ops"
    /\ ~open => work = db
    /\ Prefix(db.hist, work.hist)

LEMMA PrefixReflexive == ASSUME NEW h \in Seq(Change) PROVE Prefix(h, h)
BY DEF Prefix

\* The fields of a changed database.
LEMMA ChangedParts ==
    ASSUME NEW s \in Db, Sound(s), NEW k \in Keys, NEW v \in Bodies,
           NEW op \in ChangeOps, NEW id \in Nat, NEW reply \in Accepted
    PROVE  LET t == Changed(s, op, k, v, id, reply).db
               c == NewChange(s, op, k, v, id)
           IN  /\ t.docs \in [Keys -> Bodies] /\ t.hist = Append(s.hist, c)
               /\ \A j \in Keys : t.docs[j] = IF j = k THEN v ELSE s.docs[j]
               /\ t.log = s.log \cup {c}
               /\ t.indexes = s.indexes /\ t.listed = s.listed
               /\ c \in Change /\ c.seq = Len(s.hist) + 1
               /\ c.op = op /\ c.key = k /\ c.val = v /\ c.req = id
<1>1. /\ NewChange(s, op, k, v, id) \in Change
      /\ NewChange(s, op, k, v, id).seq = Len(s.hist) + 1
  BY ChangedIsSound
<1>2. /\ NewChange(s, op, k, v, id).op = op /\ NewChange(s, op, k, v, id).key = k
      /\ NewChange(s, op, k, v, id).val = v /\ NewChange(s, op, k, v, id).req = id
  BY DEF NewChange
<1>3. QED
  BY <1>1, <1>2 DEF Changed, Db

(***************************************************************************)
(* What one operation of the batch does: refuse, or make change c.         *)
(***************************************************************************)
Current == reqs[Head(batch)]

Refuses ==
    /\ db' = db /\ work' = work /\ events' = events
    /\ \E reply \in Refusals :
          finishes' = Append(finishes, [id |-> Head(batch), reply |-> reply, firm |-> TRUE])

Makes(c) ==
    /\ c.req = Head(batch) /\ c.key = Current.key /\ c.seq = Len(work.hist) + 1
    /\ work'.docs \in [Keys -> Bodies]
    /\ \A j \in Keys : work'.docs[j] = IF j = c.key THEN c.val ELSE work.docs[j]
    /\ work'.hist = Append(work.hist, c)
    /\ work'.log = work.log \cup {c}
    /\ work'.indexes = work.indexes /\ work'.listed = work.listed
    /\ db' = IF open THEN db ELSE work'
    /\ events' = Append(events, c)
    /\ \E reply \in Accepted :
          finishes' = Append(finishes, [id |-> Head(batch), reply |-> reply, firm |-> FALSE])
    /\ c.op = "delete" <=> c.val = NoDoc
    /\ c.val # NoDoc => ~Clashes(work, c.key, c.val)
    /\ Current.kind = "create" => c.op = "insert"
    /\ Current.kind # "create" => (c.op = "insert" <=> work.docs[c.key] = NoDoc)

LEMMA ApplyShape ==
    ASSUME IndInv, Txn, ApplyOp
    PROVE  /\ Head(batch) \in Ids /\ batch \in Seq(Ids) /\ batch # <<>> /\ Head(batch) = batch[1]
           /\ Current \in DataCommand
           /\ Refuses \/ \E c \in Change : Makes(c)
<1> DEFINE id == Head(batch)
           cmd == reqs[id]
<1>1. /\ batch \in Seq(Ids) /\ batch # <<>> /\ phase = "ops" /\ id \in Ids /\ id \in Nat
      /\ id = batch[1] /\ 1 \in DOMAIN batch
  BY SMTT(30) DEF ApplyOp, InOps, IndInv, TypeOK, Ids
<1>2. cmd \in DataCommand
  <2>1. cmd \in Command /\ IsBatchable(cmd)
    BY <1>1 DEF IndInv, TypeOK, Control, Ids
  <2>2. QED
    BY <2>1 DEF Command, IsBatchable
<1>3. work \in Db /\ Sound(work) /\ events \in Seq(Change)
  BY DEF IndInv, TypeOK
<1>4. PICK r \in Outcomes(work, cmd, id) :
         /\ work' = r.db
         /\ db' = IF open THEN db ELSE r.db
         /\ finishes' = Append(finishes, FinishOf(id, r))
         /\ events' = events \o r.event
  BY DEF ApplyOp
<1>5. Current = cmd
  BY DEF Current
<1> HIDE DEF cmd
<1>6. CASE \E reply \in Refusals : r = Unchanged(work, reply)
  <2>1. PICK reply \in Refusals : r = Unchanged(work, reply)
    BY <1>6
  <2>2. r.db = work /\ r.event = <<>> /\ r.reply = reply /\ r.firm = TRUE
    BY <2>1 DEF Unchanged
  <2>3. db' = db /\ work' = work /\ events' = events
    BY <1>3, <1>4, <2>2 DEF Txn
  <2>4. finishes' = Append(finishes, [id |-> id, reply |-> reply, firm |-> TRUE])
    BY <1>4, <2>2 DEF FinishOf
  <2>5. Refuses
    BY <2>3, <2>4 DEF Refuses
  <2>6. QED
    BY <1>1, <1>2, <1>5, <2>5
<1>7. CASE ~\E reply \in Refusals : r = Unchanged(work, reply)
  <2>1. PICK op \in ChangeOps, v \in Bodies, reply \in Accepted :
               /\ r = Changed(work, op, cmd.key, v, id, reply)
               /\ op = "delete" <=> v = NoDoc
               /\ v # NoDoc => ~Clashes(work, cmd.key, v)
               /\ cmd.kind = "create" => op = "insert"
               /\ cmd.kind # "create" => (op = "insert" <=> work.docs[cmd.key] = NoDoc)
    BY <1>1, <1>2, <1>3, <1>7, OutcomesAreChanges
  <2>2. cmd.key \in Keys
    BY <1>2 DEF DataCommand
  <2> DEFINE c == NewChange(work, op, cmd.key, v, id)
  <2>3. /\ c \in Change /\ c.seq = Len(work.hist) + 1
        /\ c.op = op /\ c.key = cmd.key /\ c.val = v /\ c.req = id
        /\ r.db.docs \in [Keys -> Bodies] /\ r.db.hist = Append(work.hist, c)
        /\ \A j \in Keys : r.db.docs[j] = IF j = cmd.key THEN v ELSE work.docs[j]
        /\ r.db.log = work.log \cup {c}
        /\ r.db.indexes = work.indexes /\ r.db.listed = work.listed
    <3>1. r.db = Changed(work, op, cmd.key, v, id, reply).db
      BY <2>1
    <3>2. work \in Db /\ Sound(work) /\ id \in Nat
      BY <1>1, <1>3
    <3>3. QED
      BY <2>1, <2>2, <3>1, <3>2, ChangedParts, SMTT(30)
  <2>4. r.reply = reply /\ r.firm = FALSE /\ r.event = <<c>>
    BY <2>1 DEF Changed
  <2> HIDE DEF c
  <2>5. events \o <<c>> = Append(events, c)
    BY <1>3, <2>3
  <2>6. finishes' = Append(finishes, [id |-> id, reply |-> reply, firm |-> FALSE])
    BY <1>4, <2>4 DEF FinishOf
  <2>7. Makes(c)
    BY <1>4, <1>5, <2>1, <2>3, <2>4, <2>5, <2>6 DEF Makes
  <2>8. QED
    BY <1>1, <1>2, <1>5, <2>3, <2>7
<1>8. QED
  BY <1>6, <1>7

LEMMA OpenSteps ==
    ASSUME IndInv, [Next]_vars
    PROVE  \/ UNCHANGED <<db, work, open, phase>>
           \/ phase # "ops" /\ phase' # "ops" /\ open' = open
           \/ open' = FALSE /\ work' = db'
           \/ Begin
           \/ ApplyOp
<1>1. CASE UNCHANGED vars
  BY <1>1 DEF vars
<1>2. CASE \E cmd \in Command : Submit(cmd)
  BY <1>2 DEF Submit, txn
<1>3. CASE Crash
  BY <1>3 DEF Crash
<1>4. CASE Step
  <2>1. ASSUME NEW id \in Ids,
               RunMaintenance(id) \/ StartBatch(id) \/ StartCreateIndex(id) \/ StartDropIndex(id)
        PROVE  phase # "ops" /\ phase' # "ops" /\ open' = open
    BY <2>1 DEF RunMaintenance, StartBatch, StartCreateIndex, StartDropIndex, Take, txn
  <2>2. CASE CollectData \/ BeginFails \/ SavepointFails
    BY <2>2 DEF CollectData, BeginFails, SavepointFails, txn
  <2>3. CASE ApplyFails \/ Commit \/ CommitFails
    BY <2>3 DEF ApplyFails, Commit, CommitFails
  <2>4. CASE Resolve \/ Broadcast \/ Trim \/ TrimFails
    BY <2>4 DEF Resolve, Broadcast, Trim, TrimFails, txn
  <2>5. CASE MakeIndex \/ MakeIndexRefused \/ ListIndex \/ UnlistIndex \/ IndexStepFails
    BY <2>5 DEF MakeIndex, MakeIndexRefused, ListIndex, UnlistIndex, IndexStepFails, EndIndex
  <2>6. QED
    BY <1>4, <2>1, <2>2, <2>3, <2>4, <2>5 DEF Step
<1>5. QED
  BY <1>1, <1>2, <1>3, <1>4 DEF Next

LEMMA PrefixAppend ==
    ASSUME NEW h \in Seq(Change), NEW g \in Seq(Change), NEW c \in Change, Prefix(h, g)
    PROVE  Prefix(h, Append(g, c))
BY DEF Prefix

LEMMA TxnKept == ASSUME IndInv, IndInv', Txn, [Next]_vars PROVE Txn'
<1>0. db' \in Db /\ work' \in Db /\ db \in Db /\ work \in Db
  BY DEF IndInv, TypeOK
<1>1. db'.hist \in Seq(Change) /\ db.hist \in Seq(Change) /\ work.hist \in Seq(Change)
  BY <1>0 DEF Db
<1>2. CASE UNCHANGED <<db, work, open, phase>>
  BY <1>2 DEF Txn, Prefix
<1>3. CASE phase # "ops" /\ phase' # "ops" /\ open' = open
  <2>1. ~open' /\ work' = db'
    BY <1>3 DEF Txn, IndInv, Control
  <2>2. QED
    BY <1>1, <2>1, PrefixReflexive DEF Txn, Prefix
<1>4. CASE open' = FALSE /\ work' = db'
  BY <1>1, <1>4, PrefixReflexive DEF Txn, Prefix
<1>5. CASE Begin
  <2>1. open' = TRUE /\ phase' = "ops" /\ db' = db /\ work' = work /\ work = db
    BY <1>5 DEF Begin, IndInv, Control
  <2>2. QED
    BY <1>1, <2>1, PrefixReflexive DEF Txn, Prefix
<1>6. CASE ApplyOp
  <2>1. phase' = phase /\ open' = open
    BY <1>6 DEF ApplyOp
  <2>2. CASE Refuses
    BY <2>1, <2>2 DEF Refuses, Txn, Prefix
  <2>3. ASSUME NEW c \in Change, Makes(c), ~open PROVE Txn'
    <3>1. work' = db'
      BY <2>3 DEF Makes
    <3>2. QED
      BY <1>1, <2>1, <2>3, <3>1, PrefixReflexive DEF Txn, Prefix
  <2>4. ASSUME NEW c \in Change, Makes(c), open PROVE Txn'
    <3>1. db' = db /\ work'.hist = Append(work.hist, c)
      BY <2>4 DEF Makes
    <3>2. Prefix(db.hist, work.hist)
      BY DEF Txn
    <3>3. Prefix(db'.hist, work'.hist)
      BY <1>1, <3>1, <3>2, PrefixAppend
    <3>4. open => phase = "ops"
      BY DEF Txn
    <3>5. QED
      BY <2>1, <2>4, <3>3, <3>4 DEF Txn, Prefix
  <2>5. QED
    BY <1>6, <2>2, <2>3, <2>4, ApplyShape
<1>7. QED
  BY <1>2, <1>3, <1>4, <1>5, <1>6, OpenSteps

LEMMA TxnIsInvariant == Spec => []Txn
<1>1. Init => Txn
  <2> SUFFICES ASSUME Init PROVE Txn
    OBVIOUS
  <2>1. work = db /\ open = FALSE /\ db.hist = <<>>
    BY DEF Init, EmptyDb
  <2>2. <<>> \in Seq(Change)
    OBVIOUS
  <2>3. QED
    BY <2>1, <2>2, PrefixReflexive DEF Txn
<1>2. IndInv /\ IndInv' /\ Txn /\ [Next]_vars => Txn'
  BY TxnKept
<1>3. QED
  BY <1>1, <1>2, IndInvIsInvariant, PTL DEF Spec

(***************************************************************************)
(* Only an operation and a commit change the documents and the history;    *)
(* everything else keeps them, or takes the uncommitted ones back.         *)
(***************************************************************************)
SameData(s, t) == s.docs = t.docs /\ s.hist = t.hist

LEMMA DataSteps ==
    ASSUME IndInv, [Next]_vars
    PROVE  \/ /\ SameData(db', db) /\ SameData(work', work)
              /\ Trim \/ (db'.log = db.log /\ work'.log = work.log)
           \/ ApplyFails \/ CommitFails \/ Crash
           \/ Commit
           \/ ApplyOp
<1>0. db \in Db /\ work \in Db /\ (phase # "ops" => work = db)
  BY DEF IndInv, TypeOK, Control
<1>1. CASE UNCHANGED vars
  BY <1>1 DEF vars, SameData
<1>2. CASE \E cmd \in Command : Submit(cmd)
  BY <1>2 DEF Submit, txn, SameData
<1>3. CASE Step
  <2>1. ASSUME NEW id \in Ids, RunMaintenance(id) \/ StartBatch(id)
        PROVE  UNCHANGED <<db, work>>
    BY <2>1 DEF RunMaintenance, StartBatch, txn
  <2>2. ASSUME NEW id \in Ids, StartCreateIndex(id)
        PROVE  /\ SameData(db', db) /\ SameData(work', work)
               /\ db'.log = db.log /\ work'.log = work.log
    BY <1>0, <2>2 DEF StartCreateIndex, Take, SetDb, SameData, Db
  <2>3. ASSUME NEW id \in Ids, StartDropIndex(id)
        PROVE  /\ SameData(db', db) /\ SameData(work', work)
               /\ db'.log = db.log /\ work'.log = work.log
    BY <1>0, <2>3 DEF StartDropIndex, Take, SetDb, SameData, Db
  <2>4. CASE CollectData \/ Begin \/ BeginFails \/ SavepointFails \/ Resolve \/ Broadcast \/ TrimFails
    BY <2>4 DEF CollectData, Begin, BeginFails, SavepointFails, Resolve, Broadcast, TrimFails,
                txn, SameData
  <2>5. CASE Trim
    BY <1>0, <2>5 DEF Trim, TrimmedDb, SameData, Db
  <2>6. CASE MakeIndexRefused \/ IndexStepFails
    BY <2>6 DEF MakeIndexRefused, IndexStepFails, SameData
  <2>7. CASE MakeIndex
    BY <1>0, <2>7 DEF MakeIndex, SetDb, SameData, Db
  <2>8. CASE ListIndex \/ UnlistIndex
    BY <1>0, <2>8 DEF ListIndex, UnlistIndex, SetDb, SameData, Db
  <2>9. QED
    BY <1>3, <2>1, <2>2, <2>3, <2>4, <2>5, <2>6, <2>7, <2>8 DEF Step, SameData
<1>4. QED
  BY <1>1, <1>2, <1>3 DEF Next

-----------------------------------------------------------------------------
(***************************************************************************)
(* The requests in line: those of the batch, then the one put aside, then  *)
(* those of the channel, in the order they were sent.                      *)
(***************************************************************************)
Line == Elems(batch) \cup ({pending} \ {0}) \cup Elems(queue)

InLine ==
    /\ Increasing(batch) /\ Increasing(queue)
    /\ \A b \in Elems(batch), q \in Elems(queue) : b < q
    /\ pending # 0 => /\ \A b \in Elems(batch) : b < pending
                      /\ \A q \in Elems(queue) : pending < q
    /\ phase = "collect" => pending = 0
    /\ phase \notin {"ops", "resolve"} => finishes = <<>>

LEMMA LineIsIds ==
    ASSUME IndInv
    PROVE  /\ Line \subseteq Ids /\ Ids \in SUBSET Nat
           /\ Elems(batch) \subseteq Ids /\ Elems(queue) \subseteq Ids
           /\ batch \in Seq(Ids) /\ queue \in Seq(Ids) /\ pending \in {0} \cup Ids
<1>1. batch \in Seq(Ids) /\ queue \in Seq(Ids) /\ pending \in {0} \cup Ids /\ Ids \in SUBSET Nat
  BY DEF IndInv, TypeOK, Ids
<1>2. Elems(batch) \subseteq Ids /\ Elems(queue) \subseteq Ids
  BY <1>1 DEF Elems
<1>3. QED
  BY <1>1, <1>2 DEF Line

\* The request taken was the first in line.
LEMMA TakeShape ==
    ASSUME IndInv, InLine, NEW id \in Ids, Take(id)
    PROVE  /\ id \in Line /\ pending' = 0 /\ phase = "idle" /\ finishes = <<>>
           /\ Increasing(queue') /\ Elems(queue') \subseteq Elems(queue)
           /\ \A q \in Elems(queue') : id < q
<1>1. CASE pending # 0 /\ id = pending /\ pending' = 0 /\ UNCHANGED queue
  BY <1>1 DEF Take, InLine, Line
<1>2. CASE pending = 0 /\ queue # <<>> /\ id = Head(queue) /\ queue' = Tail(queue) /\ UNCHANGED pending
  <2>1. queue \in Seq(Ids) /\ Ids \in SUBSET Nat
    BY LineIsIds
  <2>2. /\ Elems(queue) = {id} \cup Elems(queue') /\ Increasing(queue')
        /\ \A w \in Elems(queue') : id < w
    BY <1>2, <2>1, TailOfQueue DEF InLine
  <2>3. QED
    BY <1>2, <2>2 DEF Take, InLine, Line
<1>3. QED
  BY <1>1, <1>2 DEF Take

\* The end of a batch: the command put aside was the head of the channel.
LEMMA EndCollectShape ==
    ASSUME IndInv, InLine, phase = "collect", EndCollect
    PROVE  /\ Increasing(queue') /\ Elems(queue') \subseteq Elems(queue)
           /\ pending' # 0 => /\ pending' \in Elems(queue)
                              /\ \A q \in Elems(queue') : pending' < q
<1>1. CASE UNCHANGED <<queue, pending>>
  BY <1>1 DEF InLine
<1>2. CASE queue # <<>> /\ pending' = Head(queue) /\ queue' = Tail(queue)
  <2>1. queue \in Seq(Ids) /\ Ids \in SUBSET Nat
    BY LineIsIds
  <2>2. QED
    BY <1>2, <2>1, TailOfQueue DEF InLine
<1>3. QED
  BY <1>1, <1>2 DEF EndCollect

\* Whatever happens, the line stays in order; only a new request joins it.
LEMMA LineSteps ==
    ASSUME IndInv, InLine, [Next]_vars
    PROVE  InLine' /\ Line' \subseteq Line \cup (Ids' \ Ids)
<1>0. /\ Elems(batch) \subseteq Ids /\ Elems(queue) \subseteq Ids /\ Ids \in SUBSET Nat
      /\ batch \in Seq(Ids) /\ queue \in Seq(Ids) /\ pending \in {0} \cup Ids
  BY LineIsIds
<1>1. CASE UNCHANGED vars
  BY <1>1 DEF vars, InLine, Line
<1>2. ASSUME NEW cmd \in Command, Submit(cmd) PROVE InLine' /\ Line' \subseteq Line \cup (Ids' \ Ids)
  <2> DEFINE new == Len(reqs) + 1
  <2>1. /\ queue' = Append(queue, new) /\ new \in Nat /\ Ids' = 1 .. new /\ Ids = 1 .. Len(reqs)
        /\ UNCHANGED <<pending, phase, batch, finishes>>
    BY <1>2 DEF Submit, outcome, Ids, IndInv, TypeOK
  <2>2. \A w \in Ids : w < new
    BY <2>1
  <2>3. new \in Ids' \ Ids
    BY <2>1
  <2> HIDE DEF new
  <2>4. Elems(queue') = Elems(queue) \cup {new} /\ Increasing(queue')
    BY <1>0, <2>1, <2>2, AppendToQueue DEF InLine
  <2>5. InLine'
    BY <1>0, <2>1, <2>2, <2>4 DEF InLine
  <2>6. QED
    BY <2>1, <2>3, <2>4, <2>5 DEF Line
<1>3. CASE Crash
  BY <1>3, EmptyQueue DEF Crash, InLine, Line
<1>4. ASSUME NEW id \in Ids,
             RunMaintenance(id) \/ StartBatch(id) \/ StartCreateIndex(id) \/ StartDropIndex(id)
      PROVE  InLine' /\ Line' \subseteq Line
  <2>1. Take(id) /\ UNCHANGED finishes
    BY <1>4 DEF RunMaintenance, StartBatch, StartCreateIndex, StartDropIndex, outcome
  <2>2. /\ id \in Line /\ pending' = 0 /\ finishes' = <<>>
        /\ Increasing(queue') /\ Elems(queue') \subseteq Elems(queue)
        /\ \A q \in Elems(queue') : id < q
    BY <2>1, TakeShape
  <2>3. batch' = batch \/ batch' = <<id>>
    BY <1>4 DEF RunMaintenance, StartBatch, StartCreateIndex, StartDropIndex
  <2>4. CASE batch' = batch
    BY <2>2, <2>4 DEF InLine, Line
  <2>5. CASE batch' = <<id>>
    <3>1. Elems(batch') = {id} /\ Increasing(batch')
      BY <2>5, SingleQueue
    <3>2. QED
      BY <2>2, <3>1 DEF InLine, Line
  <2>6. QED
    BY <2>3, <2>4, <2>5
<1>5. CASE CollectData
  <2>1. /\ queue # <<>> /\ batch' = Append(batch, Head(queue)) /\ queue' = Tail(queue)
        /\ phase = "collect" /\ UNCHANGED <<pending, phase, finishes>>
    BY <1>5 DEF CollectData, outcome
  <2>2. /\ Head(queue) \in Ids /\ Elems(queue) = {Head(queue)} \cup Elems(queue')
        /\ Increasing(queue') /\ \A w \in Elems(queue') : Head(queue) < w
    BY <1>0, <2>1, TailOfQueue DEF InLine
  <2>3. Elems(batch') = Elems(batch) \cup {Head(queue)} /\ Increasing(batch')
    BY <1>0, <2>1, <2>2, AppendToQueue DEF InLine
  <2>4. pending = 0
    BY <2>1 DEF InLine
  <2>5. QED
    BY <2>1, <2>2, <2>3, <2>4 DEF InLine, Line
<1>6. CASE Begin \/ BeginFails
  <2>1. phase = "collect" /\ EndCollect /\ UNCHANGED finishes /\ phase' # "collect"
    BY <1>6 DEF Begin, BeginFails, outcome
  <2>2. /\ Increasing(queue') /\ Elems(queue') \subseteq Elems(queue)
        /\ pending' # 0 => /\ pending' \in Elems(queue)
                           /\ \A q \in Elems(queue') : pending' < q
    BY <2>1, EndCollectShape
  <2>3. Elems(batch') \subseteq Elems(batch) /\ Increasing(batch')
    BY <1>6, EmptyQueue DEF Begin, BeginFails, InLine
  <2>4. QED
    BY <2>1, <2>2, <2>3 DEF InLine, Line
<1>7. CASE SavepointFails \/ ApplyOp \/ ApplyFails
  <2>1. /\ batch # <<>> /\ batch' = Tail(batch) /\ UNCHANGED <<queue, pending>>
        /\ phase = "ops" /\ phase' = "ops"
    BY <1>7 DEF SavepointFails, ApplyOp, ApplyFails, InOps, clients
  <2>2. Elems(batch') \subseteq Elems(batch) /\ Increasing(batch')
    BY <1>0, <2>1, TailOfQueue DEF InLine
  <2>3. QED
    BY <2>1, <2>2 DEF InLine, Line
<1>8. CASE Commit \/ CommitFails \/ Resolve \/ Broadcast \/ Trim \/ TrimFails
  <2>1. UNCHANGED <<batch, queue, pending>> /\ phase' # "collect"
    BY <1>8 DEF Commit, CommitFails, Resolve, Broadcast, Trim, TrimFails, clients
  <2>2. phase' \notin {"ops", "resolve"} => finishes' = <<>>
    BY <1>8 DEF Commit, CommitFails, Resolve, Broadcast, Trim, TrimFails, outcome, InLine
  <2>3. QED
    BY <2>1, <2>2 DEF InLine, Line
<1>9. CASE MakeIndex \/ MakeIndexRefused \/ ListIndex \/ UnlistIndex \/ IndexStepFails
  <2>1. /\ UNCHANGED <<queue, pending, finishes>> /\ phase' \notin {"collect", "ops", "resolve"}
        /\ phase \notin {"ops", "resolve"}
        /\ batch' = batch \/ batch' = <<>>
    BY <1>9 DEF MakeIndex, MakeIndexRefused, ListIndex, UnlistIndex, IndexStepFails, EndIndex,
                clients, outcome
  <2>2. QED
    BY <2>1, EmptyQueue DEF InLine, Line
<1>10. QED
  <2>1. CASE Step
    BY <2>1, <1>4, <1>5, <1>6, <1>7, <1>8, <1>9 DEF Step
  <2>2. QED
    BY <2>1, <1>1, <1>2, <1>3 DEF Next

LEMMA InLineIsInvariant == Spec => []InLine
<1>1. Init => InLine
  BY EmptyQueue DEF Init, InLine
<1>2. IndInv /\ InLine /\ [Next]_vars => InLine'
  BY LineSteps
<1>3. QED
  BY <1>1, <1>2, IndInvIsInvariant, PTL DEF Spec

-----------------------------------------------------------------------------
(***************************************************************************)
(* A history h is in order, with respect to the requests rs and to those   *)
(* still in line, when its changes were made by different requests, in the *)
(* order of the requests, all of them before those in line.                *)
(***************************************************************************)
InOrder(h, line, rs) ==
    /\ \A i, j \in DOMAIN h : i < j => h[i].req < h[j].req
    /\ \A i \in DOMAIN h :
          /\ h[i].req \in 1 .. Len(rs) /\ i <= h[i].req
          /\ IsBatchable(rs[h[i].req]) /\ h[i].key = rs[h[i].req].key
          /\ \A w \in line : h[i].req < w

Histories == InOrder(db.hist, Line, reqs) /\ InOrder(work.hist, Line, reqs)

LEMMA InOrderStays ==
    ASSUME NEW h \in Seq(Change), NEW line, NEW rest, NEW rs \in Seq(Command),
           NEW more \in Seq(Command), InOrder(h, line, rs),
           Len(rs) <= Len(more), \A i \in 1 .. Len(rs) : more[i] = rs[i],
           \A w \in rest : w \in line \/ (w \in Nat /\ Len(rs) < w)
    PROVE  InOrder(h, rest, more)
<1>1. Len(rs) \in Nat /\ Len(more) \in Nat
  OBVIOUS
<1>2. ASSUME NEW i \in DOMAIN h
      PROVE  /\ h[i].req \in 1 .. Len(more) /\ i <= h[i].req
             /\ IsBatchable(more[h[i].req]) /\ h[i].key = more[h[i].req].key
  BY <1>1 DEF InOrder
<1>3. ASSUME NEW i \in DOMAIN h, NEW w \in rest PROVE h[i].req < w
  <2>1. h[i].req \in 1 .. Len(rs) /\ \A x \in line : h[i].req < x
    BY DEF InOrder
  <2>2. QED
    BY <1>1, <2>1
<1>4. QED
  BY <1>2, <1>3 DEF InOrder

LEMMA InOrderGrows ==
    ASSUME NEW h \in Seq(Change), NEW c \in Change, NEW line, NEW rest, NEW rs \in Seq(Command),
           InOrder(h, line, rs), c.req \in line, c.req \in 1 .. Len(rs),
           IsBatchable(rs[c.req]), c.key = rs[c.req].key,
           rest \subseteq line, \A w \in rest : c.req < w
    PROVE  InOrder(Append(h, c), rest, rs)
<1> DEFINE n == Len(h)
           g == Append(h, c)
<1>1. /\ n \in Nat /\ DOMAIN h = 1 .. n /\ DOMAIN g = 1 .. n + 1 /\ g[n + 1] = c
      /\ \A i \in 1 .. n : g[i] = h[i]
  OBVIOUS
<1> HIDE DEF g, n
<1>2. \A i \in 1 .. n : h[i].req < c.req
  BY <1>1 DEF InOrder
<1>3. n + 1 <= c.req
  <2>1. CASE n = 0
    BY <2>1
  <2>2. CASE n # 0
    <3>1. n \in DOMAIN h /\ n <= h[n].req /\ h[n].req \in 1 .. Len(rs)
      BY <1>1, <2>2 DEF InOrder
    <3>2. h[n].req < c.req
      BY <1>1, <1>2, <2>2
    <3>3. QED
      BY <1>1, <3>1, <3>2
  <2>3. QED
    BY <2>1, <2>2
<1>4. \A i, j \in DOMAIN g : i < j => g[i].req < g[j].req
  <2>1. \A i, j \in 1 .. n : i < j => g[i].req < g[j].req
    BY <1>1 DEF InOrder
  <2>2. \A i \in 1 .. n : g[i].req < g[n + 1].req
    BY <1>1, <1>2
  <2>3. QED
    BY <1>1, <2>1, <2>2
<1>5. ASSUME NEW i \in DOMAIN g
      PROVE  /\ g[i].req \in 1 .. Len(rs) /\ i <= g[i].req
             /\ IsBatchable(rs[g[i].req]) /\ g[i].key = rs[g[i].req].key
             /\ \A w \in rest : g[i].req < w
  <2>1. CASE i \in 1 .. n
    BY <1>1, <2>1 DEF InOrder
  <2>2. CASE i = n + 1
    BY <1>1, <1>3, <2>2
  <2>3. QED
    BY <1>1, <2>1, <2>2
<1>6. QED
  BY <1>4, <1>5 DEF InOrder, g

\* A request keeps its number and its command.
LEMMA RequestsStay ==
    ASSUME IndInv, IndInv', [Next]_vars
    PROVE  /\ reqs \in Seq(Command) /\ reqs' \in Seq(Command)
           /\ Len(reqs) <= Len(reqs') /\ \A i \in 1 .. Len(reqs) : reqs'[i] = reqs[i]
           /\ Ids = 1 .. Len(reqs) /\ Ids' = 1 .. Len(reqs') /\ Ids \subseteq Ids'
<1>0. reqs \in Seq(Command) /\ reqs' \in Seq(Command) /\ Len(reqs) \in Nat
  <2>1. Command' = Command
    BY DEF Command, DataCommand
  <2>2. QED
    BY <2>1 DEF IndInv, TypeOK
<1>1. reqs' = reqs \/ \E cmd \in Command : reqs' = Append(reqs, cmd)
  <2>1. CASE Step
    BY <2>1 DEF Step, RunMaintenance, StartBatch, StartCreateIndex, StartDropIndex, CollectData, Begin,
                BeginFails, SavepointFails, ApplyOp, ApplyFails, Commit, CommitFails, Resolve, Broadcast,
                Trim, TrimFails, MakeIndex, MakeIndexRefused, ListIndex, UnlistIndex, IndexStepFails,
                EndIndex, clients
  <2>2. QED
    BY <2>1 DEF Next, vars, Crash, Submit
<1>2. Len(reqs) <= Len(reqs') /\ \A i \in 1 .. Len(reqs) : reqs'[i] = reqs[i]
  BY <1>0, <1>1
<1>3. QED
  BY <1>0, <1>2 DEF Ids

\* The operation in hand is the first in line, and leaves it.
LEMMA HeadLeaves ==
    ASSUME IndInv, InLine, InOps, batch' = Tail(batch), UNCHANGED <<queue, pending>>
    PROVE  /\ Head(batch) \in Line /\ Head(batch) \in Ids
           /\ Line' \subseteq Line /\ \A w \in Line' : Head(batch) < w
           /\ Head(batch) \notin Line'
<1>1. batch \in Seq(Ids) /\ batch # <<>> /\ Ids \in SUBSET Nat /\ pending \in {0} \cup Ids
  BY LineIsIds DEF InOps
<1>2. /\ Head(batch) \in Ids
      /\ Elems(batch) = {Head(batch)} \cup Elems(batch')
      /\ \A w \in Elems(batch') : Head(batch) < w
  BY <1>1, TailOfQueue DEF InLine
<1>3. Head(batch) \in Elems(batch)
  BY <1>2
<1>4. \A q \in Elems(queue) : Head(batch) < q
  BY <1>3 DEF InLine
<1>5. pending # 0 => Head(batch) < pending
  BY <1>3 DEF InLine
<1>6. \A w \in Line' : Head(batch) < w
  BY <1>2, <1>4, <1>5 DEF Line
<1>7. Head(batch) \notin Line'
  <2>1. Head(batch) \in Nat
    BY <1>1, <1>2
  <2>2. QED
    BY <1>6, <2>1
<1>8. QED
  BY <1>2, <1>3, <1>6, <1>7 DEF Line

LEMMA HistoriesKept ==
    ASSUME IndInv, IndInv', Txn, InLine, Histories, [Next]_vars
    PROVE  Histories'
<1>0. /\ db.hist \in Seq(Change) /\ work.hist \in Seq(Change)
      /\ db'.hist \in Seq(Change) /\ work'.hist \in Seq(Change)
  BY DEF IndInv, TypeOK, Db
<1>1. /\ reqs \in Seq(Command) /\ reqs' \in Seq(Command)
      /\ Len(reqs) <= Len(reqs') /\ \A i \in 1 .. Len(reqs) : reqs'[i] = reqs[i]
      /\ Ids = 1 .. Len(reqs) /\ Ids' = 1 .. Len(reqs')
  BY RequestsStay
<1>2. \A w \in Line' : w \in Line \/ (w \in Nat /\ Len(reqs) < w)
  <2>1. Line' \subseteq Line \cup (Ids' \ Ids)
    BY LineSteps
  <2>2. \A w \in Ids' \ Ids : w \in Nat /\ Len(reqs) < w
    BY <1>1
  <2>3. QED
    BY <2>1, <2>2
<1>3. InOrder(db.hist, Line', reqs') /\ InOrder(work.hist, Line', reqs')
  BY <1>0, <1>1, <1>2, InOrderStays DEF Histories
<1>4. CASE \/ SameData(db', db) /\ SameData(work', work)
           \/ ApplyFails \/ CommitFails \/ Crash
  BY <1>3, <1>4 DEF SameData, Histories, ApplyFails, CommitFails, Crash
<1>5. CASE Commit
  BY <1>3, <1>5 DEF Commit, Histories
<1>6. CASE ApplyOp
  <2>1. CASE Refuses
    BY <1>3, <2>1 DEF Refuses, Histories
  <2>2. ASSUME NEW c \in Change, Makes(c) PROVE Histories'
    <3>1. /\ c.req = Head(batch) /\ c.key = Current.key /\ work'.hist = Append(work.hist, c)
          /\ db' = IF open THEN db ELSE work'
      BY <2>2 DEF Makes
    <3>2. Head(batch) \in Line /\ Head(batch) \in Ids /\ Line' \subseteq Line
          /\ \A w \in Line' : Head(batch) < w
      BY <1>6, HeadLeaves DEF ApplyOp, clients
    <3>3. Current \in DataCommand
      BY <1>6, ApplyShape
    <3>4. IsBatchable(reqs[c.req]) /\ c.key = reqs[c.req].key
      BY <3>1, <3>3 DEF Current, DataCommand, IsBatchable
    <3>5. InOrder(work'.hist, Line', reqs)
      BY <1>0, <1>1, <3>1, <3>2, <3>4, InOrderGrows DEF Histories
    <3>6. reqs' = reqs
      BY <1>6 DEF ApplyOp, clients
    <3>7. QED
      BY <1>3, <3>1, <3>5, <3>6 DEF Histories
  <2>3. QED
    BY <1>6, <2>1, <2>2, ApplyShape
<1>7. QED
  BY <1>4, <1>5, <1>6, DataSteps

LEMMA HistoriesInvariant == Spec => []Histories
<1>1. Init => Histories
  BY DEF Init, Histories, InOrder, EmptyDb
<1>2. IndInv /\ IndInv' /\ Txn /\ InLine /\ Histories /\ [Next]_vars => Histories'
  BY HistoriesKept
<1>3. QED
  BY <1>1, <1>2, IndInvIsInvariant, TxnIsInvariant, InLineIsInvariant, PTL DEF Spec

\* Requests take effect at most once and in the order they were sent, in every
\* instance: whatever the sizes of the channel and of the batches, whatever
\* fails, whatever is put aside, and whenever the process dies.
THEOREM InOrderOfRequests == Spec => []AppliedInOrder
<1>1. Histories => AppliedInOrder
  BY DEF Histories, InOrder, AppliedInOrder
<1>2. QED
  BY <1>1, HistoriesInvariant, PTL

-----------------------------------------------------------------------------
(***************************************************************************)
(* Answers.  A request is answered when it leaves the line without a       *)
(* finish, or by its finish.                                               *)
(***************************************************************************)
Waiting ==
    /\ \A w \in Line : replies[w] = NoReply
    /\ \A n \in DOMAIN finishes : finishes[n].id \in Ids \ Line

LEMMA AnswerShape ==
    ASSUME IndInv, NEW id \in Ids, NEW reply, Answer(id, reply)
    PROVE  /\ replies'[id] = reply
           /\ \A i \in Ids \ {id} : replies'[i] = replies[i]
BY DEF Answer, IndInv, TypeOK

\* One of: nothing new for the request; it left the line with an answer that is
\* not a success; a finish answered it; the process died.
ReplyStep(i) ==
    \/ replies'[i] = replies[i]
    \/ i \in Line /\ i \notin Line' /\ replies'[i] \in Refusals \cup {"ok"}
    \/ Resolve /\ \E n \in DOMAIN finishes :
                      finishes[n].id = i /\ replies'[i] = FinishReply(finishes[n])
    \/ replies'[i] = Lost /\ i \notin Line'

LEMMA ReplySteps ==
    ASSUME IndInv, IndInv', InLine, [Next]_vars, NEW i \in Ids
    PROVE  ReplyStep(i)
<1>0. /\ batch \in Seq(Ids) /\ queue \in Seq(Ids) /\ pending \in {0} \cup Ids /\ Ids \in SUBSET Nat
      /\ replies \in [Ids -> Replies] /\ DOMAIN replies = Ids
  BY LineIsIds DEF IndInv, TypeOK
<1>1. CASE UNCHANGED vars
  BY <1>1 DEF vars, ReplyStep
<1>2. ASSUME NEW cmd \in Command, Submit(cmd) PROVE ReplyStep(i)
  <2>1. replies' = Append(replies, NoReply)
    BY <1>2 DEF Submit
  <2>2. replies \in Seq(Replies) /\ Len(replies) = Len(reqs)
    <3>1. Len(reqs) \in Nat /\ replies \in [1 .. Len(reqs) -> Replies]
      BY <1>0, SMTT(30) DEF IndInv, TypeOK, Ids
    <3>2. QED
      BY <3>1, FunctionIsSeq
  <2>3. i \in 1 .. Len(replies)
    BY <2>2 DEF Ids
  <2>4. QED
    BY <2>1, <2>2, <2>3 DEF ReplyStep
<1>3. CASE Crash
  <2>1. Line' = {}
    BY <1>3, EmptyQueue DEF Crash, Line
  <2>2. replies'[i] = IF replies[i] = NoReply THEN Lost ELSE replies[i]
    BY <1>0, <1>3 DEF Crash
  <2>3. QED
    BY <2>1, <2>2 DEF ReplyStep
<1>4. ASSUME NEW id \in Ids, RunMaintenance(id) \/ StartDropIndex(id), ~UNCHANGED replies
      PROVE  ReplyStep(i)
  <2>1. Take(id) /\ batch' = batch /\ \E r \in {"ok", "absent"} : Answer(id, r)
    BY <1>4 DEF RunMaintenance, StartDropIndex
  <2>2. id \in Line /\ pending' = 0 /\ \A q \in Elems(queue') : id < q
    BY <2>1, TakeShape
  <2>3. \A b \in Elems(batch) : b < id
    <3>1. CASE pending # 0 /\ id = pending
      BY <3>1 DEF InLine
    <3>2. CASE pending = 0 /\ queue # <<>> /\ id = Head(queue)
      <4>1. id \in Elems(queue)
        BY <1>0, <3>2, TailOfQueue
      <4>2. QED
        BY <4>1 DEF InLine
    <3>3. QED
      BY <2>1, <3>1, <3>2 DEF Take
  <2>4. id \notin Line'
    BY <1>0, <2>1, <2>2, <2>3 DEF Line
  <2>5. PICK r \in {"ok", "absent"} : Answer(id, r)
    BY <2>1
  <2>6. replies'[id] = r /\ \A j \in Ids \ {id} : replies'[j] = replies[j]
    BY <2>5, AnswerShape
  <2>7. QED
    BY <2>2, <2>4, <2>6 DEF ReplyStep, Refusals
<1>5. CASE BeginFails
  <2>1. /\ phase = "collect" /\ EndCollect /\ batch' = <<>>
        /\ AnswerAll({batch[n] : n \in DOMAIN batch}, "internal")
    BY <1>5 DEF BeginFails
  <2>2. /\ Elems(queue') \subseteq Elems(queue)
        /\ pending' # 0 => pending' \in Elems(queue)
    BY <2>1, EndCollectShape
  <2>3. replies'[i] = IF i \in Elems(batch) THEN "internal" ELSE replies[i]
    BY <1>0, <2>1 DEF AnswerAll, Elems
  <2>4. ASSUME i \in Elems(batch) PROVE i \in Line /\ i \notin Line'
    <3>1. \A q \in Elems(queue) : i < q
      BY <2>4 DEF InLine
    <3>2. i \notin Elems(queue)
      BY <1>0, <3>1
    <3>3. QED
      BY <2>1, <2>2, <2>4, <3>2, EmptyQueue DEF Line
  <2>5. QED
    BY <2>3, <2>4 DEF ReplyStep, Refusals
<1>6. CASE SavepointFails
  <2>1. Answer(Head(batch), "internal")
    BY <1>6 DEF SavepointFails
  <2>2. Head(batch) \in Ids /\ Head(batch) \in Line /\ \A w \in Line' : Head(batch) < w
    BY <1>6, HeadLeaves DEF SavepointFails
  <2>3. Head(batch) \notin Line'
    BY <1>0, <2>2
  <2>4. replies'[Head(batch)] = "internal" /\ \A j \in Ids \ {Head(batch)} : replies'[j] = replies[j]
    BY <2>1, <2>2, AnswerShape
  <2>5. QED
    BY <2>2, <2>3, <2>4 DEF ReplyStep, Refusals
<1>7. CASE Resolve
  <2>1. replies'[i] = IF Resolved(i) = {} THEN replies[i]
                      ELSE FinishReply(finishes[CHOOSE n \in Resolved(i) : TRUE])
    BY <1>0, <1>7 DEF Resolve
  <2>2. CASE Resolved(i) = {}
    BY <2>1, <2>2 DEF ReplyStep
  <2>3. CASE Resolved(i) # {}
    <3> DEFINE m == CHOOSE n \in Resolved(i) : TRUE
    <3>1. m \in Resolved(i)
      BY <2>3
    <3>2. m \in DOMAIN finishes /\ finishes[m].id = i
      BY <3>1 DEF Resolved
    <3>3. replies'[i] = FinishReply(finishes[m])
      BY <2>1, <2>3
    <3>4. QED
      BY <1>7, <3>2, <3>3 DEF ReplyStep
  <2>4. QED
    BY <2>2, <2>3
<1>8. CASE (MakeIndexRefused \/ ListIndex \/ UnlistIndex \/ IndexStepFails)
  <2>1. /\ phase \in {"make_index", "list_index", "unlist_index"}
        /\ \E r \in Refusals \cup {"ok"} : EndIndex(r)
    BY <1>8 DEF MakeIndexRefused, ListIndex, UnlistIndex, IndexStepFails, Refusals
  <2>2. PICK r \in Refusals \cup {"ok"} : EndIndex(r)
    BY <2>1
  <2>3. batch # <<>> /\ batch[1] \in Ids
    BY <1>0, <2>1 DEF IndInv, Control
  <2>4. batch[1] \in Elems(batch)
    BY <1>0, <2>3 DEF Elems
  <2>5. batch[1] \notin Elems(queue) /\ (pending # 0 => batch[1] # pending)
    <3>1. \A b \in Elems(batch) : (\A q \in Elems(queue) : b < q) /\ (pending # 0 => b < pending)
      BY DEF InLine
    <3>2. (\A q \in Elems(queue) : batch[1] < q) /\ (pending # 0 => batch[1] < pending)
      BY <2>4, <3>1
    <3>3. batch[1] \in Nat
      BY <1>0, <2>3
    <3>4. QED
      BY <3>2, <3>3
  <2>6. batch[1] \in Line /\ batch[1] \notin Line'
    <3>1. batch' = <<>> /\ queue' = queue /\ pending' = pending
      BY <2>2 DEF EndIndex
    <3>2. QED
      BY <2>4, <2>5, <3>1, EmptyQueue DEF Line
  <2>7. replies'[batch[1]] = r /\ \A j \in Ids \ {batch[1]} : replies'[j] = replies[j]
    BY <2>2, <2>3, AnswerShape DEF EndIndex
  <2>8. QED
    BY <2>6, <2>7 DEF ReplyStep
<1>9. CASE UNCHANGED replies
  BY <1>9 DEF ReplyStep
<1>10. QED
  <2>1. ASSUME NEW id \in Ids, StartBatch(id) \/ StartCreateIndex(id) PROVE UNCHANGED replies
    BY <2>1 DEF StartBatch, StartCreateIndex
  <2>2. ASSUME CollectData \/ Begin \/ ApplyOp \/ ApplyFails \/ Commit \/ CommitFails
               \/ Broadcast \/ Trim \/ TrimFails \/ MakeIndex
        PROVE  UNCHANGED replies
    BY <2>2 DEF CollectData, Begin, ApplyOp, ApplyFails, Commit, CommitFails, Broadcast, Trim,
                TrimFails, MakeIndex, clients
  <2>3. CASE Step
    BY <2>3, <2>1, <2>2, <1>4, <1>5, <1>6, <1>7, <1>8, <1>9 DEF Step
  <2>4. QED
    BY <2>3, <1>1, <1>2, <1>3 DEF Next

\* How the finishes of the batch change.
FinishStep ==
    \/ finishes' = finishes
    \/ finishes' = <<>>
    \/ InOps /\ batch' = Tail(batch) /\ UNCHANGED <<queue, pending>> /\ (ApplyOp \/ ApplyFails)
       /\ \E reply \in Accepted \cup Refusals :
             finishes' = Append(finishes, [id |-> Head(batch), reply |-> reply,
                                           firm |-> reply \in Refusals])

LEMMA AcceptedIsNotRefused == Accepted \cap Refusals = {}
BY DEF Accepted, Refusals

LEMMA FinishSteps ==
    ASSUME IndInv, Txn, [Next]_vars
    PROVE  FinishStep
<1>1. CASE UNCHANGED vars \/ Crash \/ \E cmd \in Command : Submit(cmd)
  BY <1>1 DEF vars, Crash, Submit, outcome, FinishStep
<1>2. ASSUME NEW id \in Ids,
             RunMaintenance(id) \/ StartBatch(id) \/ StartCreateIndex(id) \/ StartDropIndex(id)
      PROVE  FinishStep
  BY <1>2 DEF RunMaintenance, StartBatch, StartCreateIndex, StartDropIndex, outcome, FinishStep
<1>3. CASE CollectData \/ Begin \/ BeginFails \/ SavepointFails \/ Commit \/ CommitFails
           \/ Resolve \/ Broadcast \/ Trim \/ TrimFails
  BY <1>3 DEF CollectData, Begin, BeginFails, SavepointFails, Commit, CommitFails,
              Resolve, Broadcast, Trim, TrimFails, outcome, FinishStep
<1>4. CASE MakeIndex \/ MakeIndexRefused \/ ListIndex \/ UnlistIndex \/ IndexStepFails
  BY <1>4 DEF MakeIndex, MakeIndexRefused, ListIndex, UnlistIndex, IndexStepFails, EndIndex,
              outcome, FinishStep
<1>5. CASE ApplyOp
  <2>1. InOps /\ batch' = Tail(batch) /\ UNCHANGED <<queue, pending>>
    BY <1>5 DEF ApplyOp, clients
  <2>2. PICK reply \in Accepted \cup Refusals :
             finishes' = Append(finishes, [id |-> Head(batch), reply |-> reply,
                                           firm |-> reply \in Refusals])
    <3>1. CASE Refuses
      <4>1. PICK reply \in Refusals :
               finishes' = Append(finishes, [id |-> Head(batch), reply |-> reply, firm |-> TRUE])
        BY <3>1 DEF Refuses
      <4>2. (reply \in Refusals) = TRUE
        OBVIOUS
      <4>3. QED
        BY <4>1, <4>2
    <3>2. ASSUME NEW c \in Change, Makes(c)
          PROVE  \E reply \in Accepted \cup Refusals :
                   finishes' = Append(finishes, [id |-> Head(batch), reply |-> reply,
                                                 firm |-> reply \in Refusals])
      <4>1. PICK reply \in Accepted :
               finishes' = Append(finishes, [id |-> Head(batch), reply |-> reply, firm |-> FALSE])
        BY <3>2 DEF Makes
      <4>2. (reply \in Refusals) = FALSE
        BY AcceptedIsNotRefused
      <4>3. QED
        BY <4>1, <4>2
    <3>3. QED
      BY <1>5, <3>1, <3>2, ApplyShape
  <2>3. QED
    BY <1>5, <2>1, <2>2 DEF FinishStep
<1>6. CASE ApplyFails
  <2>1. /\ InOps /\ batch' = Tail(batch) /\ UNCHANGED <<queue, pending>>
        /\ finishes' = Append(finishes, [id |-> Head(batch), reply |-> "internal", firm |-> TRUE])
    BY <1>6 DEF ApplyFails, clients, FinishOf, Unchanged
  <2>2. "internal" \in Refusals /\ ("internal" \in Refusals) = TRUE
    BY DEF Refusals
  <2>3. QED
    BY <1>6, <2>1, <2>2 DEF FinishStep
<1>7. QED
  BY <1>1, <1>2, <1>3, <1>4, <1>5, <1>6 DEF Next, Step

LEMMA NewReply ==
    ASSUME IndInv, [Next]_vars, NEW w \in Ids' \ Ids
    PROVE  replies'[w] = NoReply
<1>1. reqs' # reqs
  BY DEF Ids
<1>2. PICK cmd \in Command : Submit(cmd)
  BY <1>1 DEF Next, Step, vars, Crash, RunMaintenance, StartBatch, StartCreateIndex, StartDropIndex,
              CollectData, Begin, BeginFails, SavepointFails, ApplyOp, ApplyFails, Commit,
              CommitFails, Resolve, Broadcast, Trim, TrimFails, MakeIndex, MakeIndexRefused,
              ListIndex, UnlistIndex, IndexStepFails, EndIndex, clients
<1>3. replies' = Append(replies, NoReply) /\ reqs' = Append(reqs, cmd)
  BY <1>2 DEF Submit
<1>4. reqs \in Seq(Command) /\ Len(reqs) \in Nat /\ replies \in Seq(Replies) /\ Len(replies) = Len(reqs)
  <2>1. reqs \in Seq(Command) /\ Len(reqs) \in Nat /\ replies \in [1 .. Len(reqs) -> Replies]
    BY DEF IndInv, TypeOK, Ids
  <2>2. QED
    BY <2>1, FunctionIsSeq
<1>5. w = Len(reqs) + 1
  BY <1>3, <1>4 DEF Ids
<1>6. QED
  BY <1>3, <1>4, <1>5

LEMMA WaitingKept ==
    ASSUME IndInv, IndInv', Txn, InLine, Waiting, [Next]_vars
    PROVE  Waiting'
<1>0. /\ Line \subseteq Ids /\ Ids \in SUBSET Nat /\ Line' \subseteq Line \cup (Ids' \ Ids)
      /\ Ids \subseteq Ids'
  BY LineIsIds, LineSteps, RequestsStay
<1>1. ASSUME NEW w \in Line' PROVE replies'[w] = NoReply
  <2>1. CASE w \in Line
    <3>1. w \in Ids /\ replies[w] = NoReply
      BY <1>0, <2>1 DEF Waiting
    <3>2. ASSUME NEW n \in DOMAIN finishes PROVE finishes[n].id # w
      BY <2>1 DEF Waiting
    <3>3. QED
      BY <1>1, <3>1, <3>2, ReplySteps DEF ReplyStep
  <2>2. CASE w \notin Line
    BY <1>0, <2>2, NewReply
  <2>3. QED
    BY <2>1, <2>2
<1>2. ASSUME NEW n \in DOMAIN finishes' PROVE finishes'[n].id \in Ids' \ Line'
  <2>1. CASE finishes' = finishes
    BY <1>0, <2>1 DEF Waiting
  <2>2. CASE finishes' = <<>>
    BY <1>2, <2>2
  <2>3. CASE InOps /\ batch' = Tail(batch) /\ UNCHANGED <<queue, pending>>
             /\ \E reply \in Accepted \cup Refusals :
                   finishes' = Append(finishes, [id |-> Head(batch), reply |-> reply,
                                                 firm |-> reply \in Refusals])
    <3>1. PICK f : f.id = Head(batch) /\ finishes' = Append(finishes, f)
      BY <2>3
    <3>2. Head(batch) \in Ids /\ Line' \subseteq Line
      BY <2>3, HeadLeaves
    <3>3. Head(batch) \notin Line'
      BY <2>3, HeadLeaves
    <3>4. finishes \in Seq(Finish)
      BY DEF IndInv, TypeOK
    <3>5. finishes'[n] = f \/ (n \in DOMAIN finishes /\ finishes'[n] = finishes[n])
      BY <1>2, <3>1, <3>4
    <3>6. QED
      BY <1>0, <3>1, <3>2, <3>3, <3>5 DEF Waiting
  <2>4. QED
    BY <2>1, <2>2, <2>3, FinishSteps DEF FinishStep
<1>3. QED
  BY <1>1, <1>2 DEF Waiting

LEMMA WaitingInvariant == Spec => []Waiting
<1>1. Init => Waiting
  BY EmptyQueue DEF Init, Waiting, Line
<1>2. IndInv /\ IndInv' /\ Txn /\ InLine /\ Waiting /\ [Next]_vars => Waiting'
  BY WaitingKept
<1>3. QED
  BY <1>1, <1>2, IndInvIsInvariant, TxnIsInvariant, InLineIsInvariant, PTL DEF Spec

-----------------------------------------------------------------------------
(***************************************************************************)
(* What an answer says of the history.                                     *)
(***************************************************************************)
Applied(h) == {h[i].req : i \in DOMAIN h}

LEMMA AppliedAppend ==
    ASSUME NEW h \in Seq(Change), NEW c \in Change
    PROVE  Applied(Append(h, c)) = Applied(h) \cup {c.req}
<1>1. /\ Len(h) \in Nat /\ DOMAIN h = 1 .. Len(h) /\ DOMAIN Append(h, c) = 1 .. Len(h) + 1
      /\ \A i \in 1 .. Len(h) : Append(h, c)[i] = h[i]
      /\ Append(h, c)[Len(h) + 1] = c
  OBVIOUS
<1>2. QED
  BY <1>1 DEF Applied

\* Nothing that was committed is ever taken back.
LEMMA DbGrows ==
    ASSUME IndInv, Txn, [Next]_vars
    PROVE  Applied(db.hist) \subseteq Applied(db'.hist)
<1>0. db.hist \in Seq(Change) /\ work.hist \in Seq(Change)
  BY DEF IndInv, TypeOK, Db
<1>1. CASE \/ SameData(db', db) /\ SameData(work', work)
           \/ ApplyFails \/ CommitFails \/ Crash
  BY <1>1 DEF SameData, ApplyFails, CommitFails, Crash
<1>2. CASE Commit
  <2>1. db' = work /\ Prefix(db.hist, work.hist)
    BY <1>2 DEF Commit, Txn
  <2>2. \A i \in DOMAIN db.hist : i \in DOMAIN work.hist /\ work.hist[i] = db.hist[i]
    BY <1>0, <2>1 DEF Prefix
  <2>3. QED
    BY <2>1, <2>2 DEF Applied
<1>3. CASE ApplyOp
  <2>1. CASE Refuses
    BY <2>1 DEF Refuses
  <2>2. ASSUME NEW c \in Change, Makes(c)
        PROVE  Applied(db.hist) \subseteq Applied(db'.hist)
    <3>1. work'.hist = Append(work.hist, c) /\ db' = IF open THEN db ELSE work'
      BY <2>2 DEF Makes
    <3>2. ~open => work = db
      BY DEF Txn
    <3>3. Applied(Append(work.hist, c)) = Applied(work.hist) \cup {c.req}
      BY <1>0, AppliedAppend
    <3>4. QED
      BY <3>1, <3>2, <3>3
  <2>3. QED
    BY <1>3, <2>1, <2>2, ApplyShape
<1>4. QED
  BY <1>1, <1>2, <1>3, DataSteps

LEMMA CommittedSteps ==
    ASSUME IndInv, [Next]_vars
    PROVE  \/ committed' = committed /\ (phase = "resolve" => phase' = "resolve")
           \/ committed' = FALSE /\ finishes' = <<>>
           \/ Commit \/ CommitFails
<1>1. CASE UNCHANGED vars \/ Crash \/ \E cmd \in Command : Submit(cmd)
  BY <1>1 DEF vars, Crash, Submit, outcome
<1>2. ASSUME NEW id \in Ids,
             RunMaintenance(id) \/ StartBatch(id) \/ StartCreateIndex(id) \/ StartDropIndex(id)
      PROVE  committed' = committed /\ phase = "idle"
  BY <1>2 DEF RunMaintenance, StartBatch, StartCreateIndex, StartDropIndex, Take, outcome
<1>3. CASE CollectData \/ Begin \/ BeginFails \/ SavepointFails \/ ApplyOp \/ ApplyFails
           \/ Broadcast \/ Trim \/ TrimFails
  BY <1>3 DEF CollectData, Begin, BeginFails, SavepointFails, ApplyOp, ApplyFails,
              InOps, Broadcast, Trim, TrimFails, outcome
<1>4. CASE Resolve
  BY <1>4 DEF Resolve
<1>5. CASE MakeIndex \/ MakeIndexRefused \/ ListIndex \/ UnlistIndex \/ IndexStepFails
  BY <1>5 DEF MakeIndex, MakeIndexRefused, ListIndex, UnlistIndex, IndexStepFails, EndIndex, outcome
<1>6. QED
  BY <1>1, <1>2, <1>3, <1>4, <1>5 DEF Next, Step

(***************************************************************************)
(* A finish that will send a success belongs to a change the connection    *)
(* sees, unless SQLite ended the transaction; then COMMIT will fail.       *)
(***************************************************************************)
Promises ==
    /\ committed => phase = "resolve"
    /\ \A n \in DOMAIN finishes : finishes[n].firm <=> finishes[n].reply \in Refusals
    /\ open \/ committed =>
           \A n \in DOMAIN finishes : ~finishes[n].firm => finishes[n].id \in Applied(work.hist)
    /\ \A id \in Ids : replies[id] \in Accepted => id \in Applied(db.hist)

LEMMA PromisesKept ==
    ASSUME IndInv, IndInv', Txn, InLine, Promises, [Next]_vars
    PROVE  Promises'
<1>0. /\ db.hist \in Seq(Change) /\ work.hist \in Seq(Change) /\ finishes \in Seq(Finish)
      /\ (phase # "ops" => work = db)
  BY DEF IndInv, TypeOK, Db, Control
<1>1. committed' => phase' = "resolve"
  BY CommittedSteps DEF Commit, CommitFails, Promises
<1>2. ASSUME NEW n \in DOMAIN finishes'
      PROVE  finishes'[n].firm <=> finishes'[n].reply \in Refusals
  <2>1. CASE finishes' = finishes \/ finishes' = <<>>
    BY <1>2, <2>1 DEF Promises
  <2>2. ASSUME NEW reply \in Accepted \cup Refusals,
               finishes' = Append(finishes, [id |-> Head(batch), reply |-> reply,
                                             firm |-> reply \in Refusals])
        PROVE  finishes'[n].firm <=> finishes'[n].reply \in Refusals
    <3> DEFINE f == [id |-> Head(batch), reply |-> reply, firm |-> reply \in Refusals]
    <3>1. finishes'[n] = f \/ (n \in DOMAIN finishes /\ finishes'[n] = finishes[n])
      BY <1>0, <1>2, <2>2
    <3>2. f.firm <=> f.reply \in Refusals
      OBVIOUS
    <3> HIDE DEF f
    <3>3. QED
      BY <3>1, <3>2 DEF Promises
  <2>3. QED
    BY <2>1, <2>2, FinishSteps DEF FinishStep
<1>3. ASSUME open' \/ committed', NEW n \in DOMAIN finishes', ~finishes'[n].firm
      PROVE  finishes'[n].id \in Applied(work'.hist)
  <2>1. finishes' # <<>>
    BY <1>3
  <2>2. CASE ApplyOp
    <3>1. open' = open /\ committed' = committed /\ phase = "ops"
      BY <2>2 DEF ApplyOp, InOps
    <3>2. open
      BY <1>3, <3>1 DEF Promises
    <3>3. CASE Refuses
      <4>1. PICK reply \in Refusals :
               finishes' = Append(finishes, [id |-> Head(batch), reply |-> reply, firm |-> TRUE])
        BY <3>3 DEF Refuses
      <4>2. n \in DOMAIN finishes /\ finishes'[n] = finishes[n]
        BY <1>0, <1>3, <4>1
      <4>3. work' = work
        BY <3>3 DEF Refuses
      <4>4. QED
        BY <1>3, <3>2, <4>2, <4>3 DEF Promises
    <3>4. ASSUME NEW c \in Change, Makes(c) PROVE finishes'[n].id \in Applied(work'.hist)
      <4>1. PICK reply \in Accepted :
               finishes' = Append(finishes, [id |-> Head(batch), reply |-> reply, firm |-> FALSE])
        BY <3>4 DEF Makes
      <4>2. \/ finishes'[n].id = Head(batch)
            \/ n \in DOMAIN finishes /\ finishes'[n] = finishes[n]
        BY <1>0, <1>3, <4>1
      <4>3. c.req = Head(batch) /\ Applied(work'.hist) = Applied(work.hist) \cup {c.req}
        BY <1>0, <3>4, AppliedAppend DEF Makes
      <4>4. QED
        BY <1>3, <3>2, <4>2, <4>3 DEF Promises
    <3>5. QED
      BY <2>2, <3>3, <3>4, ApplyShape
  <2>3. CASE ApplyFails
    BY <1>3, <2>3 DEF ApplyFails, InOps, Promises
  <2>4. CASE ~ApplyOp /\ ~ApplyFails
    <3>1. finishes' = finishes
      BY <2>1, <2>4, FinishSteps DEF FinishStep
    <3>2. CASE Commit
      BY <1>3, <3>1, <3>2 DEF Commit, Promises
    <3>3. CASE CommitFails \/ Crash
      BY <1>3, <3>3 DEF CommitFails, Crash
    <3>4. CASE SameData(db', db) /\ SameData(work', work) /\ ~Commit /\ ~CommitFails
      <4>1. ~Begin
        BY <2>1, <3>1 DEF Begin, InLine
      <4>2. committed' => committed
        BY <2>1, <3>4, CommittedSteps
      <4>3. open' => open
        BY <4>1, <2>4, OpenSteps DEF Txn
      <4>4. QED
        BY <1>3, <3>1, <3>4, <4>2, <4>3 DEF Promises, SameData
    <3>5. QED
      BY <2>4, <3>2, <3>3, <3>4, DataSteps
  <2>5. QED
    BY <2>2, <2>3, <2>4
<1>4. ASSUME NEW id \in Ids', replies'[id] \in Accepted PROVE id \in Applied(db'.hist)
  <2>0. "none" \notin Accepted /\ "ok" \notin Accepted /\ "lost" \notin Accepted
        /\ "internal" \notin Accepted
    BY DEF Accepted
  <2>1. id \in Ids
    BY <1>4, <2>0, NewReply DEF NoReply
  <2>2. CASE replies'[id] = replies[id]
    BY <1>4, <2>1, <2>2, DbGrows DEF Promises
  <2>3. ASSUME Resolve, NEW n \in DOMAIN finishes,
               finishes[n].id = id, replies'[id] = FinishReply(finishes[n])
        PROVE  id \in Applied(db'.hist)
    <3>1. committed /\ ~finishes[n].firm
      BY <1>4, <2>0, <2>3, AcceptedIsNotRefused DEF FinishReply, Promises
    <3>2. id \in Applied(work.hist)
      BY <2>3, <3>1 DEF Promises
    <3>3. db' = db /\ work = db
      BY <1>0, <2>3 DEF Resolve, txn
    <3>4. QED
      BY <3>2, <3>3
  <2>4. QED
    BY <1>4, <2>0, <2>1, <2>2, <2>3, ReplySteps, AcceptedIsNotRefused DEF ReplyStep, Lost
<1>5. QED
  BY <1>1, <1>2, <1>3, <1>4 DEF Promises

\* A success answer means the change is committed, then and ever after: for any
\* group commit setting and whatever fails, also when SQLite ends a transaction
\* behind the writer's back and operations go on without one.
THEOREM AnswersAreKept == Spec => []SuccessIsCommitted
<1>1. Init => Promises
  BY DEF Init, Promises, Ids
<1>2. IndInv /\ IndInv' /\ Txn /\ InLine /\ Promises /\ [Next]_vars => Promises'
  BY PromisesKept
<1>3. Promises => SuccessIsCommitted
  BY DEF Promises, Applied, SuccessIsCommitted, Made
<1>4. QED
  BY <1>1, <1>2, <1>3, IndInvIsInvariant, TxnIsInvariant, InLineIsInvariant, PTL DEF Spec

(***************************************************************************)
(* Unless a failed statement can end the transaction ("io"), a refused     *)
(* request is in no history, also while its batch is open.                 *)
(***************************************************************************)
NothingLeft ==
    /\ phase = "ops" => open
    /\ \A n \in DOMAIN finishes :
          /\ finishes[n].firm => finishes[n].id \notin Applied(work.hist)
          /\ ~committed => finishes[n].id \notin Applied(db.hist)
    /\ \A id \in Ids :
          replies[id] \in Refusals => id \notin Applied(db.hist) \cup Applied(work.hist)

LEMMA LineIsNotApplied ==
    ASSUME IndInv, Histories, NEW w \in Line
    PROVE  w \notin Applied(db.hist) \cup Applied(work.hist)
<1>1. w \in Nat
  BY LineIsIds
<1>2. \A i \in DOMAIN db.hist : db.hist[i].req < w
  BY DEF Histories, InOrder
<1>3. \A i \in DOMAIN work.hist : work.hist[i].req < w
  BY DEF Histories, InOrder
<1>4. QED
  BY <1>1, <1>2, <1>3 DEF Applied

LEMMA OpsIsOpen ==
    ASSUME "io" \notin Faults, IndInv, NothingLeft, [Next]_vars, phase' = "ops"
    PROVE  open'
<1>1. CASE UNCHANGED vars \/ \E cmd \in Command : Submit(cmd)
  BY <1>1 DEF vars, Submit, txn, NothingLeft
<1>2. CASE Step
  <2>1. ASSUME NEW id \in Ids
        PROVE  ~RunMaintenance(id) /\ ~StartBatch(id) /\ ~StartCreateIndex(id) /\ ~StartDropIndex(id)
    BY DEF RunMaintenance, StartBatch, StartCreateIndex, StartDropIndex, Take
  <2>2. ~(MakeIndex \/ MakeIndexRefused \/ ListIndex \/ UnlistIndex \/ IndexStepFails)
    BY DEF MakeIndex, MakeIndexRefused, ListIndex, UnlistIndex, IndexStepFails, EndIndex, clients
  <2>3. ~(CollectData \/ BeginFails \/ ApplyFails \/ Commit \/ CommitFails \/ Resolve \/ Broadcast
          \/ Trim \/ TrimFails)
    BY DEF CollectData, BeginFails, ApplyFails, Commit, CommitFails, Resolve, Broadcast, Trim, TrimFails
  <2>4. CASE Begin
    BY <2>4 DEF Begin
  <2>5. CASE SavepointFails \/ ApplyOp
    BY <2>5 DEF SavepointFails, ApplyOp, InOps, txn, NothingLeft
  <2>6. QED
    BY <1>2, <2>1, <2>2, <2>3, <2>4, <2>5 DEF Step
<1>3. QED
  BY <1>1, <1>2 DEF Next, Crash

LEMMA NothingLeftKept ==
    ASSUME "io" \notin Faults, IndInv, IndInv', Txn, InLine, Histories, Waiting, Promises,
           NothingLeft, [Next]_vars
    PROVE  NothingLeft'
<1> DEFINE Seen == Applied(db.hist) \cup Applied(work.hist)
           id == Head(batch)
<1>0. /\ db.hist \in Seq(Change) /\ work.hist \in Seq(Change) /\ finishes \in Seq(Finish)
      /\ (phase # "ops" => work = db)
  BY DEF IndInv, TypeOK, Db, Control
<1>1. ~ApplyFails
  BY DEF ApplyFails
<1>2. phase' = "ops" => open'
  BY OpsIsOpen
<1>3. CASE ApplyOp
  <2>1. /\ id \in Line /\ id \in Ids /\ id \notin Seen /\ replies[id] = NoReply
        /\ \A n \in DOMAIN finishes : finishes[n].id # id
    <3>1. id \in Line /\ id \in Ids
      BY <1>3, HeadLeaves DEF ApplyOp, clients
    <3>2. QED
      BY <3>1, LineIsNotApplied DEF Waiting
  <2>2. /\ open /\ UNCHANGED <<replies, open, committed>> /\ Ids' = Ids
    BY <1>3 DEF ApplyOp, InOps, NothingLeft, clients, Ids
  <2>3. NoReply \notin Refusals
    BY DEF NoReply, Refusals
  <2>4. CASE Refuses
    <3>1. PICK reply \in Refusals :
             finishes' = Append(finishes, [id |-> id, reply |-> reply, firm |-> TRUE])
      BY <2>4 DEF Refuses
    <3>2. ASSUME NEW n \in DOMAIN finishes'
          PROVE  \/ finishes'[n].id = id
                 \/ n \in DOMAIN finishes /\ finishes'[n] = finishes[n]
      BY <1>0, <3>1, <3>2
    <3>3. db' = db /\ work' = work
      BY <2>4 DEF Refuses
    <3> HIDE DEF id
    <3>4. \A n \in DOMAIN finishes' :
             /\ finishes'[n].firm => finishes'[n].id \notin Applied(work'.hist)
             /\ ~committed' => finishes'[n].id \notin Applied(db'.hist)
      BY <2>1, <2>2, <3>2, <3>3 DEF NothingLeft
    <3>5. QED
      BY <1>2, <2>2, <3>3, <3>4 DEF NothingLeft
  <2>5. ASSUME NEW c \in Change, Makes(c) PROVE NothingLeft'
    <3>1. PICK reply \in Accepted :
             finishes' = Append(finishes, [id |-> id, reply |-> reply, firm |-> FALSE])
      BY <2>5 DEF Makes
    <3>2. ASSUME NEW n \in DOMAIN finishes'
          PROVE  \/ finishes'[n].id = id /\ finishes'[n].firm = FALSE
                 \/ n \in DOMAIN finishes /\ finishes'[n] = finishes[n]
      BY <1>0, <3>1, <3>2
    <3>3. db' = db /\ Applied(work'.hist) = Applied(work.hist) \cup {id}
      BY <1>0, <2>2, <2>5, AppliedAppend DEF Makes
    <3> HIDE DEF id
    <3>4. \A n \in DOMAIN finishes' :
             /\ finishes'[n].firm => finishes'[n].id \notin Applied(work'.hist)
             /\ ~committed' => finishes'[n].id \notin Applied(db'.hist)
      BY <2>1, <2>2, <3>2, <3>3 DEF NothingLeft
    <3>5. \A i \in Ids' : replies'[i] \in Refusals =>
                              i \notin Applied(db'.hist) \cup Applied(work'.hist)
      BY <2>1, <2>2, <2>3, <3>3 DEF NothingLeft
    <3>6. QED
      BY <1>2, <3>4, <3>5 DEF NothingLeft
  <2>6. QED
    BY <1>3, <2>4, <2>5, ApplyShape
<1>4. CASE ~ApplyOp
  <2>1. finishes' = finishes \/ finishes' = <<>>
    BY <1>1, <1>4, FinishSteps DEF FinishStep
  <2>2. Applied(db'.hist) \cup Applied(work'.hist) \subseteq Seen
    <3>1. CASE SameData(db', db) /\ SameData(work', work)
      BY <3>1 DEF SameData
    <3>2. CASE CommitFails \/ Crash \/ Commit
      BY <3>2 DEF CommitFails, Crash, Commit
    <3>3. QED
      BY <1>1, <1>4, <3>1, <3>2, DataSteps
  <2>3. ASSUME NEW n \in DOMAIN finishes'
        PROVE  /\ finishes'[n].firm => finishes'[n].id \notin Applied(work'.hist)
               /\ ~committed' => finishes'[n].id \notin Applied(db'.hist)
    <3>0. finishes' = finishes /\ finishes' # <<>> /\ ~Crash
      BY <2>1, <2>3 DEF Crash
    <3>1. CASE SameData(db', db) /\ SameData(work', work) /\ ~Commit /\ ~CommitFails
      <4>1. committed' = committed
        BY <3>0, <3>1, CommittedSteps
      <4>2. QED
        BY <2>3, <3>0, <3>1, <4>1 DEF SameData, NothingLeft
    <3>2. CASE CommitFails
      <4>1. work' = db /\ db' = db /\ ~committed
        BY <3>2 DEF CommitFails, Promises
      <4>2. QED
        BY <2>3, <3>0, <4>1 DEF NothingLeft
    <3>3. CASE Commit
      <4>1. work' = work /\ committed' = TRUE
        BY <3>3 DEF Commit
      <4>2. QED
        BY <2>3, <3>0, <4>1 DEF NothingLeft
    <3>4. QED
      BY <1>1, <1>4, <3>0, <3>1, <3>2, <3>3, DataSteps
  <2>4. ASSUME NEW i \in Ids', replies'[i] \in Refusals
        PROVE  i \notin Applied(db'.hist) \cup Applied(work'.hist)
    <3>0. NoReply \notin Refusals /\ Lost \notin Refusals
      BY DEF NoReply, Lost, Refusals
    <3>1. i \in Ids
      BY <2>4, <3>0, NewReply
    <3>2. i \notin Seen
      <4>1. CASE replies'[i] = replies[i]
        BY <2>4, <3>1, <4>1 DEF NothingLeft
      <4>2. CASE i \in Line
        BY <4>2, LineIsNotApplied
      <4>3. ASSUME Resolve, NEW n \in DOMAIN finishes,
                   finishes[n].id = i, replies'[i] = FinishReply(finishes[n])
            PROVE  i \notin Seen
        <5>1. work = db
          BY <1>0, <4>3 DEF Resolve
        <5>2. CASE finishes[n].firm
          BY <4>3, <5>1, <5>2 DEF NothingLeft
        <5>3. CASE ~finishes[n].firm
          <6>1. finishes[n].reply \notin Refusals
            BY <5>3 DEF Promises
          <6>2. ~committed
            BY <2>4, <4>3, <5>3, <6>1 DEF FinishReply
          <6>3. QED
            BY <4>3, <5>1, <6>2 DEF NothingLeft
        <5>4. QED
          BY <5>2, <5>3
      <4>4. QED
        BY <2>4, <3>0, <3>1, <4>1, <4>2, <4>3, ReplySteps DEF ReplyStep
    <3>3. QED
      BY <2>2, <3>2
  <2>5. QED
    BY <1>2, <2>3, <2>4 DEF NothingLeft
<1>5. QED
  BY <1>3, <1>4

LEMMA NothingLeftInvariant ==
    ASSUME "io" \notin Faults
    PROVE  Spec => [](NothingLeft /\ Promises)
<1>1. Init => NothingLeft /\ Promises
  BY DEF Init, NothingLeft, Promises, Ids
<1>2. IndInv /\ IndInv' /\ Txn /\ InLine /\ Promises /\ [Next]_vars => Promises'
  BY PromisesKept
<1>3. IndInv /\ IndInv' /\ Txn /\ InLine /\ Histories /\ Waiting /\ Promises /\ NothingLeft /\ [Next]_vars
          => NothingLeft'
  BY NothingLeftKept
<1>4. QED
  BY <1>1, <1>2, <1>3, IndInvIsInvariant, TxnIsInvariant, InLineIsInvariant,
     HistoriesInvariant, WaitingInvariant, PTL DEF Spec

\* An error answer means the request left nothing behind: when BEGIN, SAVEPOINT,
\* COMMIT or the trim fail, in any combination, and whenever the process dies.
\* Where a failed statement makes SQLite end the transaction it is not true, and
\* the assumption excludes just that.
THEOREM RefusalsLeaveNothing ==
    ASSUME "io" \notin Faults
    PROVE  Spec => []RefusalLeavesNothing
<1>1. NothingLeft => RefusalLeavesNothing
  BY DEF NothingLeft, Applied, RefusalLeavesNothing, Made
<1>2. QED
  BY <1>1, NothingLeftInvariant, PTL

-----------------------------------------------------------------------------
(***************************************************************************)
(* The documents are what the history amounts to, and every change was     *)
(* legal where it stands.  For the insert of a create this rests on the    *)
(* ids being new: no request before the create, and so no change before    *)
(* its own, named its key.                                                 *)
(***************************************************************************)
FreshKeys ==
    \A i, j \in Ids :
        i < j /\ reqs[j].kind = "create" /\ IsBatchable(reqs[i]) => reqs[i].key # reqs[j].key

ReplayOf(s) == s.docs = Replay(s.hist) /\ Legal(s.hist)

Documents == ReplayOf(db) /\ ReplayOf(work)

LEMMA FreshKeysKept ==
    ASSUME IndInv, FreshKeys, [Next]_vars
    PROVE  FreshKeys'
<1>1. CASE reqs' = reqs
  BY <1>1 DEF FreshKeys, Ids, IsBatchable
<1>2. ASSUME NEW cmd \in Command, Submit(cmd) PROVE FreshKeys'
  <2>1. reqs' = Append(reqs, cmd) /\ (cmd.kind = "create" => Fresh(cmd.key))
    BY <1>2 DEF Submit
  <2>2. reqs \in Seq(Command) /\ Len(reqs) \in Nat
    BY DEF IndInv, TypeOK
  <2>3. /\ Ids = 1 .. Len(reqs) /\ Ids' = 1 .. Len(reqs) + 1
        /\ reqs'[Len(reqs) + 1] = cmd /\ \A i \in Ids : reqs'[i] = reqs[i]
    BY <2>1, <2>2 DEF Ids
  <2>4. ASSUME NEW i \in Ids', NEW j \in Ids', i < j, reqs'[j].kind = "create", IsBatchable(reqs'[i])
        PROVE  reqs'[i].key # reqs'[j].key
    <3>1. i \in Ids /\ reqs'[i] = reqs[i]
      BY <2>2, <2>3, <2>4
    <3>2. CASE j \in Ids
      BY <2>3, <2>4, <3>1, <3>2 DEF FreshKeys, IsBatchable
    <3>3. CASE j = Len(reqs) + 1
      BY <2>1, <2>3, <2>4, <3>1, <3>3 DEF Fresh, IsBatchable
    <3>4. QED
      BY <2>2, <2>3, <3>2, <3>3
  <2>5. QED
    BY <2>4 DEF FreshKeys, IsBatchable
<1>3. reqs' = reqs \/ \E cmd \in Command : Submit(cmd)
  <2>1. CASE Step
    BY <2>1 DEF Step, RunMaintenance, StartBatch, StartCreateIndex, StartDropIndex, CollectData, Begin,
                BeginFails, SavepointFails, ApplyOp, ApplyFails, Commit, CommitFails, Resolve, Broadcast,
                Trim, TrimFails, MakeIndex, MakeIndexRefused, ListIndex, UnlistIndex, IndexStepFails,
                EndIndex, clients
  <2>2. QED
    BY <2>1 DEF Next, vars, Crash
<1>4. QED
  BY <1>1, <1>2, <1>3

\* No change of the history has the key of a create that is being applied.
LEMMA CreateFindsNothing ==
    ASSUME IndInv, Txn, InLine, Histories, FreshKeys, Documents, ApplyOp, Current.kind = "create"
    PROVE  work.docs[Current.key] = NoDoc
<1>1. /\ Head(batch) \in Line /\ Head(batch) \in Ids
  BY HeadLeaves DEF ApplyOp, clients
<1>2. Current \in DataCommand /\ Current = reqs[Head(batch)]
  BY ApplyShape DEF Current
<1>3. Current.key \in Keys
  BY <1>2 DEF DataCommand
<1>4. ASSUME NEW i \in DOMAIN work.hist PROVE work.hist[i].key # Current.key
  <2>1. /\ work.hist[i].req \in Ids /\ IsBatchable(reqs[work.hist[i].req])
        /\ work.hist[i].key = reqs[work.hist[i].req].key /\ work.hist[i].req < Head(batch)
    BY <1>1 DEF Histories, InOrder, Ids
  <2>2. QED
    BY <1>1, <1>2, <2>1 DEF FreshKeys
<1>5. ChangesOf(work.hist, Current.key) = {}
  BY <1>4 DEF ChangesOf
<1>6. QED
  BY <1>3, <1>5 DEF Documents, ReplayOf, Replay, BodyAfter

LEMMA DocumentsKept ==
    ASSUME IndInv, IndInv', Txn, InLine, Histories, FreshKeys, Documents, [Next]_vars
    PROVE  Documents'
<1>0. db \in Db /\ work \in Db /\ work.hist \in Seq(Change)
  BY DEF IndInv, TypeOK, Db
<1>1. CASE SameData(db', db) /\ SameData(work', work)
  BY <1>1 DEF SameData, Documents, ReplayOf
<1>2. CASE ApplyFails \/ CommitFails \/ Crash \/ Commit
  BY <1>2 DEF ApplyFails, CommitFails, Crash, Commit, Documents, ReplayOf
<1>3. CASE ApplyOp
  <2>1. CASE Refuses
    BY <2>1 DEF Refuses, Documents, ReplayOf
  <2>2. ASSUME NEW c \in Change, Makes(c) PROVE Documents'
    <3>1. /\ work'.docs \in [Keys -> Bodies] /\ work'.hist = Append(work.hist, c)
          /\ \A j \in Keys : work'.docs[j] = IF j = c.key THEN c.val ELSE work.docs[j]
          /\ db' = IF open THEN db ELSE work'
      BY <2>2 DEF Makes
    <3>2. c.op = "delete" <=> c.val = NoDoc
      BY <2>2 DEF Makes
    <3>3. c.key = Current.key /\ Current.kind \in {"create", "replace", "delete"}
      BY <1>3, <2>2, ApplyShape DEF Makes, DataCommand
    <3>4. c.op = "insert" <=> work.docs[c.key] = NoDoc
      <4>1. CASE Current.kind = "create"
        <5>1. work.docs[c.key] = NoDoc
          BY <1>3, <3>3, <4>1, CreateFindsNothing
        <5>2. c.op = "insert"
          BY <2>2, <4>1 DEF Makes
        <5>3. QED
          BY <5>1, <5>2
      <4>2. CASE Current.kind # "create"
        BY <2>2, <4>2 DEF Makes
      <4>3. QED
        BY <4>1, <4>2
    <3>5. work.docs = Replay(work.hist) /\ Legal(work.hist)
      BY DEF Documents, ReplayOf
    <3>6. work'.docs = Replay(work'.hist)
      <4>1. c.key \in Keys /\ work.docs \in [Keys -> Bodies]
        BY <1>0 DEF Change, Db
      <4>2. Replay(work'.hist) = [work.docs EXCEPT ![c.key] = c.val]
        BY <1>0, <3>1, <3>5, ReplayAppend
      <4>3. work'.docs = [work.docs EXCEPT ![c.key] = c.val]
        BY <3>1, <4>1
      <4>4. QED
        BY <4>2, <4>3
    <3>7. Legal(work'.hist)
      BY <1>0, <3>1, <3>2, <3>4, <3>5, LegalAppend
    <3>8. QED
      BY <3>1, <3>6, <3>7 DEF Documents, ReplayOf
  <2>3. QED
    BY <1>3, <2>1, <2>2, ApplyShape
<1>4. QED
  BY <1>1, <1>2, <1>3, DataSteps

LEMMA DocumentsInvariant == Spec => []Documents
<1>1. Init => FreshKeys /\ Documents
  <2> SUFFICES ASSUME Init PROVE FreshKeys /\ Documents
    OBVIOUS
  <2>1. FreshKeys
    BY DEF Init, FreshKeys, Ids
  <2>2. db.docs = [k \in Keys |-> NoDoc] /\ db.hist = <<>> /\ work = db
    BY DEF Init, EmptyDb
  <2>3. \A k \in Keys : BodyAfter(<<>>, k) = NoDoc
    BY DEF BodyAfter, ChangesOf
  <2>4. Replay(<<>>) = [k \in Keys |-> NoDoc]
    BY <2>3 DEF Replay
  <2>5. Legal(<<>>)
    BY DEF Legal
  <2>6. QED
    BY <2>1, <2>2, <2>4, <2>5 DEF Documents, ReplayOf
<1>2. IndInv /\ FreshKeys /\ [Next]_vars => FreshKeys'
  BY FreshKeysKept
<1>3. IndInv /\ IndInv' /\ Txn /\ InLine /\ Histories /\ FreshKeys /\ Documents /\ [Next]_vars => Documents'
  BY DocumentsKept
<1>4. QED
  BY <1>1, <1>2, <1>3, IndInvIsInvariant, TxnIsInvariant, InLineIsInvariant, HistoriesInvariant,
     PTL DEF Spec

\* The documents are exactly what the committed changes amount to, for histories
\* of any length and whatever fails.
THEOREM DocumentsAreReplay == Spec => []DocsAreReplay
<1>1. Documents => DocsAreReplay
  BY DEF Documents, ReplayOf, DocsAreReplay
<1>2. QED
  BY <1>1, DocumentsInvariant, PTL

-----------------------------------------------------------------------------
(***************************************************************************)
(* Indexes.  Uniqueness is inductive by itself: an index is made when no   *)
(* two bodies are the same, and a change that would make two is refused.   *)
(***************************************************************************)
Unique(s) == \A x \in s.indexes : ~HasDuplicates(s, x.coll)

LEMMA ChangeKeepsUnique ==
    ASSUME IndInv, Txn, ApplyOp, NEW c \in Change, Makes(c), Unique(work)
    PROVE  Unique(work')
<1>1. /\ \A j \in Keys : work'.docs[j] = IF j = c.key THEN c.val ELSE work.docs[j]
      /\ work'.indexes = work.indexes /\ c.key \in Keys
      /\ c.val # NoDoc => ~Clashes(work, c.key, c.val)
  BY DEF Makes, Change
<1>2. ASSUME NEW x \in work.indexes, NEW j \in Keys, NEW k \in Keys, j # k,
             CollOf[j] = x.coll, CollOf[k] = x.coll,
             work'.docs[j] # NoDoc, work'.docs[j] = work'.docs[k]
      PROVE  FALSE
  <2>1. CASE j # c.key /\ k # c.key
    <3>1. work.docs[j] # NoDoc /\ work.docs[j] = work.docs[k]
      BY <1>1, <1>2, <2>1
    <3>2. HasDuplicates(work, x.coll)
      BY <1>2, <3>1 DEF HasDuplicates
    <3>3. QED
      BY <3>2 DEF Unique
  <2>2. ASSUME NEW other \in Keys \ {c.key}, CollOf[other] = CollOf[c.key],
               x.coll = CollOf[c.key], work.docs[other] = c.val, c.val # NoDoc
        PROVE  FALSE
    <3>1. Clashes(work, c.key, c.val)
      BY <2>2 DEF Clashes
    <3>2. QED
      BY <1>1, <2>2, <3>1
  <2>3. CASE j = c.key
    BY <1>1, <1>2, <2>2, <2>3
  <2>4. CASE k = c.key
    BY <1>1, <1>2, <2>2, <2>4
  <2>5. QED
    BY <2>1, <2>3, <2>4
<1>3. QED
  BY <1>1, <1>2 DEF Unique, HasDuplicates

LEMMA UniqueKept ==
    ASSUME IndInv, Txn, UniqueHolds, [Next]_vars
    PROVE  UniqueHolds'
<1>0. /\ db \in Db /\ work \in Db /\ (phase # "ops" => work = db)
      /\ Unique(db) /\ Unique(work)
  BY DEF IndInv, TypeOK, Control, UniqueHolds, Unique
<1>1. ASSUME NEW s, NEW t, Unique(s), t.docs = s.docs, t.indexes \subseteq s.indexes
      PROVE  Unique(t)
  BY <1>1 DEF Unique, HasDuplicates
<1>2. SUFFICES Unique(db') /\ Unique(work')
  BY DEF UniqueHolds, Unique, HasDuplicates
<1>3. CASE UNCHANGED <<db, work>>
  BY <1>0, <1>3
<1>4. CASE ApplyFails \/ CommitFails \/ Crash \/ Commit
  BY <1>0, <1>4 DEF ApplyFails, CommitFails, Crash, Commit
<1>5. CASE ApplyOp
  <2>1. CASE Refuses
    BY <1>0, <2>1 DEF Refuses
  <2>2. ASSUME NEW c \in Change, Makes(c) PROVE Unique(db') /\ Unique(work')
    <3>1. Unique(work')
      BY <1>0, <1>5, <2>2, ChangeKeepsUnique
    <3>2. QED
      BY <1>0, <2>2, <3>1 DEF Makes
  <2>3. QED
    BY <1>5, <2>1, <2>2, ApplyShape
<1>6. ASSUME db'.docs = db.docs, db'.indexes \subseteq db.indexes, work' = db'
      PROVE  Unique(db') /\ Unique(work')
  BY <1>0, <1>1, <1>6
<1>7. ASSUME NEW id \in Ids, RunMaintenance(id) \/ StartBatch(id) PROVE UNCHANGED <<db, work>>
  BY <1>7 DEF RunMaintenance, StartBatch, txn
<1>8. ASSUME NEW id \in Ids, StartCreateIndex(id)
      PROVE  db'.docs = db.docs /\ db'.indexes \subseteq db.indexes /\ work' = db'
  BY <1>0, <1>8 DEF StartCreateIndex, SetDb, Db
<1>9. ASSUME NEW id \in Ids, StartDropIndex(id), ~UNCHANGED <<db, work>>
      PROVE  db'.docs = db.docs /\ db'.indexes \subseteq db.indexes /\ work' = db'
  <2>1. PICK s : s = [db EXCEPT !.indexes = @ \ Named(@, reqs[id].name)]
    OBVIOUS
  <2>2. db' = s /\ work' = s
    BY <1>9, <2>1 DEF StartDropIndex, SetDb
  <2>3. s.docs = db.docs /\ s.indexes = db.indexes \ Named(db.indexes, reqs[id].name)
    BY <1>0, <2>1 DEF Db
  <2>4. QED
    BY <2>2, <2>3
<1>10. CASE Trim \/ UnlistIndex \/ (ListIndex /\ ~UNCHANGED <<db, work>>)
  <2>1. db'.docs = db.docs /\ db'.indexes \subseteq db.indexes /\ work' = db'
    BY <1>0, <1>10 DEF Trim, TrimmedDb, UnlistIndex, ListIndex, SetDb, Db
  <2>2. QED
    BY <1>6, <2>1
<1>11. CASE MakeIndex
  <2> DEFINE x == IndexOf(InHand)
  <2>1. /\ db'.docs = db.docs /\ db'.indexes = db.indexes \cup {x} /\ work' = db'
        /\ x.coll = InHand.coll /\ ~HasDuplicates(db, InHand.coll)
    BY <1>0, <1>11 DEF MakeIndex, SetDb, Db, IndexOf
  <2> HIDE DEF x
  <2>2. Unique(db')
    BY <1>0, <2>1 DEF Unique, HasDuplicates
  <2>3. QED
    BY <2>1, <2>2
<1>12. CASE CollectData \/ Begin \/ BeginFails \/ SavepointFails \/ Resolve \/ Broadcast \/ TrimFails
            \/ MakeIndexRefused \/ IndexStepFails
  BY <1>3, <1>12 DEF CollectData, Begin, BeginFails, SavepointFails, Resolve, Broadcast, TrimFails,
                     MakeIndexRefused, IndexStepFails, txn
<1>13. CASE UNCHANGED vars \/ \E cmd \in Command : Submit(cmd)
  BY <1>3, <1>13 DEF vars, Submit, txn
<1>14. QED
  BY <1>3, <1>4, <1>5, <1>6, <1>7, <1>8, <1>9, <1>10, <1>11, <1>12, <1>13 DEF Next, Step

\* Whatever is batched, rolled back or refused, two documents of a collection
\* with a unique index never have the same body, in the committed state nor in
\* that of an open transaction.
THEOREM UniqueIndexesHold == Spec => []UniqueHolds
<1>1. Init => UniqueHolds
  BY DEF Init, UniqueHolds, EmptyDb
<1>2. IndInv /\ Txn /\ UniqueHolds /\ [Next]_vars => UniqueHolds'
  BY UniqueKept
<1>3. QED
  BY <1>1, <1>2, IndInvIsInvariant, TxnIsInvariant, PTL DEF Spec

(***************************************************************************)
(* Between the two statements of an index command _indexes is one entry    *)
(* behind; otherwise it lists the indexes that exist.                      *)
(***************************************************************************)
IndexPhase == phase \in {"make_index", "list_index", "unlist_index"}

Listed ==
    /\ work.indexes = db.indexes /\ work.listed = db.listed
    /\ crashes = 0 =>
          /\ phase \notin {"list_index", "unlist_index"} => db.indexes = db.listed
          /\ phase = "list_index" => /\ Named(db.listed, InHand.name) = {}
                                     /\ db.indexes = db.listed \cup {IndexOf(InHand)}
          /\ phase = "unlist_index" => db.indexes = db.listed \ Named(db.listed, InHand.name)

\* Outside the index commands nothing touches an index.
LEMMA IndexSteps ==
    ASSUME IndInv, Txn, Listed, [Next]_vars
    PROVE  \/ /\ db'.indexes = db.indexes /\ db'.listed = db.listed
              /\ work'.indexes = db.indexes /\ work'.listed = db.listed
              /\ \/ crashes' = crashes /\ phase' = phase /\ (IndexPhase => InHand' = InHand)
                 \/ crashes' = crashes /\ ~IndexPhase /\ phase' \notin {"list_index", "unlist_index"}
                 \/ crashes' = crashes + 1
           \/ \E id \in Ids : StartCreateIndex(id) \/ StartDropIndex(id)
           \/ MakeIndex \/ MakeIndexRefused \/ ListIndex \/ UnlistIndex \/ IndexStepFails
<1> DEFINE Kept == /\ db'.indexes = db.indexes /\ db'.listed = db.listed
                   /\ work'.indexes = db.indexes /\ work'.listed = db.listed
<1>0. db \in Db /\ work \in Db /\ work.indexes = db.indexes /\ work.listed = db.listed
  BY DEF IndInv, TypeOK, Listed
<1>1. CASE UNCHANGED vars
  BY <1>0, <1>1 DEF vars, InHand
<1>2. ASSUME NEW cmd \in Command, Submit(cmd)
      PROVE  Kept /\ crashes' = crashes /\ phase' = phase /\ (IndexPhase => InHand' = InHand)
  <2>1. /\ UNCHANGED <<db, work, crashes, phase, batch>> /\ reqs' = Append(reqs, cmd)
    BY <1>2 DEF Submit, txn
  <2>2. IndexPhase => batch # <<>>
    BY DEF IndInv, Control, IndexPhase
  <2>3. reqs \in Seq(Command) /\ batch \in Seq(Ids)
    BY DEF IndInv, TypeOK
  <2>4. batch # <<>> => batch[1] \in 1 .. Len(reqs)
    BY <2>3 DEF Ids
  <2>5. IndexPhase => reqs'[batch[1]] = reqs[batch[1]]
    BY <2>1, <2>2, <2>3, <2>4
  <2>6. QED
    BY <1>0, <2>1, <2>5 DEF InHand
<1>3. CASE Crash
  BY <1>0, <1>3 DEF Crash
<1>4. ASSUME NEW id \in Ids, RunMaintenance(id) \/ StartBatch(id)
      PROVE  /\ Kept /\ crashes' = crashes /\ ~IndexPhase
             /\ phase' \notin {"list_index", "unlist_index"}
  BY <1>0, <1>4 DEF RunMaintenance, StartBatch, Take, txn, IndexPhase
<1>5. CASE CollectData \/ Begin \/ BeginFails \/ SavepointFails \/ Resolve \/ Broadcast \/ TrimFails
  BY <1>0, <1>5 DEF CollectData, Begin, BeginFails, SavepointFails, InOps, Resolve, Broadcast, TrimFails,
              txn, IndexPhase
<1>6. CASE ApplyFails \/ CommitFails \/ Commit
  BY <1>0, <1>6 DEF ApplyFails, InOps, CommitFails, Commit, IndexPhase
<1>7. CASE Trim
  <2>1. Kept
    BY <1>0, <1>7 DEF Trim, TrimmedDb, Db
  <2>2. QED
    BY <1>7, <2>1 DEF Trim, IndexPhase
<1>8. CASE ApplyOp
  <2>1. crashes' = crashes /\ phase = "ops" /\ phase' = phase
    BY <1>8 DEF ApplyOp, InOps
  <2>2. CASE Refuses
    BY <1>0, <2>1, <2>2 DEF Refuses, IndexPhase
  <2>3. ASSUME NEW c \in Change, Makes(c) PROVE Kept
    BY <1>0, <2>3 DEF Makes
  <2>4. QED
    BY <1>8, <2>1, <2>2, <2>3, ApplyShape DEF IndexPhase
<1>9. QED
  BY <1>1, <1>2, <1>3, <1>4, <1>5, <1>6, <1>7, <1>8 DEF Next, Step

LEMMA ListedKept ==
    ASSUME "io" \notin Faults, IndInv, IndInv', Txn, Listed, [Next]_vars
    PROVE  Listed'
<1>0. /\ db \in Db /\ crashes \in Nat /\ crashes' \in Nat
      /\ (phase # "ops" => work = db)
  BY BoundsAssumption DEF IndInv, TypeOK, Control
<1>1. ASSUME /\ db'.indexes = db.indexes /\ db'.listed = db.listed
             /\ work'.indexes = db.indexes /\ work'.listed = db.listed,
             \/ crashes' = crashes /\ phase' = phase /\ (IndexPhase => InHand' = InHand)
             \/ crashes' = crashes /\ ~IndexPhase /\ phase' \notin {"list_index", "unlist_index"}
             \/ crashes' = crashes + 1
      PROVE  Listed'
  <2>1. CASE crashes' = crashes + 1
    BY <1>0, <1>1, <2>1 DEF Listed
  <2>2. CASE crashes' = crashes /\ ~IndexPhase /\ phase' \notin {"list_index", "unlist_index"}
    BY <1>1, <2>2 DEF Listed, IndexPhase
  <2>3. CASE crashes' = crashes /\ phase' = phase /\ (IndexPhase => InHand' = InHand)
    BY <1>1, <2>3 DEF Listed, IndexPhase, Named, IndexOf
  <2>4. QED
    BY <1>1, <2>1, <2>2, <2>3
<1>2. ASSUME NEW id \in Ids, StartCreateIndex(id) PROVE Listed'
  BY <1>0, <1>2 DEF StartCreateIndex, Take, SetDb, Db, Listed
<1>3. ASSUME NEW id \in Ids, StartDropIndex(id) PROVE Listed'
  <2>0. phase = "idle" /\ crashes' = crashes
    BY <1>3 DEF StartDropIndex, Take
  <2>1. CASE Named(db.listed, reqs[id].name) = {}
    BY <1>3, <2>0, <2>1 DEF StartDropIndex, Listed
  <2>2. CASE Named(db.listed, reqs[id].name) # {}
    <3>1. /\ db' = [db EXCEPT !.indexes = @ \ Named(@, reqs[id].name)] /\ work' = db'
          /\ batch' = <<id>> /\ phase' = "unlist_index" /\ reqs' = reqs
      BY <1>3, <2>2 DEF StartDropIndex, SetDb
    <3>2. db'.indexes = db.indexes \ Named(db.indexes, reqs[id].name) /\ db'.listed = db.listed
      BY <1>0, <3>1 DEF Db
    <3>3. InHand' = reqs[id]
      BY <3>1 DEF InHand
    <3>4. crashes = 0 => db.indexes = db.listed
      BY <2>0 DEF Listed
    <3>5. QED
      BY <2>0, <3>1, <3>2, <3>3, <3>4 DEF Listed, Named
  <2>3. QED
    BY <2>1, <2>2
<1>4. CASE MakeIndex
  <2> DEFINE x == IndexOf(InHand)
  <2>1. /\ db' = [db EXCEPT !.indexes = @ \cup {x}] /\ work' = db'
        /\ phase = "make_index" /\ phase' = "list_index" /\ reqs' = reqs /\ batch' = batch
        /\ crashes' = crashes /\ Named(db.indexes, InHand.name) = {}
    BY <1>4 DEF MakeIndex, SetDb, clients
  <2>2. InHand' = InHand /\ x' = x
    BY <2>1 DEF InHand, IndexOf
  <2>3. db'.indexes = db.indexes \cup {x} /\ db'.listed = db.listed
    BY <1>0, <2>1 DEF Db
  <2>4. crashes = 0 => db.indexes = db.listed
    BY <2>1 DEF Listed
  <2> HIDE DEF x
  <2>5. crashes' = 0 => /\ Named(db'.listed, InHand'.name) = {}
                        /\ db'.indexes = db'.listed \cup {x}
    BY <2>1, <2>2, <2>3, <2>4
  <2>6. QED
    BY <2>1, <2>2, <2>5 DEF Listed, Named, x
<1>5. CASE ListIndex
  <2> DEFINE x == IndexOf(InHand)
  <2>0. phase = "list_index" /\ phase' = "idle" /\ crashes' = crashes /\ work = db
    BY <1>0, <1>5 DEF ListIndex, EndIndex
  <2>1. CASE crashes = 0
    <3>1. Named(db.listed, InHand.name) = {} /\ db.indexes = db.listed \cup {x}
      BY <2>0, <2>1 DEF Listed
    <3>2. db' = [db EXCEPT !.listed = @ \cup {x}] /\ work' = db'
      BY <1>5, <3>1 DEF ListIndex, SetDb
    <3> HIDE DEF x
    <3>3. db'.indexes = db.indexes /\ db'.listed = db.listed \cup {x}
      BY <1>0, <3>2 DEF Db
    <3>4. QED
      BY <2>0, <3>1, <3>2, <3>3 DEF Listed
  <2>2. CASE crashes # 0
    <3>1. work' = db'
      BY <1>5, <2>0 DEF ListIndex, SetDb
    <3>2. QED
      BY <2>0, <2>2, <3>1 DEF Listed
  <2>3. QED
    BY <2>1, <2>2
<1>6. CASE UnlistIndex
  <2>1. /\ db' = [db EXCEPT !.listed = @ \ Named(@, InHand.name)] /\ work' = db'
        /\ phase = "unlist_index" /\ phase' = "idle" /\ crashes' = crashes
    BY <1>6 DEF UnlistIndex, SetDb, EndIndex
  <2>2. db'.indexes = db.indexes /\ db'.listed = db.listed \ Named(db.listed, InHand.name)
    BY <1>0, <2>1 DEF Db
  <2>3. crashes = 0 => db.indexes = db.listed \ Named(db.listed, InHand.name)
    BY <2>1 DEF Listed
  <2>4. QED
    BY <2>1, <2>2, <2>3 DEF Listed
<1>7. CASE MakeIndexRefused
  <2>1. phase = "make_index" /\ phase' = "idle" /\ crashes' = crashes /\ UNCHANGED <<db, work>>
    BY <1>7 DEF MakeIndexRefused, EndIndex
  <2>2. QED
    BY <2>1 DEF Listed
<1>8. ~IndexStepFails
  BY DEF IndexStepFails
<1>9. QED
  BY <1>1, <1>2, <1>3, <1>4, <1>5, <1>6, <1>7, <1>8, IndexSteps

\* Unless a statement of an index command fails ("io") or the process dies
\* between two of them, _indexes lists exactly the indexes that exist.
THEOREM IndexesAreListed ==
    ASSUME "io" \notin Faults
    PROVE  Spec => []IndexesInStep
<1>1. Init => Listed
  BY DEF Init, Listed, EmptyDb
<1>2. IndInv /\ IndInv' /\ Txn /\ Listed /\ [Next]_vars => Listed'
  BY ListedKept
<1>3. Listed => IndexesInStep
  BY DEF Listed, IndexesInStep
<1>4. QED
  BY <1>1, <1>2, <1>3, IndInvIsInvariant, TxnIsInvariant, PTL DEF Spec
==============================================================================
