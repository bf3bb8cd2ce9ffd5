----------------------------- MODULE FeedProofs -----------------------------
(***************************************************************************)
(* Theorems about module ChangeFeed, for every instance: any number of     *)
(* subscribers, classes and connections, any capacity of the broadcast     *)
(* channel and any retention.                                              *)
(***************************************************************************)
EXTENDS ChangeFeed, SequenceTheorems, WellFoundedInduction, TLAPS

\* A set of naturals has a least element, one that is bounded has a greatest.
LEMMA LeastOf ==
    ASSUME NEW T \in SUBSET Nat, T # {}
    PROVE  Min(T) \in T /\ \A m \in T : Min(T) <= m
<1>1. IsWellFoundedOn(OpToRel(<, Nat), Nat)
  BY NatLessThanWellFounded
<1>2. PICK n \in T : \A m \in T : ~ (<<m, n>> \in OpToRel(<, Nat))
  BY <1>1, WFMin
<1>3. \A m \in T : ~ (m < n)
  BY <1>2 DEF OpToRel
<1>4. \A m \in T : n <= m
  BY <1>3
<1>5. QED
  BY <1>4 DEF Min

LEMMA GreatestOf ==
    ASSUME NEW b \in Nat, NEW T \in SUBSET (0 .. b), T # {}
    PROVE  Max(T) \in T /\ \A m \in T : m <= Max(T)
<1> DEFINE U == {u \in 0 .. b : b - u \in T}
<1>1. U \in SUBSET Nat
  OBVIOUS
<1>2. \A n \in T : n \in 0 .. b /\ b - n \in 0 .. b /\ b - (b - n) = n
  OBVIOUS
<1>3. \A n \in T : b - n \in U
  BY <1>2
<1>4. U # {}
  BY <1>3
<1>5. Min(U) \in U /\ \A u \in U : Min(U) <= u
  BY <1>1, <1>4, LeastOf
<1> DEFINE n == b - Min(U)
<1>6. n \in T
  BY <1>5
<1>7. Min(U) \in Nat
  BY <1>1, <1>5
<1> HIDE DEF U
<1>8. \A m \in T : m <= n
  BY <1>2, <1>3, <1>5, <1>7
<1>9. \A m \in T : n >= m
  BY <1>2, <1>6, <1>8
<1>10. \E x \in T : \A y \in T : x >= y
  BY <1>6, <1>9
<1>11. Max(T) \in T /\ \A y \in T : Max(T) >= y
  BY <1>10 DEF Max
<1>12. QED
  BY <1>2, <1>11

-----------------------------------------------------------------------------
(***************************************************************************)
(* Types.  _changelog is empty only when nothing was ever committed: the   *)
(* last row is never trimmed.                                              *)
(***************************************************************************)
SourceOK ==
    /\ hist \in Seq(Classes) /\ low \in 0 .. Len(hist) /\ sent \in 0 .. Len(hist)
    /\ low < Len(hist) \/ Len(hist) = 0

SubsOK ==
    /\ stage \in [Subs -> Stages]
    /\ pos \in [Subs -> Nat] /\ maxSent \in [Subs -> Nat]
    /\ resume \in [Subs -> Nat \cup {NoId}] /\ lastId \in [Subs -> Nat \cup {NoId}]
    /\ outbox \in [Subs -> SUBSET Nat]
    /\ stale \in [Subs -> BOOLEAN]
    /\ covered \in [Subs -> SUBSET Nat] /\ excused \in [Subs -> SUBSET Nat]

CountsOK == connects \in [Subs -> 0 .. MaxConnects] /\ resets \in 0 .. MaxResets

Types == SourceOK /\ SubsOK /\ CountsOK

LEMMA TypesIsTypeOK == Types => TypeOK
BY DEF Types, SourceOK, SubsOK, CountsOK, TypeOK

LEMMA GroupIsSeq ==
    ASSUME NEW g \in Groups
    PROVE  g \in Seq(Classes) /\ Len(g) \in Nat /\ Len(g) > 0
<1>1. PICK n \in 1 .. MaxGroup : g \in [1 .. n -> Classes]
  BY DEF Groups
<1>2. n \in Nat /\ n > 0
  OBVIOUS
<1>3. g \in Seq(Classes)
  BY <1>1, <1>2, SeqDef
<1>4. DOMAIN g = 1 .. n /\ Len(g) \in Nat /\ DOMAIN g = 1 .. Len(g)
  BY <1>1, <1>3, LenProperties
<1>5. Len(g) = n
  BY <1>2, <1>4
<1>6. QED
  BY <1>2, <1>3, <1>5

\* What the writer's side does to the source.
Grown(h, g) == Len(h) <= Len(g) /\ \A i \in 1 .. Len(h) : g[i] = h[i]

LEMMA CommitGrows ==
    ASSUME SourceOK, CommitGroup
    PROVE  SourceOK' /\ Grown(hist, hist') /\ low' = low /\ sent' = sent
<1>1. PICK g \in Groups : hist' = hist \o g
  BY DEF CommitGroup
<1>2. g \in Seq(Classes) /\ Len(g) \in Nat /\ Len(g) > 0
  BY GroupIsSeq
<1>3. /\ hist \in Seq(Classes) /\ Len(hist) \in Nat /\ hist' \in Seq(Classes)
      /\ Len(hist') = Len(hist) + Len(g)
      /\ \A i \in 1 .. Len(hist) : hist'[i] = hist[i]
  BY <1>1, <1>2, ConcatProperties DEF SourceOK
<1>4. low' = low /\ sent' = sent
  BY DEF CommitGroup
<1>5. QED
  BY <1>2, <1>3, <1>4 DEF SourceOK, Grown

LEMMA EmitGrows ==
    ASSUME SourceOK, EmitNext
    PROVE  /\ SourceOK' /\ Grown(hist, hist') /\ low' = low /\ sent' = sent + 1
<1>1. hist' = hist /\ low' = low /\ sent' = sent + 1 /\ sent < Len(hist)
  BY DEF EmitNext
<1>2. QED
  BY <1>1 DEF SourceOK, Grown

LEMMA TrimKeeps ==
    ASSUME SourceOK, TrimLog
    PROVE  SourceOK' /\ hist' = hist /\ sent' = sent /\ low < low' /\ low' \in Nat
BY SourceAssumption DEF TrimLog, SourceOK

LEMMA RewindKeeps ==
    ASSUME SourceOK, NEW n \in {0} \cup (low + 1 .. Len(hist) - 1), n < Len(hist),
           hist' = SubSeq(hist, 1, n), low' = IF n = 0 THEN 0 ELSE low, sent' = n
    PROVE  /\ SourceOK' /\ n \in Nat /\ n <= Len(hist) /\ Len(hist') = n
           /\ \A i \in 1 .. n : hist'[i] = hist[i]
<1>1. /\ hist \in Seq(Classes) /\ Len(hist) \in Nat /\ low \in Nat /\ low <= Len(hist)
      /\ n \in Nat /\ n <= Len(hist)
  BY DEF SourceOK
<1>2. /\ hist' \in Seq(Classes) /\ Len(hist') = n
      /\ \A i \in 1 .. n : hist'[i] = hist[i]
  BY <1>1
<1>3. low' \in 0 .. n /\ (low' < n \/ n = 0)
  BY <1>1
<1>4. QED
  BY <1>1, <1>2, <1>3 DEF SourceOK

-----------------------------------------------------------------------------
(***************************************************************************)
(* What holds of each subscriber.  Where the handler is decides what its   *)
(* variables mean; the id of the last change is behind everything that is  *)
(* still in the outbox, and behind the watermark, unless the change it     *)
(* names was undone.                                                       *)
(***************************************************************************)
Placed(s) ==
    /\ stage[s] # "off" => pos[s] <= sent
    /\ stage[s] # "live" => outbox[s] = {}
    /\ stage[s] \in {"attached", "got_max", "got_min"} => resume[s] = lastId[s]
    /\ stage[s] \in {"got_max", "got_min"} => resume[s] # NoId
    /\ ~stale[s] => lastId[s] <= Len(hist)

Marked(s) ==
    /\ stage[s] \in {"got_max", "live"} /\ ~stale[s] => lastId[s] <= maxSent[s]
    /\ stage[s] = "got_max" \/ outbox[s] = {Resync} => maxSent[s] <= Len(hist)
    /\ \/ outbox[s] = {Resync}
       \/ \A i \in outbox[s] :
             lastId[s] < i /\ 1 <= i /\ i <= maxSent[s] /\ i <= Len(hist)

(***************************************************************************)
(* Change i is settled for s: accounted for, or s never asked for it.      *)
(* Settled are the changes up to the last id (Known); those a trimming     *)
(* took between the two reads (Held); and, but for what is in the outbox,  *)
(* those behind the receiver or the watermark of a stream (Behind).        *)
(***************************************************************************)
Settled(s, i) ==
    \/ i \in covered[s] \/ i \in excused[s]
    \/ i \in 1 .. Len(hist) /\ hist[i] \notin Passing[s]

Known(s) ==
    ~stale[s] /\ lastId[s] # NoId => \A i \in 1 .. lastId[s] : Settled(s, i)

Held(s) == stage[s] = "got_min" => \A i \in resume[s] + 1 .. low : i \in excused[s]

Behind(s) ==
    stage[s] = "live" /\ outbox[s] # {Resync} =>
        \A i \in Nat \ {0} :
            i <= pos[s] \/ i <= maxSent[s] => Settled(s, i) \/ i \in outbox[s]

Good(s) == Placed(s) /\ Marked(s) /\ Known(s) /\ Held(s) /\ Behind(s)

IndInv == Types /\ \A s \in Subs : Good(s)

-----------------------------------------------------------------------------
(* Steps that leave a subscriber alone. *)

SameBut(s) ==
    /\ stage'[s] = stage[s] /\ pos'[s] = pos[s] /\ resume'[s] = resume[s]
    /\ maxSent'[s] = maxSent[s] /\ outbox'[s] = outbox[s]
    /\ lastId'[s] = lastId[s] /\ stale'[s] = stale[s]

SameFor(s) == SameBut(s) /\ covered'[s] = covered[s] /\ excused'[s] = excused[s]

LEMMA AtSub ==
    ASSUME Types, NEW s \in Subs
    PROVE  /\ stage[s] \in Stages /\ pos[s] \in Nat /\ maxSent[s] \in Nat
           /\ resume[s] \in Nat \cup {NoId} /\ lastId[s] \in Nat \cup {NoId}
           /\ outbox[s] \in SUBSET Nat /\ stale[s] \in BOOLEAN
           /\ covered[s] \in SUBSET Nat /\ excused[s] \in SUBSET Nat
           /\ hist \in Seq(Classes) /\ Len(hist) \in Nat
           /\ low \in Nat /\ low <= Len(hist) /\ sent \in Nat /\ sent <= Len(hist)
BY DEF Types, SourceOK, SubsOK

LEMMA Undisturbed ==
    ASSUME NEW s \in Subs, Types, Types', Good(s), SameFor(s),
           Grown(hist, hist'), sent <= sent', low' = low
    PROVE  Good(s)'
<1>1. \A i : Settled(s, i) => Settled(s, i)'
  BY AtSub DEF Settled, SameFor, Grown
<1>2. Placed(s)' /\ Marked(s)'
  <2>1. /\ sent \in Nat /\ sent' \in Nat /\ Len(hist) \in Nat /\ Len(hist') \in Nat
        /\ sent <= sent' /\ Len(hist) <= Len(hist')
    BY DEF Types, SourceOK, Grown
  <2>2. \A n \in Int : (n <= sent => n <= sent') /\ (n <= Len(hist) => n <= Len(hist'))
    BY <2>1
  <2>3. pos[s] \in Int /\ lastId[s] \in Int /\ maxSent[s] \in Int /\ \A i \in outbox[s] : i \in Int
    BY AtSub DEF NoId
  <2>4. Placed(s)'
    BY <2>2, <2>3 DEF Good, Placed, SameFor, SameBut
  <2>5. Marked(s)'
    BY <2>2, <2>3 DEF Good, Marked, SameFor, SameBut
  <2>6. QED
    BY <2>4, <2>5
<1>3. Known(s)' /\ Held(s)' /\ Behind(s)'
  BY <1>1 DEF Good, Known, Held, Behind, SameFor, SameBut
<1>4. QED
  BY <1>2, <1>3 DEF Good

\* A subscriber that is off has nothing but the id and what it knows.
LEMMA OffIsGood ==
    ASSUME NEW s \in Subs, Types, Types', stage'[s] = "off", outbox'[s] = {},
           ~stale'[s] => lastId'[s] <= Len(hist'), Known(s)'
    PROVE  Good(s)'
<1>1. Placed(s)' /\ Marked(s)' /\ Held(s)' /\ Behind(s)'
  BY DEF Placed, Marked, Held, Behind
<1>2. QED
  BY <1>1 DEF Good

-----------------------------------------------------------------------------
(* The writer's side. *)

LEMMA WriteKeeps == ASSUME IndInv, Write \/ Emit PROVE IndInv'
<1>1. UNCHANGED <<conn, client, counters>>
  BY DEF Write, Emit
<1>2. SourceOK' /\ Grown(hist, hist') /\ low' = low /\ sent <= sent'
  <2>1. SourceOK
    BY DEF IndInv, Types
  <2>2. CASE Write
    BY <2>1, <2>2, CommitGrows DEF Write, SourceOK
  <2>3. CASE Emit
    BY <2>1, <2>3, EmitGrows DEF Emit, SourceOK
  <2>4. QED
    BY <2>2, <2>3
<1>3. Types'
  BY <1>1, <1>2 DEF IndInv, Types, SubsOK, CountsOK, conn, client, counters
<1>4. ASSUME NEW s \in Subs PROVE Good(s)'
  <2>1. SameFor(s)
    BY <1>1 DEF SameFor, SameBut, conn, client
  <2>2. QED
    BY <1>2, <1>3, <2>1, Undisturbed DEF IndInv
<1>5. QED
  BY <1>3, <1>4 DEF IndInv

LEMMA DropKeeps == ASSUME IndInv, Drop PROVE IndInv'
<1>1. /\ excused' = [s \in Subs |-> Excuse(s)]
      /\ UNCHANGED <<conn, lastId, stale, covered, counters>>
  BY DEF Drop
<1>2. SourceOK' /\ hist' = hist /\ sent' = sent /\ low < low' /\ low' \in Nat
  BY TrimKeeps DEF IndInv, Types, Drop
<1>3. \A s \in Subs : Excuse(s) \in SUBSET Nat
  <2>1. TAKE s \in Subs
  <2>2. resume[s] \in Nat \cup {NoId} /\ excused[s] \in SUBSET Nat
    BY AtSub DEF IndInv
  <2>3. resume[s] + 1 .. low' \subseteq Nat
    BY <1>2, <2>2 DEF NoId
  <2>4. QED
    BY <2>2, <2>3 DEF Excuse
<1>4. excused' \in [Subs -> SUBSET Nat]
  BY <1>1, <1>3
<1>5. Types'
  BY <1>1, <1>2, <1>4 DEF IndInv, Types, SubsOK, CountsOK, conn, counters
<1>6. ASSUME NEW s \in Subs PROVE Good(s)'
  <2>1. SameBut(s) /\ covered'[s] = covered[s] /\ excused'[s] = Excuse(s)
    BY <1>1 DEF SameBut, conn
  <2>2. \A i : Settled(s, i) => Settled(s, i)'
    BY <1>2, <2>1 DEF Settled, Excuse
  <2>3. Placed(s)' /\ Marked(s)' /\ Known(s)' /\ Behind(s)'
    BY <1>2, <2>1, <2>2 DEF IndInv, Good, Placed, Marked, Known, Behind, SameBut
  <2>4. Held(s)'
    BY <2>1 DEF Held, SameBut, Excuse
  <2>5. QED
    BY <2>3, <2>4 DEF Good
<1>7. QED
  BY <1>5, <1>6 DEF IndInv

LEMMA RestartKeeps == ASSUME IndInv, Restart PROVE IndInv'
<1>1. /\ stage' = [s \in Subs |-> "off"] /\ outbox' = [s \in Subs |-> {}]
      /\ sent' = Len(hist) /\ hist' = hist /\ low' = low
      /\ UNCHANGED <<pos, resume, maxSent, client, connects>>
      /\ resets' = resets + 1 /\ resets < MaxResets
  BY DEF Restart, Closed, OpenAgain
<1>2. Types'
  <2>1. SourceOK'
    BY <1>1 DEF IndInv, Types, SourceOK
  <2>2. SubsOK' /\ CountsOK'
    BY <1>1, FeedBoundsAssumption DEF IndInv, Types, SubsOK, CountsOK, client, Stages
  <2>3. QED
    BY <2>1, <2>2 DEF Types
<1>3. ASSUME NEW s \in Subs PROVE Good(s)'
  <2>1. stage'[s] = "off" /\ outbox'[s] = {}
    BY <1>1
  <2>2. \A i : Settled(s, i) => Settled(s, i)'
    BY <1>1 DEF Settled, client
  <2>3. Known(s)' /\ (~stale'[s] => lastId'[s] <= Len(hist'))
    BY <1>1, <2>2 DEF IndInv, Good, Known, Placed, client
  <2>4. QED
    BY <1>2, <2>1, <2>3, OffIsGood DEF IndInv
<1>4. QED
  BY <1>2, <1>3 DEF IndInv

LEMMA RewindKeepsAll == ASSUME IndInv, Rewind PROVE IndInv'
<1>1. PICK n \in {0} \cup (low + 1 .. Len(hist) - 1) :
         /\ n < Len(hist)
         /\ hist' = SubSeq(hist, 1, n)
         /\ low' = IF n = 0 THEN 0 ELSE low
         /\ sent' = n
         /\ covered' = [s \in Subs |-> covered[s] \cap 1 .. n]
         /\ excused' = [s \in Subs |-> excused[s] \cap 1 .. n]
         /\ stale' = [s \in Subs |-> stale[s] \/ lastId[s] > n]
  BY DEF Rewind
<1>2. /\ stage' = [s \in Subs |-> "off"] /\ outbox' = [s \in Subs |-> {}]
      /\ UNCHANGED <<pos, resume, maxSent, lastId, connects>>
      /\ resets' = resets + 1 /\ resets < MaxResets
  BY DEF Rewind, Closed
<1>3. /\ SourceOK' /\ n \in Nat /\ n <= Len(hist) /\ Len(hist') = n
      /\ \A i \in 1 .. n : hist'[i] = hist[i]
  BY <1>1, RewindKeeps DEF IndInv, Types
<1>4. Types'
  <2>1. \A s \in Subs : stale[s] \in BOOLEAN
    BY AtSub DEF IndInv
  <2>2. stale' \in [Subs -> BOOLEAN]
    BY <1>1, <2>1
  <2>3. covered' \in [Subs -> SUBSET Nat] /\ excused' \in [Subs -> SUBSET Nat]
    BY <1>1, AtSub DEF IndInv
  <2>4. SubsOK' /\ CountsOK'
    BY <1>2, <2>2, <2>3, FeedBoundsAssumption DEF IndInv, Types, SubsOK, CountsOK, Stages
  <2>5. QED
    BY <1>3, <2>4 DEF Types
<1>5. ASSUME NEW s \in Subs PROVE Good(s)'
  <2>1. stage'[s] = "off" /\ outbox'[s] = {} /\ lastId'[s] = lastId[s]
    BY <1>2
  <2>2. /\ covered'[s] = covered[s] \cap 1 .. n /\ excused'[s] = excused[s] \cap 1 .. n
        /\ ~stale'[s] => ~stale[s] /\ ~(lastId[s] > n)
    BY <1>1
  <2>3. lastId[s] \in Nat \cup {NoId}
    BY AtSub DEF IndInv
  <2>4. ~stale'[s] => lastId[s] <= n
    BY <1>3, <2>2, <2>3 DEF NoId
  <2>5. \A i \in 1 .. n : Settled(s, i) => Settled(s, i)'
    BY <1>3, <2>2 DEF Settled
  <2>6. Known(s)'
    <3> SUFFICES ASSUME ~stale'[s], lastId'[s] # NoId, NEW i \in 1 .. lastId'[s]
                 PROVE  Settled(s, i)'
      BY DEF Known
    <3>1. i \in 1 .. lastId[s] /\ i \in 1 .. n
      BY <1>3, <2>1, <2>3, <2>4 DEF NoId
    <3>2. Settled(s, i)
      BY <2>1, <2>2, <3>1 DEF IndInv, Good, Known
    <3>3. QED
      BY <2>5, <3>1, <3>2
  <2>7. QED
    BY <1>3, <1>4, <2>1, <2>4, <2>6, OffIsGood DEF IndInv
<1>6. QED
  BY <1>4, <1>5 DEF IndInv

-----------------------------------------------------------------------------
(* The handler and the stream of one subscriber. *)

LEMMA OneSub ==
    ASSUME IndInv, Types', NEW s \in Subs, UNCHANGED source,
           \A t \in Subs \ {s} : SameFor(t), Good(s)'
    PROVE  IndInv'
<1>1. hist' = hist /\ low' = low /\ sent' = sent
  BY DEF source
<1>2. Grown(hist, hist') /\ sent <= sent'
  BY <1>1 DEF Grown, IndInv, Types, SourceOK
<1>3. ASSUME NEW t \in Subs \ {s} PROVE Good(t)'
  BY <1>1, <1>2, <1>3, Undisturbed DEF IndInv
<1>4. QED
  BY <1>3 DEF IndInv

\* Connecting, disconnecting and forgetting.
LEMMA ConnectionKeeps ==
    ASSUME IndInv, NEW s \in Subs, Attach(s) \/ Forget(s) \/ Disconnect(s)
    PROVE  IndInv'
<1>0. UNCHANGED source
  BY DEF Attach, Forget, Disconnect
<1>1. Types'
  <2>1. SourceOK'
    BY <1>0 DEF IndInv, Types, SourceOK, source
  <2>2. SubsOK'
    <3>1. sent \in Nat /\ lastId[s] \in Nat \cup {NoId} /\ {} \in SUBSET Nat /\ SubsOK
      BY AtSub DEF IndInv, Types
    <3>2. CASE Attach(s)
      BY <3>1, <3>2 DEF SubsOK, Attach, client, Stages
    <3>3. CASE Forget(s)
      BY <3>1, <3>3 DEF SubsOK, Forget, conn
    <3>4. CASE Disconnect(s)
      BY <3>1, <3>4 DEF SubsOK, Disconnect, client, Stages
    <3>5. QED
      BY <3>2, <3>3, <3>4
  <2>3. CountsOK'
    BY FeedBoundsAssumption
    DEF IndInv, Types, CountsOK, Attach, Forget, Disconnect, counters
  <2>4. QED
    BY <2>1, <2>2, <2>3 DEF Types
<1>2. \A t \in Subs \ {s} : SameFor(t)
  BY DEF IndInv, Types, SubsOK, SameFor, SameBut, Attach, Forget, Disconnect, conn, client
<1>3. /\ \A i : covered'[s] = covered[s] /\ excused'[s] = excused[s] /\ Settled(s, i) => Settled(s, i)'
      /\ hist' = hist
  BY <1>0 DEF Settled, source
<1>4. CASE Attach(s)
  <2>1. /\ stage'[s] = "attached" /\ pos'[s] = sent /\ resume'[s] = lastId[s]
        /\ outbox'[s] = outbox[s] /\ stage[s] = "off"
        /\ lastId' = lastId /\ stale' = stale /\ covered' = covered /\ excused' = excused
        /\ sent' = sent
    BY <1>4 DEF Attach, client, source, IndInv, Types, SubsOK
  <2>2. Placed(s)'
    BY <1>3, <2>1, AtSub DEF IndInv, Good, Placed
  <2>3. Known(s)'
    BY <1>3, <2>1 DEF IndInv, Good, Known
  <2>4. Marked(s)'
    BY <2>1 DEF IndInv, Good, Placed, Marked, Resync
  <2>5. Held(s)' /\ Behind(s)'
    BY <2>1 DEF Held, Behind
  <2>6. QED
    BY <1>0, <1>1, <1>2, <2>2, <2>3, <2>4, <2>5, OneSub DEF Good
<1>5. CASE Forget(s)
  <2>1. /\ stage'[s] = "off" /\ lastId'[s] = NoId /\ outbox'[s] = {}
    BY <1>5 DEF Forget, conn, IndInv, Types, SubsOK, Good, Placed
  <2>2. Known(s)' /\ lastId'[s] <= Len(hist')
    BY <1>1, <2>1 DEF Known, NoId, Types, SourceOK
  <2>3. QED
    BY <1>0, <1>1, <1>2, <2>1, <2>2, OneSub, OffIsGood DEF IndInv
<1>6. CASE Disconnect(s)
  <2>1. /\ stage'[s] = "off" /\ outbox'[s] = {} /\ UNCHANGED client
    BY <1>6 DEF Disconnect, IndInv, Types, SubsOK
  <2>2. Known(s)' /\ (~stale'[s] => lastId'[s] <= Len(hist'))
    BY <1>3, <2>1 DEF IndInv, Good, Known, Placed, client
  <2>3. QED
    BY <1>0, <1>1, <1>2, <2>1, <2>2, OneSub, OffIsGood DEF IndInv
<1>7. QED
  BY <1>4, <1>5, <1>6

LEMMA ReadMaxKeeps == ASSUME IndInv, NEW s \in Subs, ReadMax(s) PROVE IndInv'
<1>0. /\ UNCHANGED source /\ hist' = hist /\ low' = low /\ sent' = sent
      /\ UNCHANGED <<pos, resume, outbox, lastId, stale, excused, counters>>
      /\ stage[s] = "attached" /\ maxSent' = [maxSent EXCEPT ![s] = Len(hist)]
      /\ IF resume[s] = NoId
         THEN /\ stage' = [stage EXCEPT ![s] = "live"]
              /\ covered' = [covered EXCEPT ![s] = 1 .. Len(hist)]
         ELSE /\ stage' = [stage EXCEPT ![s] = "got_max"] /\ covered' = covered
  BY DEF ReadMax, source
<1>1. Types'
  <2>1. SourceOK' /\ CountsOK'
    BY <1>0 DEF IndInv, Types, SourceOK, CountsOK, counters
  <2>2. Len(hist) \in Nat /\ 1 .. Len(hist) \in SUBSET Nat
    BY DEF IndInv, Types, SourceOK
  <2>3. SubsOK'
    BY <1>0, <2>2 DEF IndInv, Types, SubsOK, Stages
  <2>4. QED
    BY <2>1, <2>3 DEF Types
<1>2. \A t \in Subs \ {s} : SameFor(t)
  BY <1>0 DEF IndInv, Types, SubsOK, SameFor, SameBut
<1>3. /\ maxSent'[s] = Len(hist) /\ pos'[s] = pos[s] /\ resume'[s] = resume[s]
      /\ lastId'[s] = lastId[s] /\ stale'[s] = stale[s] /\ outbox'[s] = outbox[s]
      /\ resume[s] = lastId[s] /\ outbox[s] = {} /\ pos[s] <= sent
      /\ ~stale[s] => lastId[s] <= Len(hist)
  BY <1>0 DEF IndInv, Types, SubsOK, Good, Placed
<1>4. CASE resume[s] = NoId
  <2>1. stage'[s] = "live" /\ covered'[s] = 1 .. Len(hist)
    BY <1>0, <1>4 DEF IndInv, Types, SubsOK
  <2>2. Placed(s)' /\ Known(s)' /\ Held(s)'
    BY <1>0, <1>3, <1>4, <2>1 DEF Placed, Known, Held
  <2>3. Marked(s)'
    BY <1>0, <1>3, <2>1 DEF Marked, Resync
  <2>4. Behind(s)'
    <3>1. pos[s] <= Len(hist)
      BY <1>3, AtSub DEF IndInv
    <3>2. QED
      BY <1>3, <2>1, <3>1, AtSub DEF IndInv, Behind, Settled
  <2>5. QED
    BY <1>0, <1>1, <1>2, <2>2, <2>3, <2>4, OneSub DEF Good
<1>5. CASE resume[s] # NoId
  <2>1. stage'[s] = "got_max" /\ covered'[s] = covered[s] /\ excused'[s] = excused[s]
    BY <1>0, <1>5 DEF IndInv, Types, SubsOK
  <2>2. \A i : Settled(s, i) => Settled(s, i)'
    BY <1>0, <2>1 DEF Settled
  <2>3. Known(s)'
    BY <1>3, <2>2 DEF IndInv, Good, Known
  <2>4. Placed(s)' /\ Held(s)' /\ Behind(s)'
    BY <1>0, <1>3, <1>5, <2>1 DEF Placed, Held, Behind
  <2>5. Marked(s)'
    BY <1>0, <1>3, <2>1, AtSub DEF IndInv, Marked, Resync
  <2>6. QED
    BY <1>0, <1>1, <1>2, <2>3, <2>4, <2>5, OneSub DEF Good
<1>6. QED
  BY <1>4, <1>5

LEMMA ReadMinKeeps == ASSUME IndInv, NEW s \in Subs, ReadMin(s) PROVE IndInv'
<1>0. /\ UNCHANGED source /\ hist' = hist /\ low' = low /\ sent' = sent
      /\ UNCHANGED <<pos, resume, maxSent, client, counters>>
      /\ stage[s] = "got_max"
      /\ IF Predates(resume[s])
         THEN /\ stage' = [stage EXCEPT ![s] = "live"]
              /\ outbox' = [outbox EXCEPT ![s] = {Resync}]
         ELSE /\ stage' = [stage EXCEPT ![s] = "got_min"] /\ outbox' = outbox
  BY DEF ReadMin, source
<1>1. Types'
  <2>1. SourceOK' /\ CountsOK'
    BY <1>0 DEF IndInv, Types, SourceOK, CountsOK, counters
  <2>2. SubsOK'
    BY <1>0 DEF IndInv, Types, SubsOK, Stages, Resync, client
  <2>3. QED
    BY <2>1, <2>2 DEF Types
<1>2. \A t \in Subs \ {s} : SameFor(t)
  BY <1>0 DEF IndInv, Types, SubsOK, SameFor, SameBut, client
<1>3. /\ maxSent'[s] = maxSent[s] /\ pos'[s] = pos[s] /\ resume'[s] = resume[s]
      /\ lastId'[s] = lastId[s] /\ stale'[s] = stale[s]
      /\ covered'[s] = covered[s] /\ excused'[s] = excused[s]
      /\ resume[s] = lastId[s] /\ outbox[s] = {} /\ pos[s] <= sent
      /\ ~stale[s] => lastId[s] <= Len(hist)
      /\ resume[s] # NoId /\ maxSent[s] <= Len(hist)
      /\ ~stale[s] => lastId[s] <= maxSent[s]
  BY <1>0 DEF IndInv, Types, SubsOK, Good, Placed, Marked, client
<1>4. \A i : Settled(s, i) => Settled(s, i)'
  BY <1>0, <1>3 DEF Settled
<1>5. Known(s)'
  BY <1>3, <1>4 DEF IndInv, Good, Known
<1>6. CASE Predates(resume[s])
  <2>1. stage'[s] = "live" /\ outbox'[s] = {Resync}
    BY <1>0, <1>6 DEF IndInv, Types, SubsOK
  <2>2. Placed(s)' /\ Marked(s)' /\ Held(s)' /\ Behind(s)'
    BY <1>0, <1>3, <2>1 DEF Placed, Marked, Held, Behind
  <2>3. QED
    BY <1>0, <1>1, <1>2, <1>5, <2>2, OneSub DEF Good
<1>7. CASE ~Predates(resume[s])
  <2>1. stage'[s] = "got_min" /\ outbox'[s] = {}
    BY <1>0, <1>3, <1>7 DEF IndInv, Types, SubsOK
  <2>2. Placed(s)' /\ Marked(s)' /\ Behind(s)'
    BY <1>0, <1>3, <2>1 DEF Placed, Marked, Behind, Resync
  <2>3. Held(s)'
    <3>1. resume[s] \in Nat /\ low \in Nat /\ Len(hist) \in Nat /\ (low < Len(hist) \/ Len(hist) = 0)
          /\ low <= Len(hist)
      BY <1>3, AtSub DEF IndInv, Types, SourceOK
    <3>2. low <= resume[s]
      <4>1. CASE low < Len(hist)
        <5>1. low + 1 \in Rows
          BY <3>1, <4>1 DEF Rows
        <5>2. ~(resume[s] + 1 < low + 1)
          BY <1>7, <5>1 DEF Predates
        <5>3. QED
          BY <3>1, <5>2
      <4>2. CASE ~(low < Len(hist))
        BY <3>1, <4>2
      <4>3. QED
        BY <4>1, <4>2
    <3>3. QED
      BY <1>0, <1>3, <3>1, <3>2 DEF Held
  <2>4. QED
    BY <1>0, <1>1, <1>2, <1>5, <2>2, <2>3, OneSub DEF Good
<1>8. QED
  BY <1>6, <1>7

LEMMA ReadRowsKeeps == ASSUME IndInv, NEW s \in Subs, ReadRows(s) PROVE IndInv'
<1> DEFINE R == ReplayRows(s)
           M == Max(R \cup {resume[s]})
<1>0. /\ UNCHANGED source /\ hist' = hist /\ low' = low /\ sent' = sent
      /\ UNCHANGED <<pos, resume, lastId, stale, covered, counters>>
      /\ stage[s] = "got_min" /\ stage' = [stage EXCEPT ![s] = "live"]
      /\ maxSent' = [maxSent EXCEPT ![s] = M]
      /\ outbox' = [outbox EXCEPT ![s] = {i \in R : hist[i] \in Passing[s]}]
      /\ excused' = [excused EXCEPT ![s] = @ \cup (IF stale[s] THEN 1 .. resume[s] ELSE {})]
  BY DEF ReadRows, source
<1>1. /\ resume[s] \in Nat /\ resume[s] = lastId[s] /\ outbox[s] = {} /\ pos[s] <= sent
      /\ ~stale[s] => lastId[s] <= Len(hist)
      /\ \A i \in resume[s] + 1 .. low : i \in excused[s]
      /\ Known(s)
  BY <1>0, AtSub DEF IndInv, Good, Placed, Held, NoId
<1>2. /\ low \in Nat /\ Len(hist) \in Nat /\ pos[s] \in Nat /\ sent <= Len(hist) /\ sent \in Nat
      /\ Passing[s] \subseteq Wanted[s] /\ excused[s] \in SUBSET Nat
  BY AtSub, SubsAssumption DEF IndInv
<1>3. /\ \A i \in R : i \in Nat /\ low < i /\ i <= Len(hist) /\ resume[s] < i
      /\ \A i \in Nat : low < i /\ i <= Len(hist) /\ resume[s] < i /\ hist[i] \in Wanted[s] => i \in R
  BY <1>1, <1>2 DEF ReplayRows, Rows
<1>4. M \in R \cup {resume[s]} /\ \A i \in R \cup {resume[s]} : i <= M
  <2>1. R \cup {resume[s]} \in SUBSET (0 .. Len(hist) + resume[s])
    BY <1>1, <1>2, <1>3
  <2>2. Len(hist) + resume[s] \in Nat /\ R \cup {resume[s]} # {}
    BY <1>1, <1>2
  <2> HIDE DEF R
  <2>3. QED
    BY <2>1, <2>2, GreatestOf
<1> HIDE DEF R, M
<1>5. M \in Nat
  BY <1>1, <1>3, <1>4
<1>6. Types'
  <2>1. SourceOK' /\ CountsOK'
    BY <1>0 DEF IndInv, Types, SourceOK, CountsOK, counters
  <2>2. {i \in R : hist[i] \in Passing[s]} \in SUBSET Nat
    BY <1>3
  <2>3. excused[s] \cup (IF stale[s] THEN 1 .. resume[s] ELSE {}) \in SUBSET Nat
    BY <1>1, <1>2
  <2>4. SubsOK'
    BY <1>0, <1>5, <2>2, <2>3 DEF IndInv, Types, SubsOK, Stages
  <2>5. QED
    BY <2>1, <2>4 DEF Types
<1>7. \A t \in Subs \ {s} : SameFor(t)
  BY <1>0 DEF IndInv, Types, SubsOK, SameFor, SameBut
<1>8. /\ stage'[s] = "live" /\ maxSent'[s] = M /\ pos'[s] = pos[s] /\ resume'[s] = resume[s]
      /\ lastId'[s] = lastId[s] /\ stale'[s] = stale[s] /\ covered'[s] = covered[s]
      /\ outbox'[s] = {i \in R : hist[i] \in Passing[s]}
      /\ excused'[s] = excused[s] \cup (IF stale[s] THEN 1 .. resume[s] ELSE {})
  BY <1>0 DEF IndInv, Types, SubsOK
<1>9. \A i : Settled(s, i) => Settled(s, i)'
  BY <1>0, <1>8 DEF Settled
<1>10. Placed(s)' /\ Known(s)' /\ Held(s)'
  BY <1>0, <1>1, <1>8, <1>9 DEF Placed, Known, Held
<1>11. Marked(s)'
  <2>1. Resync \notin outbox'[s]
    BY <1>1, <1>3, <1>8 DEF Resync
  <2>2. \A i \in outbox'[s] : lastId'[s] < i /\ 1 <= i /\ i <= maxSent'[s] /\ i <= Len(hist')
    BY <1>0, <1>1, <1>3, <1>4, <1>8
  <2>3. lastId'[s] <= maxSent'[s]
    BY <1>1, <1>4, <1>8
  <2>4. QED
    BY <1>8, <2>1, <2>2, <2>3 DEF Marked
<1>12. Behind(s)'
  <2> SUFFICES ASSUME NEW i \in Nat \ {0}, i <= pos'[s] \/ i <= maxSent'[s]
               PROVE  Settled(s, i)' \/ i \in outbox'[s]
    BY DEF Behind
  <2>1. CASE i <= resume[s]
    <3>1. CASE stale[s]
      BY <1>1, <1>8, <2>1, <3>1 DEF Settled
    <3>2. CASE ~stale[s]
      <4>1. lastId[s] # NoId /\ i \in 1 .. lastId[s]
        BY <1>1, <2>1 DEF NoId
      <4>2. QED
        BY <1>1, <1>9, <3>2, <4>1 DEF Known
    <3>3. QED
      BY <3>1, <3>2
  <2>2. CASE ~(i <= resume[s])
    <3>1. i <= Len(hist) /\ i \in 1 .. Len(hist) /\ resume[s] < i
      BY <1>1, <1>2, <1>3, <1>4, <1>8, <2>2
    <3>2. CASE i <= low
      BY <1>1, <1>2, <1>8, <3>1, <3>2 DEF Settled
    <3>3. CASE ~(i <= low)
      <4>1. CASE hist[i] \in Passing[s]
        BY <1>2, <1>3, <1>8, <3>1, <3>3, <4>1
      <4>2. CASE hist[i] \notin Passing[s]
        BY <1>0, <3>1, <4>2 DEF Settled
      <4>3. QED
        BY <4>1, <4>2
    <3>4. QED
      BY <3>2, <3>3
  <2>3. QED
    BY <2>1, <2>2
<1>13. QED
  BY <1>0, <1>6, <1>7, <1>10, <1>11, <1>12, OneSub DEF Good

\* What a delivery leaves: types, and the other subscribers.
LEMMA DeliveryShape ==
    ASSUME IndInv, NEW s \in Subs, NEW i \in Nat,
           UNCHANGED <<source, stage, resume, counters>>,
           pos'[s] \in Nat, pos' = [pos EXCEPT ![s] = pos'[s]],
           maxSent'[s] \in Nat, maxSent' = [maxSent EXCEPT ![s] = maxSent'[s]],
           outbox'[s] \in SUBSET Nat, outbox' = [outbox EXCEPT ![s] = outbox'[s]],
           GetChange(s, i) \/ GetResync(s) \/ UNCHANGED client
    PROVE  /\ Types' /\ (\A t \in Subs \ {s} : SameFor(t))
           /\ hist' = hist /\ low' = low /\ sent' = sent
           /\ \A j : Settled(s, j) => Settled(s, j)'
<1>0. hist' = hist /\ low' = low /\ sent' = sent
  BY DEF source
<1>1. SourceOK' /\ CountsOK'
  BY <1>0 DEF IndInv, Types, SourceOK, CountsOK, counters
<1>2. SubsOK
  BY DEF IndInv, Types
<1>3. 1 .. Len(hist) \in SUBSET Nat /\ {i} \in SUBSET Nat
  BY AtSub DEF IndInv
<1>4. CASE GetChange(s, i)
  <2>1. /\ lastId' = [lastId EXCEPT ![s] = i] /\ stale' = [stale EXCEPT ![s] = FALSE]
        /\ covered' = [covered EXCEPT ![s] = @ \cup {i}] /\ excused' = excused
    BY <1>4 DEF GetChange
  <2>2. SubsOK'
    BY <1>2, <1>3, <2>1 DEF SubsOK
  <2>3. \A t \in Subs \ {s} : SameFor(t)
    BY <1>2, <2>1 DEF SubsOK, SameFor, SameBut
  <2>4. \A j : Settled(s, j) => Settled(s, j)'
    BY <1>0, <1>2, <2>1 DEF SubsOK, Settled
  <2>5. QED
    BY <1>0, <1>1, <2>2, <2>3, <2>4 DEF Types
<1>5. CASE GetResync(s) \/ UNCHANGED client
  <2>1. /\ lastId' = lastId /\ stale' = stale /\ excused' = excused
        /\ covered' = [covered EXCEPT ![s] = @ \cup 1 .. Len(hist)] \/ covered' = covered
    BY <1>5 DEF GetResync, client
  <2>2. SubsOK'
    <3>1. covered \in [Subs -> SUBSET Nat] /\ 1 .. Len(hist) \in SUBSET Nat
      BY <1>2, <1>3 DEF SubsOK
    <3>2. covered[s] \cup 1 .. Len(hist) \in SUBSET Nat
      BY <3>1
    <3>3. covered' \in [Subs -> SUBSET Nat]
      <4>1. PICK T : T = covered[s] \cup 1 .. Len(hist)
        OBVIOUS
      <4>2. QED
        BY <2>1, <3>1, <3>2, <4>1
    <3>4. QED
      BY <1>2, <2>1, <3>3 DEF SubsOK
  <2>3. \A t \in Subs \ {s} : SameFor(t)
    BY <1>2, <2>1 DEF SubsOK, SameFor, SameBut
  <2>4. \A j : Settled(s, j) => Settled(s, j)'
    BY <1>0, <1>2, <2>1 DEF SubsOK, Settled
  <2>5. QED
    BY <1>0, <1>1, <2>2, <2>3, <2>4 DEF Types
<1>6. QED
  BY <1>4, <1>5

\* The values of the client after a change and after a resync.
LEMMA ClientAfter ==
    ASSUME IndInv, NEW s \in Subs, NEW i \in Nat
    PROVE  /\ GetChange(s, i) => /\ lastId'[s] = i /\ stale'[s] = FALSE
                                 /\ covered'[s] = covered[s] \cup {i} /\ excused'[s] = excused[s]
           /\ GetResync(s) => /\ lastId'[s] = lastId[s] /\ stale'[s] = stale[s]
                              /\ covered'[s] = covered[s] \cup 1 .. Len(hist)
                              /\ excused'[s] = excused[s]
BY DEF IndInv, Types, SubsOK, GetChange, GetResync

\* The first element of an outbox, and what remains.
LEMMA FirstOf ==
    ASSUME IndInv, NEW s \in Subs, outbox[s] # {}
    PROVE  /\ Min(outbox[s]) \in outbox[s] /\ Min(outbox[s]) \in Nat
           /\ \A i \in outbox[s] : i \in Nat /\ Min(outbox[s]) <= i
           /\ outbox[s] = {Resync} => Min(outbox[s]) = Resync
           /\ outbox[s] # {Resync} => 1 <= Min(outbox[s]) /\ Min(outbox[s]) # Resync
<1>1. outbox[s] \in SUBSET Nat
  BY AtSub DEF IndInv
<1>2. Min(outbox[s]) \in outbox[s] /\ \A i \in outbox[s] : Min(outbox[s]) <= i
  BY <1>1, LeastOf
<1>3. outbox[s] # {Resync} => \A i \in outbox[s] : 1 <= i
  BY DEF IndInv, Good, Marked
<1>4. QED
  BY <1>1, <1>2, <1>3 DEF Resync

LEMMA DeliverKeeps == ASSUME IndInv, NEW s \in Subs, Deliver(s) PROVE IndInv'
<1>m. PICK m \in Nat : m = Min(outbox[s])
  BY FirstOf DEF Deliver
<1>0. /\ stage[s] = "live" /\ outbox[s] # {}
      /\ IF m = Resync THEN GetResync(s) ELSE GetChange(s, m)
      /\ outbox' = [outbox EXCEPT ![s] = @ \ {m}]
      /\ UNCHANGED <<source, stage, pos, resume, maxSent, counters>>
  BY <1>m DEF Deliver
<1>1. /\ m \in outbox[s] /\ m \in Nat /\ \A i \in outbox[s] : i \in Nat /\ m <= i
      /\ outbox[s] = {Resync} => m = Resync
      /\ outbox[s] # {Resync} => 1 <= m /\ m # Resync
  BY <1>0, <1>m, FirstOf
<1>2. /\ outbox'[s] = outbox[s] \ {m} /\ outbox[s] \in SUBSET Nat
      /\ pos'[s] = pos[s] /\ maxSent'[s] = maxSent[s] /\ pos[s] \in Nat /\ maxSent[s] \in Nat
      /\ stage'[s] = "live"
      /\ outbox' = [outbox EXCEPT ![s] = outbox'[s]]
      /\ pos' = [pos EXCEPT ![s] = pos'[s]] /\ maxSent' = [maxSent EXCEPT ![s] = maxSent'[s]]
  BY <1>0 DEF IndInv, Types, SubsOK
<1>3. /\ Types' /\ (\A t \in Subs \ {s} : SameFor(t))
      /\ hist' = hist /\ low' = low /\ sent' = sent
      /\ \A j : Settled(s, j) => Settled(s, j)'
  <2>1. outbox'[s] \in SUBSET Nat /\ pos'[s] \in Nat /\ maxSent'[s] \in Nat
    BY <1>2
  <2>2. GetChange(s, m) \/ GetResync(s)
    BY <1>0
  <2>3. QED
    BY <1>0, <1>1, <1>2, <2>1, <2>2, DeliveryShape
<1>4. /\ pos[s] <= sent /\ sent <= Len(hist) /\ sent \in Nat /\ Len(hist) \in Nat
      /\ ~stale[s] => lastId[s] <= Len(hist)
      /\ ~stale[s] => lastId[s] <= maxSent[s]
  BY <1>0, AtSub DEF IndInv, Good, Placed, Marked
<1>5. Held(s)'
  BY <1>2 DEF Held
<1>6. CASE outbox[s] = {Resync}
  <2>1. /\ lastId'[s] = lastId[s] /\ stale'[s] = stale[s] /\ outbox'[s] = {}
        /\ covered'[s] = covered[s] \cup 1 .. Len(hist)
    BY <1>0, <1>1, <1>2, <1>6, ClientAfter
  <2>2. Placed(s)' /\ Marked(s)'
    BY <1>2, <1>3, <1>4, <2>1 DEF Placed, Marked, Resync
  <2>3. Known(s)'
    BY <1>3, <2>1 DEF IndInv, Good, Known
  <2>4. Behind(s)'
    <3>1. maxSent[s] <= Len(hist)
      BY <1>6 DEF IndInv, Good, Marked
    <3>2. ASSUME NEW i \in Nat \ {0}, i <= pos[s] \/ i <= maxSent[s] PROVE i \in 1 .. Len(hist)
      BY <1>2, <1>4, <3>1, <3>2
    <3>3. QED
      BY <1>2, <2>1, <3>2 DEF Behind, Settled
  <2>5. QED
    BY <1>0, <1>3, <1>5, <2>2, <2>3, <2>4, OneSub DEF Good
<1>7. CASE outbox[s] # {Resync}
  <2>1. /\ lastId'[s] = m /\ stale'[s] = FALSE
        /\ covered'[s] = covered[s] \cup {m}
    BY <1>0, <1>1, <1>7, ClientAfter
  <2>2. /\ 1 <= m /\ m <= maxSent[s] /\ m <= Len(hist)
        /\ \A i \in outbox[s] : 1 <= i /\ i <= maxSent[s] /\ i <= Len(hist)
    BY <1>1, <1>7 DEF IndInv, Good, Marked
  <2>3. Placed(s)'
    BY <1>2, <1>3, <1>4, <2>1, <2>2 DEF Placed
  <2>4. Marked(s)'
    <3>1. Resync \notin outbox'[s]
      BY <1>2, <2>2 DEF Resync
    <3>2. \A i \in outbox'[s] : m < i /\ 1 <= i /\ i <= maxSent[s] /\ i <= Len(hist)
      BY <1>1, <1>2, <2>2
    <3>3. QED
      BY <1>2, <1>3, <2>1, <2>2, <3>1, <3>2 DEF Marked
  <2>5. \A i \in Nat \ {0} : i <= pos[s] \/ i <= maxSent[s] => Settled(s, i) \/ i \in outbox[s]
    BY <1>0, <1>7 DEF IndInv, Good, Behind
  <2>6. Settled(s, m)'
    BY <2>1 DEF Settled
  <2>7. Known(s)'
    <3> SUFFICES ASSUME NEW i \in 1 .. m PROVE Settled(s, i)'
      BY <2>1 DEF Known
    <3>1. i \in Nat \ {0} /\ i <= maxSent[s]
      BY <1>1, <1>2, <2>2
    <3>2. CASE i \in outbox[s]
      <4>1. i = m
        BY <1>1, <3>2
      <4>2. QED
        BY <2>6, <4>1
    <3>3. CASE i \notin outbox[s]
      BY <1>3, <2>5, <3>1, <3>3
    <3>4. QED
      BY <3>2, <3>3
  <2>8. Behind(s)'
    <3> SUFFICES ASSUME NEW i \in Nat \ {0}, i <= pos[s] \/ i <= maxSent[s]
                 PROVE  Settled(s, i)' \/ i \in outbox'[s]
      BY <1>2 DEF Behind
    <3>1. CASE i = m
      BY <2>6, <3>1
    <3>2. CASE i # m
      BY <1>2, <1>3, <2>5, <3>2
    <3>3. QED
      BY <3>1, <3>2
  <2>9. QED
    BY <1>0, <1>3, <1>5, <2>3, <2>4, <2>7, <2>8, OneSub DEF Good
<1>8. QED
  BY <1>6, <1>7

\* The three steps of a stream that follows the channel.
LEMMA FollowKeeps ==
    ASSUME IndInv, NEW s \in Subs, Skip(s) \/ Follow(s) \/ Lag(s)
    PROVE  IndInv'
<1>p. PICK p \in Nat : p = pos[s] + 1
  BY AtSub DEF IndInv
<1>0. /\ stage[s] = "live" /\ outbox[s] = {} /\ pos[s] < sent
      /\ UNCHANGED <<source, stage, resume, outbox, counters>>
  BY DEF Skip, Follow, Lag, Receiving
<1>1. /\ pos[s] \in Nat /\ maxSent[s] \in Nat /\ sent \in Nat /\ sent <= Len(hist) /\ Len(hist) \in Nat
      /\ lastId[s] \in Nat \cup {NoId}
      /\ p \in Nat /\ p <= sent /\ p \in 1 .. Len(hist)
      /\ ~stale[s] => lastId[s] <= Len(hist)
      /\ ~stale[s] => lastId[s] <= maxSent[s]
      /\ Passing[s] \subseteq Wanted[s]
  BY <1>0, <1>p, AtSub, SubsAssumption DEF IndInv, Good, Placed, Marked
<1>2. /\ stage'[s] = "live" /\ outbox'[s] = {} /\ outbox' = [outbox EXCEPT ![s] = outbox'[s]]
      /\ outbox'[s] \in SUBSET Nat /\ hist' = hist /\ sent' = sent
  BY <1>0 DEF IndInv, Types, SubsOK, source
<1>3. \A i \in Nat \ {0} : i <= pos[s] \/ i <= maxSent[s] => Settled(s, i)
  BY <1>0 DEF IndInv, Good, Behind, Resync
<1>4. Held(s)' /\ (outbox'[s] # {Resync})
  BY <1>2 DEF Held
<1>5. CASE Skip(s)
  <2>1. /\ pos' = [pos EXCEPT ![s] = p] /\ maxSent' = maxSent /\ UNCHANGED client
        /\ hist[p] \notin Wanted[s] \/ p <= maxSent[s]
    BY <1>5, <1>p DEF Skip, Skipped, Next1
  <2>2. /\ pos'[s] = p /\ pos' = [pos EXCEPT ![s] = pos'[s]] /\ maxSent'[s] = maxSent[s]
        /\ maxSent' = [maxSent EXCEPT ![s] = maxSent'[s]]
        /\ lastId'[s] = lastId[s] /\ stale'[s] = stale[s]
    BY <2>1 DEF IndInv, Types, SubsOK, client
  <2>3. /\ Types' /\ (\A t \in Subs \ {s} : SameFor(t))
        /\ \A j : Settled(s, j) => Settled(s, j)'
    BY <1>0, <1>1, <1>2, <2>1, <2>2, DeliveryShape
  <2>4. Placed(s)' /\ Marked(s)'
    BY <1>1, <1>2, <1>4, <2>2 DEF Placed, Marked
  <2>5. Known(s)'
    BY <2>2, <2>3 DEF IndInv, Good, Known
  <2>6. Settled(s, p)
    BY <1>1, <1>3, <2>1 DEF Settled
  <2>7. Behind(s)'
    <3> SUFFICES ASSUME NEW i \in Nat \ {0}, i <= p \/ i <= maxSent[s] PROVE Settled(s, i)
      BY <2>2, <2>3 DEF Behind
    <3>1. i <= pos[s] \/ i = p \/ i <= maxSent[s]
      BY <1>1, <1>p
    <3>2. QED
      BY <1>3, <2>6, <3>1
  <2>8. QED
    BY <1>0, <1>4, <2>3, <2>4, <2>5, <2>7, OneSub DEF Good
<1>6. CASE Follow(s)
  <2>1. /\ pos' = [pos EXCEPT ![s] = p] /\ maxSent' = [maxSent EXCEPT ![s] = p]
        /\ IF hist[p] \in Passing[s] THEN GetChange(s, p) ELSE UNCHANGED client
        /\ hist[p] \in Wanted[s] /\ ~(p <= maxSent[s])
    BY <1>6, <1>p DEF Follow, Skipped, Next1
  <2>2. /\ pos'[s] = p /\ pos' = [pos EXCEPT ![s] = pos'[s]] /\ maxSent'[s] = p
        /\ maxSent' = [maxSent EXCEPT ![s] = maxSent'[s]]
    BY <2>1 DEF IndInv, Types, SubsOK
  <2>3. /\ Types' /\ (\A t \in Subs \ {s} : SameFor(t))
        /\ \A j : Settled(s, j) => Settled(s, j)'
    BY <1>0, <1>1, <1>2, <2>1, <2>2, DeliveryShape
  <2>4. /\ lastId'[s] = p /\ stale'[s] = FALSE /\ covered'[s] = covered[s] \cup {p}
        \/ /\ lastId'[s] = lastId[s] /\ stale'[s] = stale[s] /\ hist[p] \notin Passing[s]
    BY <1>1, <2>1, ClientAfter DEF client
  <2>5. Settled(s, p)'
    BY <1>1, <1>2, <2>4 DEF Settled
  <2>6. \A i \in Nat \ {0} : i <= p => Settled(s, i)'
    <3>1. \A i \in Nat \ {0} : i <= p => i <= pos[s] \/ i = p
      BY <1>1, <1>p
    <3>2. QED
      BY <1>3, <2>3, <2>5, <3>1
  <2>7. Placed(s)' /\ Marked(s)'
    <3>1. ~stale'[s] => lastId'[s] <= p /\ lastId'[s] <= Len(hist)
      BY <1>1, <2>1, <2>4 DEF NoId
    <3>2. QED
      BY <1>1, <1>2, <1>4, <2>2, <3>1 DEF Placed, Marked
  <2>8. Known(s)'
    <3>1. CASE lastId'[s] = p
      <4>1. \A i \in 1 .. p : i \in Nat \ {0} /\ i <= p
        BY <1>1
      <4>2. QED
        BY <2>6, <3>1, <4>1 DEF Known
    <3>2. CASE lastId'[s] = lastId[s] /\ stale'[s] = stale[s]
      BY <2>3, <3>2 DEF IndInv, Good, Known
    <3>3. QED
      BY <2>4, <3>1, <3>2
  <2>9. Behind(s)'
    BY <2>2, <2>6 DEF Behind
  <2>10. QED
    BY <1>0, <1>4, <2>3, <2>7, <2>8, <2>9, OneSub DEF Good
<1>7. CASE Lag(s)
  <2>1. /\ pos' = [pos EXCEPT ![s] = sent - ChanCap] /\ maxSent' = maxSent /\ GetResync(s)
        /\ sent - pos[s] > ChanCap
    BY <1>7 DEF Lag, Lagging
  <2>2. /\ pos'[s] = sent - ChanCap /\ pos' = [pos EXCEPT ![s] = pos'[s]] /\ maxSent'[s] = maxSent[s]
        /\ maxSent' = [maxSent EXCEPT ![s] = maxSent'[s]]
    BY <2>1 DEF IndInv, Types, SubsOK
  <2>3. pos'[s] \in Nat /\ pos'[s] <= sent
    BY <1>1, <2>1, <2>2, FeedBoundsAssumption
  <2>4. /\ Types' /\ (\A t \in Subs \ {s} : SameFor(t))
        /\ \A j : Settled(s, j) => Settled(s, j)'
    <3>1. 0 \in Nat /\ maxSent'[s] \in Nat
      BY <1>1, <2>2
    <3>2. QED
      BY <1>0, <1>2, <2>1, <2>2, <2>3, <3>1, DeliveryShape
  <2>5. /\ lastId'[s] = lastId[s] /\ stale'[s] = stale[s]
        /\ covered'[s] = covered[s] \cup 1 .. Len(hist)
    BY <1>1, <2>1, ClientAfter
  <2>6. Placed(s)' /\ Marked(s)'
    BY <1>1, <1>2, <1>4, <2>2, <2>3, <2>5 DEF Placed, Marked
  <2>7. Known(s)'
    BY <2>4, <2>5 DEF IndInv, Good, Known
  <2>8. Behind(s)'
    <3> SUFFICES ASSUME NEW i \in Nat \ {0}, i <= pos'[s] \/ i <= maxSent[s] PROVE Settled(s, i)'
      BY <2>2 DEF Behind
    <3>1. CASE i <= pos'[s]
      <4>1. i \in 1 .. Len(hist)
        BY <1>1, <2>3, <3>1
      <4>2. QED
        BY <2>5, <4>1 DEF Settled
    <3>2. CASE i <= maxSent[s]
      BY <1>3, <2>4, <3>2
    <3>3. QED
      BY <3>1, <3>2
  <2>9. QED
    BY <1>0, <1>4, <2>4, <2>6, <2>7, <2>8, OneSub DEF Good
<1>8. QED
  BY <1>5, <1>6, <1>7

-----------------------------------------------------------------------------
LEMMA IndInvHolds == Spec => []IndInv
<1>1. Init => IndInv
  <2> SUFFICES ASSUME Init PROVE IndInv
    OBVIOUS
  <2>1. <<>> \in Seq(Classes) /\ Len(<<>>) = 0
    OBVIOUS
  <2>2. Types
    BY <2>1, FeedBoundsAssumption
    DEF Init, SourceInit, Types, SourceOK, SubsOK, CountsOK, Stages, NoId
  <2>3. ASSUME NEW s \in Subs PROVE Good(s)
    BY <2>1 DEF Init, SourceInit, Good, Placed, Marked, Known, Held, Behind, NoId, Resync
  <2>4. QED
    BY <2>2, <2>3 DEF IndInv
<1>2. IndInv /\ [Next]_feedVars => IndInv'
  <2> SUFFICES ASSUME IndInv, [Next]_feedVars PROVE IndInv'
    OBVIOUS
  <2>1. CASE Write \/ Emit \/ Drop \/ Restart \/ Rewind
    BY <2>1, WriteKeeps, DropKeeps, RestartKeeps, RewindKeepsAll
  <2>2. ASSUME NEW s \in Subs, Attach(s) \/ Forget(s) \/ Serve(s) \/ Disconnect(s) PROVE IndInv'
    BY <2>2, ConnectionKeeps, ReadMaxKeeps, ReadMinKeeps, ReadRowsKeeps, DeliverKeeps, FollowKeeps
    DEF Serve
  <2>3. CASE UNCHANGED feedVars
    <3>1. Types'
      BY <2>3 DEF feedVars, source, conn, client, counters, IndInv, Types, SourceOK, SubsOK, CountsOK
    <3>2. ASSUME NEW s \in Subs PROVE Good(s)'
      <4>1. Grown(hist, hist') /\ sent <= sent' /\ low' = low
        BY <2>3, AtSub DEF feedVars, source, IndInv, Grown
      <4>2. SameFor(s)
        BY <2>3 DEF feedVars, conn, client, SameFor, SameBut
      <4>3. QED
        BY <3>1, <4>1, <4>2, Undisturbed DEF IndInv
    <3>3. QED
      BY <3>1, <3>2 DEF IndInv
  <2>4. QED
    BY <2>1, <2>2, <2>3 DEF Next
<1>3. QED
  BY <1>1, <1>2, PTL DEF Spec

\* The rows of _changelog and the broadcasts lie within the history, for any
\* number of subscribers and histories of any length.
THEOREM FeedTypeCorrect == Spec => []TypeOK
<1>1. IndInv => TypeOK
  BY TypesIsTypeOK DEF IndInv
<1>2. QED
  BY <1>1, IndInvHolds, PTL

\* A subscriber that follows the channel has missed nothing silently, but for the
\* two holes: for any capacity of the channel, any retention and any filter.
THEOREM GapsAreExplained == Spec => []GapsExplained
<1>1. IndInv => GapsExplained
  <2> SUFFICES ASSUME IndInv, NEW s \in Subs, Following(s), NEW i \in Owed(s)
               PROVE  i \in covered[s] \cup excused[s]
    BY DEF GapsExplained
  <2>1. /\ stage[s] = "live" /\ outbox[s] = {} /\ i \in 1 .. pos[s] /\ hist[i] \in Passing[s]
    BY DEF Following, Owed
  <2>2. i \in Nat \ {0} /\ i <= pos[s]
    BY <2>1, AtSub DEF IndInv
  <2>3. Settled(s, i)
    BY <2>1, <2>2 DEF IndInv, Good, Behind, Resync
  <2>4. QED
    BY <2>1, <2>3 DEF Settled
<1>2. QED
  BY <1>1, IndInvHolds, PTL

\* What a client receives comes in the order of the ids, across replay, live
\* stream, lag, reconnection and restart, unless a rewind undid the change whose
\* id it resumes from.
THEOREM DeliveredInOrder == Spec => OnceInOrder
<1> DEFINE Ahead(s) == lastId'[s] \in {lastId[s], NoId} \/ stale[s] \/ lastId'[s] > lastId[s]
<1>1. IndInv /\ [Next]_feedVars => \A s \in Subs : Ahead(s)
  <2> SUFFICES ASSUME IndInv, [Next]_feedVars, NEW s \in Subs PROVE Ahead(s)
    OBVIOUS
  <2>1. CASE Write \/ Emit \/ Drop \/ Restart \/ Rewind \/ UNCHANGED feedVars
    BY <2>1 DEF Write, Emit, Drop, Restart, Rewind, feedVars, client
  <2>2. ASSUME NEW t \in Subs \ {s}, Attach(t) \/ Forget(t) \/ Serve(t) \/ Disconnect(t)
        PROVE  Ahead(s)
    BY <2>2 DEF IndInv, Types, SubsOK, Attach, Forget, Disconnect, Serve, ReadMax, ReadMin, ReadRows,
                Deliver, Skip, Follow, Lag, GetChange, GetResync, client
  <2>3. CASE Attach(s) \/ ReadMax(s) \/ ReadMin(s) \/ ReadRows(s) \/ Skip(s) \/ Lag(s) \/ Disconnect(s)
    BY <2>3 DEF Attach, ReadMax, ReadMin, ReadRows, Skip, Lag, Disconnect, GetResync, client
  <2>4. CASE Forget(s)
    BY <2>4 DEF IndInv, Types, SubsOK, Forget
  <2>5. CASE Deliver(s)
    <3>1. Min(outbox[s]) \in outbox[s] /\ Min(outbox[s]) \in Nat
          /\ (outbox[s] = {Resync} => Min(outbox[s]) = Resync)
      BY <2>5, FirstOf DEF Deliver
    <3>2. CASE Min(outbox[s]) = Resync
      BY <2>5, <3>2 DEF Deliver, GetResync
    <3>3. CASE Min(outbox[s]) # Resync
      <4>1. lastId'[s] = Min(outbox[s])
        BY <2>5, <3>1, <3>3, ClientAfter DEF Deliver
      <4>2. lastId[s] < Min(outbox[s])
        BY <3>1, <3>3 DEF IndInv, Good, Marked
      <4>3. lastId[s] \in Int
        BY AtSub DEF IndInv, NoId
      <4>4. QED
        BY <3>1, <4>1, <4>2, <4>3
    <3>4. QED
      BY <3>2, <3>3
  <2>6. CASE Follow(s)
    <3>1. /\ stage[s] = "live" /\ ~(pos[s] + 1 <= maxSent[s])
          /\ GetChange(s, pos[s] + 1) \/ UNCHANGED client
      BY <2>6 DEF Follow, Receiving, Skipped, Next1
    <3>2. /\ pos[s] \in Nat /\ maxSent[s] \in Nat /\ lastId[s] \in Int
          /\ stale[s] \/ lastId[s] <= maxSent[s]
      BY <3>1, AtSub DEF IndInv, NoId, Good, Marked
    <3>3. CASE GetChange(s, pos[s] + 1)
      <4>1. lastId'[s] = pos[s] + 1
        <5>1. pos[s] + 1 \in Nat
          BY <3>2
        <5>2. QED
          BY <3>3, <5>1, ClientAfter
      <4>2. QED
        BY <3>1, <3>2, <4>1
    <3>4. QED
      BY <3>1, <3>3 DEF client
  <2>7. QED
    BY <2>1, <2>2, <2>3, <2>4, <2>5, <2>6 DEF Next, Serve
<1>2. IndInv /\ [Next]_feedVars
        => [\A s \in Subs : lastId'[s] \notin {lastId[s], NoId}
                               => stale[s] \/ lastId'[s] > lastId[s]]_feedVars
  BY <1>1
<1>3. QED
  BY <1>2, IndInvHolds, PTL DEF Spec, OnceInOrder
=============================================================================
