---------------------------- MODULE QueryProofs ----------------------------
(***************************************************************************)
(* Theorems about module Query, for any finite set of ids, any documents,  *)
(* filters, sort orders and limits, and any number of writes in between.   *)
(*                                                                         *)
(* First that ORDER BY has an answer: the sort order, with its ties, is a  *)
(* strict total order on the rows, so the rows can be put in that order.   *)
(* Then what one page is made of, and the invariant that says what the     *)
(* pages together are, for a cursor and for an offset.                     *)
(***************************************************************************)
EXTENDS Query, FiniteSetTheorems, SequenceTheorems, TLAPS

\* Ids are positive, so that a cursor of 0 is below all of them.
LEMMA IdsAreNumbers == \A i \in Ids : i \in Nat /\ i > 0
BY QueryAssumption

\* A finite set can be put in the order of any strict total order on it: the
\* place of an element is one more than the number of those below it.  No two
\* have the same place, so all places are taken.
LEMMA RankedOrder ==
    ASSUME NEW S, IsFiniteSet(S), NEW R,
           \A x \in S : <<x, x>> \notin R,
           \A x, y, z \in S : <<x, y>> \in R /\ <<y, z>> \in R => <<x, z>> \in R,
           \A x, y \in S : x # y => <<x, y>> \in R \/ <<y, x>> \in R
    PROVE  \E f \in [1 .. Cardinality(S) -> S] :
              \A j, k \in 1 .. Cardinality(S) : j < k => <<f[j], f[k]>> \in R
<1>n. PICK n : n = Cardinality(S)
  OBVIOUS
<1>0. n \in Nat
  BY <1>n, FS_CardinalityType
<1> DEFINE Under(x) == {y \in S : <<y, x>> \in R}
<1>1. PICK rank : rank = [x \in S |-> Cardinality(Under(x)) + 1]
  OBVIOUS
<1>2. ASSUME NEW x \in S
      PROVE  IsFiniteSet(Under(x)) /\ rank[x] \in 1 .. n /\ rank[x] = Cardinality(Under(x)) + 1
  <2>1. Under(x) \in SUBSET (S \ {x})
    OBVIOUS
  <2>2. IsFiniteSet(S \ {x}) /\ Cardinality(S \ {x}) = n - 1
    BY <1>n, FS_RemoveElement
  <2>3. IsFiniteSet(Under(x)) /\ Cardinality(Under(x)) <= n - 1
    <3> HIDE DEF Under
    <3> QED
      BY <2>1, <2>2, FS_Subset
  <2>4. Cardinality(Under(x)) \in Nat
    BY <2>3, FS_CardinalityType
  <2>5. rank[x] = Cardinality(Under(x)) + 1
    BY <1>1, Zenon
  <2> HIDE DEF Under
  <2> QED
    BY <1>0, <2>3, <2>4, <2>5
<1>3. ASSUME NEW x \in S, NEW y \in S, <<x, y>> \in R
      PROVE  rank[x] < rank[y]
  <2>1. Under(x) \in SUBSET Under(y)
    BY <1>3
  <2>2. Under(x) # Under(y)
    BY <1>3
  <2>3. /\ Cardinality(Under(x)) <= Cardinality(Under(y))
        /\ Cardinality(Under(x)) # Cardinality(Under(y))
    BY <1>2, <2>1, <2>2, FS_Subset
  <2>4. Cardinality(Under(x)) \in Nat /\ Cardinality(Under(y)) \in Nat
    BY <1>2, FS_CardinalityType
  <2>5. rank[x] = Cardinality(Under(x)) + 1 /\ rank[y] = Cardinality(Under(y)) + 1
    BY <1>2
  <2> HIDE DEF Under
  <2> QED
    BY <2>3, <2>4, <2>5
<1>4. rank \in Injection(S, 1 .. n)
  <2>0. DOMAIN rank = S /\ rank = [x \in DOMAIN rank |-> rank[x]]
    BY <1>1, Zenon
  <2>1. rank \in [S -> 1 .. n]
    BY <2>0, <1>2
  <2>2. ASSUME NEW x \in S, NEW y \in S, rank[x] = rank[y]
        PROVE  x = y
    <3> HIDE DEF Under
    <3>1. ~(rank[x] < rank[y]) /\ ~(rank[y] < rank[x])
      BY <1>0, <1>2, <2>2
    <3> QED
      BY <1>3, <3>1
  <2> QED
    BY <2>1, <2>2 DEF Injection, IsInjective
<1>5. rank \in Surjection(S, 1 .. n)
  <2>1. IsFiniteSet(1 .. n) /\ Cardinality(1 .. n) = n
    BY <1>0, FS_Interval
  <2> QED
    BY <1>4, <1>n, <2>1, FS_Injection
<1>6. \A k \in 1 .. n : \E x \in S : rank[x] = k
  BY <1>5 DEF Surjection
<1>7. PICK f : f = [k \in 1 .. n |-> CHOOSE x \in S : rank[x] = k]
  OBVIOUS
<1>8. ASSUME NEW k \in 1 .. n
      PROVE  f[k] \in S /\ rank[f[k]] = k
  BY <1>6, <1>7
<1>9. ASSUME NEW j \in 1 .. n, NEW k \in 1 .. n, j < k
      PROVE  <<f[j], f[k]>> \in R
  <2>1. f[j] \in S /\ f[k] \in S /\ rank[f[j]] = j /\ rank[f[k]] = k
    BY <1>8
  <2>2. f[j] # f[k]
    BY <2>1, <1>9
  <2>3. <<f[k], f[j]>> \notin R
    <3>1. SUFFICES ASSUME <<f[k], f[j]>> \in R PROVE FALSE
      OBVIOUS
    <3>2. rank[f[k]] < rank[f[j]]
      BY <2>1, <3>1, <1>3
    <3> QED
      BY <2>1, <3>2, <1>0, <1>9
  <2> QED
    BY <2>1, <2>2, <2>3
<1>10. f \in [1 .. n -> S]
  BY <1>7, <1>8
<1> QED
  BY <1>n, <1>9, <1>10

-----------------------------------------------------------------------------
\* The values of field paths, "missing" included.
Values == [type : Types, n : Int]

\* SQL's order of values, NULL first, is a weak order: values that sort before
\* one another in neither direction are alike for every third value.
LEMMA SortsBeforeOrder ==
    ASSUME NEW u \in Values, NEW v \in Values, NEW w \in Values
    PROVE  /\ SortsBefore(u, v) \in BOOLEAN
           /\ ~SortsBefore(u, u)
           /\ SortsBefore(u, v) => ~SortsBefore(v, u)
           /\ ~SortsBefore(u, v) /\ ~SortsBefore(v, w) => ~SortsBefore(u, w)
<1> DEFINE Class(x) == IF x.type = "text" THEN 1 ELSE 0
<1>1. \A x \in Values : Class(x) \in Int /\ x.n \in Int
  BY DEF Values
<1>2. \A x, y \in Values :
         SortsBefore(x, y) <=>
            \/ IsNull(x) /\ ~IsNull(y)
            \/ /\ ~IsNull(x) /\ ~IsNull(y)
               /\ Class(x) < Class(y) \/ (Class(x) = Class(y) /\ x.n < y.n)
  BY DEF SortsBefore, Below, Sql
<1>3. SortsBefore(u, v) \in BOOLEAN
  BY DEF SortsBefore, Below, IsNull
<1> HIDE DEF Class
<1> QED
  BY <1>1, <1>2, <1>3

\* ORDER BY orders any two rows, also if they have the same value or none, in
\* either direction, and also if ties come in descending order of id.
LEMMA PrecedesTotal ==
    ASSUME TypeOK, NEW i \in DOMAIN docs, NEW j \in DOMAIN docs, NEW k \in DOMAIN docs
    PROVE  /\ ~Precedes(i, i)
           /\ Precedes(i, j) /\ Precedes(j, k) => Precedes(i, k)
           /\ i # j => Precedes(i, j) \/ Precedes(j, i)
<1>1. i \in Nat /\ j \in Nat /\ k \in Nat
  BY QueryAssumption DEF TypeOK
<1>2. CASE sort.by = "id"
  BY <1>1, <1>2 DEF Precedes
<1>3. CASE sort.by # "id"
  <2>0. sort.by \in Fields
    BY <1>3, QueryAssumption DEF TypeOK, ById
  <2>1. \A x \in DOMAIN docs : docs[x][sort.by] \in Values
    BY <2>0, QueryAssumption DEF TypeOK, Values
  <2>2. PICK B : B = {p \in (DOMAIN docs) \X (DOMAIN docs) :
                        IF sort.desc THEN SortsBefore(docs[p[2]][sort.by], docs[p[1]][sort.by])
                        ELSE SortsBefore(docs[p[1]][sort.by], docs[p[2]][sort.by])}
    OBVIOUS
  <2>3. \A x, y \in DOMAIN docs :
           <<x, y>> \in B <=>
              IF sort.desc THEN SortsBefore(docs[y][sort.by], docs[x][sort.by])
              ELSE SortsBefore(docs[x][sort.by], docs[y][sort.by])
    BY <2>2
  <2>4. \A x, y \in DOMAIN docs :
           Precedes(x, y) <=> <<x, y>> \in B \/ (<<y, x>> \notin B /\ (IF ties THEN y < x ELSE x < y))
    BY <1>3, <2>3 DEF Precedes
  <2>5. \A x, y \in DOMAIN docs :
           <<x, x>> \notin B /\ (<<x, y>> \in B => <<y, x>> \notin B)
    <3>1. ASSUME NEW x \in DOMAIN docs, NEW y \in DOMAIN docs
          PROVE  <<x, x>> \notin B /\ (<<x, y>> \in B => <<y, x>> \notin B)
      <4>1. PICK u, v \in Values : u = docs[x][sort.by] /\ v = docs[y][sort.by]
        BY <2>1
      <4>2. /\ ~SortsBefore(u, u)
            /\ SortsBefore(u, v) => ~SortsBefore(v, u)
            /\ SortsBefore(v, u) => ~SortsBefore(u, v)
        BY SortsBeforeOrder
      <4>3. /\ <<x, x>> \in B <=> SortsBefore(u, u)
            /\ <<x, y>> \in B <=> IF sort.desc THEN SortsBefore(v, u) ELSE SortsBefore(u, v)
            /\ <<y, x>> \in B <=> IF sort.desc THEN SortsBefore(u, v) ELSE SortsBefore(v, u)
        BY <2>3, <4>1
      <4> QED
        BY <4>2, <4>3
    <3> QED
      BY <3>1
  <2>6. \A x, y, z \in DOMAIN docs :
           <<x, y>> \notin B /\ <<y, z>> \notin B => <<x, z>> \notin B
    <3>1. ASSUME NEW x \in DOMAIN docs, NEW y \in DOMAIN docs, NEW z \in DOMAIN docs
          PROVE  <<x, y>> \notin B /\ <<y, z>> \notin B => <<x, z>> \notin B
      <4>1. PICK u, v, w \in Values :
               u = docs[x][sort.by] /\ v = docs[y][sort.by] /\ w = docs[z][sort.by]
        BY <2>1
      <4>2. /\ ~SortsBefore(u, v) /\ ~SortsBefore(v, w) => ~SortsBefore(u, w)
            /\ ~SortsBefore(w, v) /\ ~SortsBefore(v, u) => ~SortsBefore(w, u)
        BY SortsBeforeOrder
      <4>3. /\ <<x, y>> \in B <=> IF sort.desc THEN SortsBefore(v, u) ELSE SortsBefore(u, v)
            /\ <<y, z>> \in B <=> IF sort.desc THEN SortsBefore(w, v) ELSE SortsBefore(v, w)
            /\ <<x, z>> \in B <=> IF sort.desc THEN SortsBefore(w, u) ELSE SortsBefore(u, w)
        BY <2>3, <4>1
      <4> QED
        BY <4>2, <4>3
    <3> QED
      BY <3>1
  <2> DEFINE Tie(x, y) == IF ties THEN y < x ELSE x < y
  <2>7. /\ ~Tie(i, i)
        /\ Tie(i, j) /\ Tie(j, k) => Tie(i, k)
        /\ i # j => Tie(i, j) \/ Tie(j, i)
    BY <1>1
  <2>8. \A x, y \in DOMAIN docs :
           Precedes(x, y) <=> <<x, y>> \in B \/ (<<y, x>> \notin B /\ Tie(x, y))
    BY <2>4
  <2> HIDE DEF Tie
  <2>9. /\ Precedes(i, i) <=> <<i, i>> \in B \/ Tie(i, i)
        /\ Precedes(i, j) <=> <<i, j>> \in B \/ (<<j, i>> \notin B /\ Tie(i, j))
        /\ Precedes(j, i) <=> <<j, i>> \in B \/ (<<i, j>> \notin B /\ Tie(j, i))
        /\ Precedes(j, k) <=> <<j, k>> \in B \/ (<<k, j>> \notin B /\ Tie(j, k))
        /\ Precedes(i, k) <=> <<i, k>> \in B \/ (<<k, i>> \notin B /\ Tie(i, k))
    BY <2>8, <2>5
  <2> QED
    BY <2>5, <2>6, <2>7, <2>9
<1> QED
  BY <1>2, <1>3

\* A query gives each row that matches once, in order.
LEMMA OrderedRows ==
    ASSUME TypeOK, NEW S \in SUBSET DOMAIN docs
    PROVE  /\ IsFiniteSet(S) /\ Cardinality(S) \in Nat
           /\ InOrder(S) \in Seq(S) /\ Len(InOrder(S)) = Cardinality(S)
           /\ \A j, k \in 1 .. Cardinality(S) : j < k => Precedes(InOrder(S)[j], InOrder(S)[k])
           /\ \A i \in S : \E k \in 1 .. Cardinality(S) : InOrder(S)[k] = i
<1>1. IsFiniteSet(S) /\ Cardinality(S) \in Nat
  BY QueryAssumption, FS_Subset, FS_CardinalityType DEF TypeOK
<1>2. PICK R : R = {p \in S \X S : Precedes(p[1], p[2])}
  OBVIOUS
<1>3. \A x, y \in S : <<x, y>> \in R <=> Precedes(x, y)
  BY <1>2
<1>4. \E f \in [1 .. Cardinality(S) -> S] :
         \A j, k \in 1 .. Cardinality(S) : j < k => <<f[j], f[k]>> \in R
  <2>1. \A x \in S : <<x, x>> \notin R
    BY <1>3, PrecedesTotal
  <2>2. \A x, y, z \in S : <<x, y>> \in R /\ <<y, z>> \in R => <<x, z>> \in R
    BY <1>3, PrecedesTotal
  <2>3. \A x, y \in S : x # y => <<x, y>> \in R \/ <<y, x>> \in R
    BY <1>3, PrecedesTotal
  <2> QED
    BY <1>1, <2>1, <2>2, <2>3, RankedOrder
<1>5. \E f \in [1 .. Cardinality(S) -> S] :
         \A j, k \in DOMAIN f : j < k => Precedes(f[j], f[k])
  <2>1. PICK f \in [1 .. Cardinality(S) -> S] :
           \A j, k \in 1 .. Cardinality(S) : j < k => <<f[j], f[k]>> \in R
    BY <1>4
  <2>2. \A j, k \in DOMAIN f : j < k => Precedes(f[j], f[k])
    BY <2>1, <1>3
  <2> QED
    BY <2>1, <2>2
<1>6. PICK ids : ids = InOrder(S)
  OBVIOUS
<1>7. /\ ids \in [1 .. Cardinality(S) -> S]
      /\ \A j, k \in DOMAIN ids : j < k => Precedes(ids[j], ids[k])
  BY <1>5, <1>6 DEF InOrder
<1>8. ids \in Seq(S) /\ Len(ids) = Cardinality(S)
  BY <1>1, <1>7
<1>9. ids \in Injection(1 .. Cardinality(S), S)
  <2>1. ASSUME NEW j \in 1 .. Cardinality(S), NEW k \in 1 .. Cardinality(S), ids[j] = ids[k]
        PROVE  j = k
    <3>1. ids[j] \in S /\ ~Precedes(ids[j], ids[j])
      BY <1>7, PrecedesTotal
    <3>2. ~(j < k) /\ ~(k < j)
      BY <1>7, <2>1, <3>1
    <3> QED
      BY <1>1, <3>2
  <2> QED
    BY <1>7, <2>1 DEF Injection, IsInjective
<1>10. ids \in Surjection(1 .. Cardinality(S), S)
  <2>1. Cardinality(1 .. Cardinality(S)) = Cardinality(S)
    BY <1>1, FS_Interval
  <2> QED
    BY <1>1, <1>9, <2>1, FS_Injection
<1>11. \A i \in S : \E k \in 1 .. Cardinality(S) : ids[k] = i
  BY <1>10 DEF Surjection
<1> QED
  BY <1>1, <1>6, <1>7, <1>8, <1>11

\* The order depends only on the documents and on what was asked.
LEMMA SameOrder ==
    ASSUME UNCHANGED <<docs, sort, ties>>, NEW S
    PROVE  InOrder(S)' = InOrder(S)
BY DEF InOrder, Precedes

-----------------------------------------------------------------------------
\* The smaller of two numbers.
LEMMA MinOfTwo ==
    ASSUME NEW a \in Int, NEW b \in Int
    PROVE  Min({a, b}) = IF a <= b THEN a ELSE b
<1>1. \E x \in {a, b} : \A y \in {a, b} : x =< y
  BY a <= b \/ b <= a
<1>2. Min({a, b}) \in {a, b} /\ \A y \in {a, b} : Min({a, b}) =< y
  BY <1>1 DEF Min
<1> QED
  BY <1>2

\* The rows WHERE lets through, the place the page starts at, and the page.
Wanted == {i \in Matching(docs, filter) : i > cursor}

From == IF useCursor THEN 0 ELSE offset

Items == SubSeq(Rows, 1, Min({limit, Len(Rows)}))

\* A page is the next rows in order, as many as the limit allows or all that are
\* left; none when the offset is behind the last row.
LEMMA PageItems ==
    ASSUME TypeOK
    PROVE  LET ids == InOrder(Wanted) IN
           /\ ids \in Seq(Ids) /\ Wanted \in SUBSET DOMAIN docs
           /\ Items \in Seq(Ids)
           /\ Len(Items) = IF limit <= Len(ids) - From THEN limit
                          ELSE IF From <= Len(ids) THEN Len(ids) - From ELSE 0
           /\ \A k \in 1 .. Len(Items) : From + k <= Len(ids) /\ Items[k] = ids[From + k]
<1>1. Wanted \in SUBSET DOMAIN docs /\ Wanted \subseteq Ids
  BY DEF Wanted, Matching, TypeOK
<1>2. PICK ids : ids = InOrder(Wanted)
  OBVIOUS
<1>3. ids \in Seq(Ids) /\ Len(ids) \in Nat
  BY <1>1, <1>2, OrderedRows
<1>4. PICK rows : rows = Rows
  OBVIOUS
<1>5. /\ rows \in Seq(Ids)
      /\ Len(rows) = IF From <= Len(ids) THEN Len(ids) - From ELSE 0
      /\ \A k \in 1 .. Len(rows) : rows[k] = ids[From + k]
  <2>1. CASE useCursor
    <3>1. rows = ids /\ From = 0
      BY <1>2, <1>4, <2>1 DEF Rows, Wanted, From
    <3> QED
      BY <1>3, <3>1
  <2>2. CASE ~useCursor
    <3>1. rows = SubSeq(ids, offset + 1, Len(ids)) /\ From = offset /\ offset \in Nat
      BY <1>2, <1>4, <2>2 DEF Rows, Wanted, From, TypeOK
    <3>2. \A k \in offset + 1 .. Len(ids) : ids[k] \in Ids
      BY <1>3, <3>1
    <3> QED
      BY <1>3, <3>1, <3>2, SubSeqProperties
  <2> QED
    BY <2>1, <2>2
<1>6. From \in Nat /\ limit \in Nat /\ Len(rows) \in Nat
  BY <1>5, QueryAssumption DEF From, TypeOK
<1>7. PICK m : m = Min({limit, Len(rows)})
  OBVIOUS
<1>8. m = (IF limit <= Len(rows) THEN limit ELSE Len(rows)) /\ m \in 0 .. Len(rows)
  BY <1>6, <1>7, MinOfTwo
<1>9. PICK items : items = SubSeq(rows, 1, m)
  OBVIOUS
<1>10. items = Items
  BY <1>4, <1>7, <1>9 DEF Items
<1>11. items \in Seq(Ids) /\ Len(items) = m /\ \A k \in 1 .. m : items[k] = rows[k]
  <2>1. \A k \in 1 .. m : rows[k] \in Ids
    BY <1>5, <1>8
  <2> QED
    BY <1>8, <1>9, <2>1, SubSeqProperties
<1>12. Len(items) = IF limit <= Len(ids) - From THEN limit
                    ELSE IF From <= Len(ids) THEN Len(ids) - From ELSE 0
  BY <1>3, <1>5, <1>6, <1>8, <1>11
<1>13. \A k \in 1 .. Len(items) : From + k <= Len(ids) /\ items[k] = ids[From + k]
  <2>1. ASSUME NEW k \in 1 .. Len(items)
        PROVE  From + k <= Len(ids) /\ items[k] = ids[From + k]
    <3>1. k \in 1 .. m /\ k \in 1 .. Len(rows)
      BY <1>6, <1>8, <1>11
    <3>2. From + k <= Len(ids)
      BY <1>3, <1>5, <1>6, <3>1
    <3> QED
      BY <1>5, <1>11, <3>1, <3>2
  <2> QED
    BY <2>1
<1> QED
  BY <1>1, <1>2, <1>3, <1>10, <1>11, <1>12, <1>13

\* What the endpoint count gives is no more than there are ids.
LEMMA CountBound ==
    ASSUME TypeOK
    PROVE  Count(docs, filter) \in 0 .. Cardinality(Ids)
<1>1. Matching(docs, filter) \in SUBSET Ids
  BY DEF Matching, TypeOK
<1>2. /\ IsFiniteSet(Matching(docs, filter))
      /\ Cardinality(Matching(docs, filter)) <= Cardinality(Ids)
  BY <1>1, FS_Subset, QueryAssumption
<1>3. Cardinality(Matching(docs, filter)) \in Nat /\ Cardinality(Ids) \in Nat
  BY <1>2, FS_CardinalityType, QueryAssumption
<1> QED
  BY <1>2, <1>3 DEF Count

\* A write between two pages keeps the types, whatever document it stores.
LEMMA TypeOfChanged ==
    ASSUME TypeOK, Changed, DOMAIN docs' \subseteq Ids,
           \A i \in DOMAIN docs' : docs'[i] \in Documents
    PROVE  TypeOK'
<1>1. writes' \in 0 .. MaxWrites
  BY QueryAssumption DEF TypeOK, Changed
<1>2. steady' \subseteq ever' /\ ever' \subseteq Ids
  BY DEF TypeOK, Changed, Matching
<1>3. /\ UNCHANGED <<filter, sort, limit, useCursor, ties, cursor, offset, got, phase, counted>>
      /\ quiet' = FALSE
  BY DEF Changed, request
<1> QED
  BY <1>1, <1>2, <1>3 DEF TypeOK

\* The initial states have the types.
LEMMA TypeInit == Init => TypeOK
<1> SUFFICES ASSUME Init PROVE TypeOK
  OBVIOUS
<1>1. Cardinality(Ids) \in Nat
  BY QueryAssumption, FS_CardinalityType
<1>2. DOMAIN docs \subseteq Ids /\ \A i \in DOMAIN docs : docs[i] \in Documents
  BY DEF Init
<1>3. limit \in 1 .. (IF MaxLimit = 0 THEN 1 ELSE MaxLimit)
  BY QueryAssumption DEF Init
<1>4. got \in Seq(Ids)
  BY DEF Init
<1>5. writes \in 0 .. MaxWrites /\ counted \in 0 .. Cardinality(Ids) /\ offset \in Nat
  BY <1>1, QueryAssumption DEF Init
<1>6. /\ filter \in Filters /\ sort \in Sorts \cup {ById} /\ useCursor \in BOOLEAN /\ ties \in BOOLEAN
      /\ cursor \in Ids \cup {0} /\ phase \in {"before", "asking", "done"} /\ quiet \in BOOLEAN
      /\ steady \subseteq ever /\ ever \subseteq Ids
  BY DEF Init
<1> QED
  BY <1>2, <1>3, <1>4, <1>5, <1>6 DEF TypeOK

\* Every step keeps the types; the limit a request gets is at least 1 and at
\* most max_query_limit, whatever it asks for.
LEMMA TypeStep == TypeOK /\ [Next]_vars => TypeOK'
<1> SUFFICES ASSUME TypeOK, [Next]_vars PROVE TypeOK'
  OBVIOUS
<1>1. CASE Ask
  <2>1. PICK l \in Limits : limit' = Clamped(l)
    BY <1>1 DEF Ask
  <2>2. limit' \in 1 .. (IF MaxLimit = 0 THEN 1 ELSE MaxLimit)
    BY <2>1, QueryAssumption DEF Clamped, Unset, DefaultLimit
  <2>3. counted' \in 0 .. Cardinality(Ids)
    BY <1>1, CountBound DEF Ask
  <2>4. steady' \subseteq ever' /\ ever' \subseteq Ids
    BY <1>1 DEF Ask, Matching, TypeOK
  <2>5. sort' \in Sorts /\ ties' \in BOOLEAN /\ useCursor' \in BOOLEAN /\ phase' = "asking"
    <3>1. sort' \in Sorts /\ ties' \in (IF sort'.by = "id" THEN {FALSE} ELSE BOOLEAN)
      BY <1>1 DEF Ask
    <3>2. useCursor' \in (IF sort' = ById THEN BOOLEAN ELSE {FALSE}) /\ phase' = "asking"
      BY <1>1 DEF Ask
    <3> QED
      BY <3>1, <3>2
  <2>6. UNCHANGED <<docs, writes, filter, cursor, offset, got, quiet>>
    BY <1>1 DEF Ask
  <2> QED
    BY <2>2, <2>3, <2>4, <2>5, <2>6 DEF TypeOK
<1>2. CASE Page
  <2>1. PICK items : items = Items
    OBVIOUS
  <2>2. /\ got' = got \o items
        /\ cursor' = IF useCursor /\ items # <<>> THEN Last(items) ELSE cursor
        /\ offset' = IF useCursor THEN offset ELSE offset + Len(items)
        /\ phase' = IF Len(items) = limit THEN "asking" ELSE "done"
    BY <1>2, <2>1 DEF Page, Items
  <2>3. UNCHANGED <<docs, writes, filter, sort, limit, useCursor, ties, counted, steady, ever, quiet>>
    BY <1>2 DEF Page, request
  <2>4. items \in Seq(Ids)
    BY <2>1, PageItems
  <2>5. got' \in Seq(Ids)
    BY <2>2, <2>4, ConcatProperties DEF TypeOK
  <2>6. cursor' \in Ids \cup {0} /\ offset' \in Nat
    BY <2>2, <2>4 DEF Last, TypeOK
  <2> QED
    BY <2>2, <2>3, <2>5, <2>6 DEF TypeOK
<1>3. ASSUME NEW i \in Ids, Delete(i)
      PROVE  TypeOK'
  <2>1. DOMAIN docs' \subseteq Ids /\ \A j \in DOMAIN docs' : docs'[j] \in Documents
    BY <1>3 DEF Delete, TypeOK
  <2> QED
    BY <1>3, <2>1, TypeOfChanged DEF Delete
<1>4. ASSUME NEW i \in Ids, NEW d \in Documents, Put(i, d)
      PROVE  TypeOK'
  <2>1. DOMAIN docs' \subseteq Ids /\ \A j \in DOMAIN docs' : docs'[j] \in Documents
    BY <1>4 DEF Put, TypeOK
  <2> QED
    BY <1>4, <2>1, TypeOfChanged DEF Put
<1>5. CASE UNCHANGED vars
  BY <1>5 DEF vars, request, TypeOK
<1> QED
  BY <1>1, <1>2, <1>3, <1>4, <1>5 DEF Next

-----------------------------------------------------------------------------
(***************************************************************************)
(* The pages given so far.  PagesAreExact is not inductive: it says        *)
(* nothing of where the next page starts.  With a cursor, that is behind   *)
(* the last id given, and everything up to there that matched all the time *)
(* was given, whatever changes elsewhere.  With an offset the pages are    *)
(* the first rows of the one order in which SQLite returns them, as long   *)
(* as nothing is written.                                                  *)
(***************************************************************************)

\* Before the first page nothing was given.
Fresh ==
    phase = "before" =>
        got = <<>> /\ cursor = 0 /\ offset = 0 /\ useCursor /\ quiet /\ steady = {}

\* What matches now lies between what matched all the time and what ever did;
\* if nothing was written, these are the same.
Ghosts ==
    phase # "before" =>
        /\ steady \subseteq Matching(docs, filter) /\ Matching(docs, filter) \subseteq ever
        /\ \A j \in DOMAIN got : got[j] \in ever
        /\ quiet => steady = ever /\ counted = Count(docs, filter)

\* Paging by cursor: where it stands, and what it has behind it.
ByCursor ==
    useCursor =>
        /\ sort = ById
        /\ \A j, k \in DOMAIN got : j < k => got[j] < got[k]
        /\ cursor = IF got = <<>> THEN 0 ELSE Last(got)
        /\ \A i \in steady : i <= cursor \/ phase = "done" => i \in Range(got)

\* Paging by offset: what was given is the beginning of the sorted rows.
ByOffset ==
    ~useCursor =>
        /\ cursor = 0
        /\ quiet =>
              LET all == InOrder(Matching(docs, filter)) IN
              /\ offset = Len(got) /\ Len(got) <= Len(all)
              /\ \A k \in 1 .. Len(got) : got[k] = all[k]
              /\ phase = "done" => Len(got) = Len(all)

\* The inductive invariant.
Kept == TypeOK /\ Fresh /\ Ghosts /\ ByCursor /\ ByOffset

\* It holds at first,
LEMMA KeptInit == Init => Kept
<1> SUFFICES ASSUME Init PROVE Kept
  OBVIOUS
<1>1. /\ got = <<>> /\ cursor = 0 /\ offset = 0 /\ useCursor = TRUE /\ quiet /\ steady = {}
      /\ phase = "before" /\ sort = ById
  BY DEF Init
<1>2. DOMAIN got = {}
  BY <1>1
<1> QED
  BY <1>1, <1>2, TypeInit DEF Kept, Fresh, Ghosts, ByCursor, ByOffset

\* when the client asks,
LEMMA KeptAsk == Kept /\ Ask => Fresh' /\ Ghosts' /\ ByCursor' /\ ByOffset'
<1> SUFFICES ASSUME Kept, Ask PROVE Fresh' /\ Ghosts' /\ ByCursor' /\ ByOffset'
  OBVIOUS
<1>1. /\ phase = "before" /\ phase' = "asking" /\ counted' = Count(docs, filter)
      /\ steady' = Matching(docs, filter) /\ ever' = steady'
      /\ UNCHANGED <<docs, writes, filter, cursor, offset, got, quiet>>
  BY DEF Ask
<1>2. got = <<>> /\ cursor = 0 /\ offset = 0 /\ DOMAIN got = {} /\ Len(got) = 0
  BY <1>1 DEF Kept, Fresh
<1>3. useCursor' => sort' = ById
  BY DEF Ask
<1>4. TypeOK'
  BY TypeStep DEF Kept, Next
<1>5. Fresh' /\ Ghosts'
  BY <1>1, <1>2 DEF Fresh, Ghosts
<1>6. ByCursor'
  <2>1. \A i \in steady' : i \in Nat \ {0}
    BY <1>4, QueryAssumption DEF TypeOK
  <2> QED
    BY <1>1, <1>2, <1>3, <2>1 DEF ByCursor
<1>7. ByOffset'
  <2>1. Len(InOrder(Matching(docs, filter))') \in Nat
    <3>1. Matching(docs, filter)' \in SUBSET DOMAIN docs'
      BY DEF Matching
    <3> QED
      BY <1>4, <3>1, OrderedRows
  <2> QED
    BY <1>1, <1>2, <2>1 DEF ByOffset
<1> QED
  BY <1>5, <1>6, <1>7

\* and after a write, which takes ids from steady and adds ids to ever; the cursor
\* stays where it is.
LEMMA KeptChanged == Kept /\ Changed => Fresh' /\ Ghosts' /\ ByCursor' /\ ByOffset'
<1> SUFFICES ASSUME Kept, Changed PROVE Fresh' /\ Ghosts' /\ ByCursor' /\ ByOffset'
  OBVIOUS
<1>1. /\ phase = "asking" /\ phase' = "asking" /\ quiet' = FALSE
      /\ steady' = steady \cap Matching(docs', filter)
      /\ ever' = ever \cup Matching(docs', filter)
      /\ UNCHANGED <<filter, sort, limit, useCursor, ties, cursor, offset, got, counted>>
  BY DEF Changed, request
<1>2. Fresh' /\ Ghosts'
  <2>1. Matching(docs, filter)' = Matching(docs', filter)
    BY <1>1
  <2> QED
    BY <1>1, <2>1 DEF Kept, Fresh, Ghosts
<1>3. ByCursor'
  BY <1>1 DEF Kept, ByCursor
<1>4. ByOffset'
  BY <1>1 DEF Kept, ByOffset
<1> QED
  BY <1>2, <1>3, <1>4

\* What a page does to the ids given: it adds rows that match, at the end.
LEMMA PageStep ==
    ASSUME Kept, Page
    PROVE  /\ got' = got \o Items
           /\ cursor' = IF useCursor /\ Items # <<>> THEN Last(Items) ELSE cursor
           /\ offset' = IF useCursor THEN offset ELSE offset + Len(Items)
           /\ phase = "asking" /\ phase' = IF Len(Items) = limit THEN "asking" ELSE "done"
           /\ UNCHANGED <<docs, filter, sort, limit, useCursor, ties, counted, steady, ever, quiet>>
           /\ Items \in Seq(Ids) /\ Len(Items) \in Nat
           /\ \A k \in 1 .. Len(Items) : Items[k] \in Wanted
           /\ got \in Seq(Ids) /\ got' \in Seq(Ids)
           /\ Len(got) \in Nat /\ Len(got') = Len(got) + Len(Items)
           /\ \A k \in 1 .. Len(got) : got'[k] = got[k]
           /\ \A k \in 1 .. Len(Items) : got'[Len(got) + k] = Items[k]
<1>1. /\ got' = got \o Items
      /\ cursor' = IF useCursor /\ Items # <<>> THEN Last(Items) ELSE cursor
      /\ offset' = IF useCursor THEN offset ELSE offset + Len(Items)
      /\ phase = "asking" /\ phase' = IF Len(Items) = limit THEN "asking" ELSE "done"
      /\ UNCHANGED <<docs, filter, sort, limit, useCursor, ties, counted, steady, ever, quiet>>
  BY DEF Page, Items, request
<1>2. PICK items : items = Items
  OBVIOUS
<1>3. items \in Seq(Ids) /\ Len(items) \in Nat
  BY <1>2, PageItems DEF Kept
<1>4. got \in Seq(Ids) /\ Len(got) \in Nat
  BY DEF Kept, TypeOK
<1>5. PICK new : new = got'
  OBVIOUS
<1>6. new = got \o items
  BY <1>1, <1>2, <1>5
<1>7. /\ new \in Seq(Ids) /\ Len(new) = Len(got) + Len(items)
      /\ \A k \in 1 .. Len(got) + Len(items) :
            new[k] = IF k <= Len(got) THEN got[k] ELSE items[k - Len(got)]
  BY <1>3, <1>4, <1>6, ConcatProperties
<1>8. \A k \in 1 .. Len(got) : new[k] = got[k]
  BY <1>3, <1>4, <1>7
<1>9. ASSUME NEW k \in 1 .. Len(items)
      PROVE  new[Len(got) + k] = items[k]
  <2>1. /\ Len(got) + k \in 1 .. Len(got) + Len(items)
        /\ ~(Len(got) + k <= Len(got)) /\ (Len(got) + k) - Len(got) = k
    BY <1>3, <1>4
  <2> QED
    BY <1>7, <2>1
<1>10. ASSUME NEW k \in 1 .. Len(items)
       PROVE  items[k] \in Wanted
  <2>1. PICK ids : ids = InOrder(Wanted)
    OBVIOUS
  <2>2. Wanted \in SUBSET DOMAIN docs /\ From + k <= Len(ids) /\ items[k] = ids[From + k]
    BY <1>2, <2>1, PageItems DEF Kept
  <2>3. ids \in Seq(Wanted)
    BY <2>1, <2>2, OrderedRows DEF Kept
  <2>4. From \in Nat
    BY DEF From, Kept, TypeOK
  <2>5. From + k \in 1 .. Len(ids)
    BY <1>3, <2>2, <2>3, <2>4
  <2> QED
    BY <2>2, <2>3, <2>5
<1> QED
  BY <1>1, <1>2, <1>3, <1>4, <1>5, <1>7, <1>8, <1>9, <1>10

\* All rows of a page match at this moment.
LEMMA GhostsPage == Kept /\ Page => Fresh' /\ Ghosts'
<1> SUFFICES ASSUME Kept, Page PROVE Fresh' /\ Ghosts'
  OBVIOUS
<1>1. phase = "asking" /\ phase' # "before"
  BY PageStep
<1>2. Fresh'
  BY <1>1 DEF Fresh
<1>3. ASSUME NEW j \in DOMAIN got'
      PROVE  got'[j] \in ever
  <2>1. \A k \in 1 .. Len(Items) : Items[k] \in ever
    BY <1>1, PageStep DEF Wanted, Kept, Ghosts
  <2>2. \A k \in 1 .. Len(got) : got[k] \in ever
    BY <1>1, PageStep DEF Kept, Ghosts
  <2>3. j \in 1 .. Len(got) + Len(Items) /\ Len(got) \in Nat /\ Len(Items) \in Nat
    BY PageStep
  <2>4. CASE j <= Len(got)
    BY <2>2, <2>3, <2>4, PageStep
  <2>5. CASE ~(j <= Len(got))
    <3>1. PICK k \in 1 .. Len(Items) : j = Len(got) + k
      <4>1. j - Len(got) \in 1 .. Len(Items) /\ j = Len(got) + (j - Len(got))
        BY <2>3, <2>5
      <4> QED
        BY <4>1
    <3> QED
      BY <2>1, <3>1, PageStep
  <2> QED
    BY <2>4, <2>5
<1>4. UNCHANGED <<docs, filter, counted, steady, ever, quiet>>
  BY PageStep
<1>5. Ghosts'
  BY <1>1, <1>3, <1>4 DEF Kept, Ghosts
<1> QED
  BY <1>2, <1>5

\* The next page by offset continues the sorted rows where the last one ended,
\* and a page that is not full reaches their end.
LEMMA ByOffsetPage == Kept /\ Page => ByOffset'
<1> SUFFICES ASSUME Kept, Page, ~useCursor PROVE ByOffset'
  BY PageStep DEF ByOffset
<1>1. UNCHANGED <<docs, filter, sort, ties, useCursor, quiet>> /\ cursor' = cursor /\ cursor = 0
  BY PageStep DEF Kept, ByOffset
<1>2. SUFFICES ASSUME quiet
               PROVE  LET all == InOrder(Matching(docs, filter))' IN
                      /\ offset' = Len(got') /\ Len(got') <= Len(all)
                      /\ \A k \in 1 .. Len(got') : got'[k] = all[k]
                      /\ phase' = "done" => Len(got') = Len(all)
  BY <1>1 DEF ByOffset
<1>3. PICK all : all = InOrder(Matching(docs, filter))
  OBVIOUS
<1>4. InOrder(Matching(docs, filter))' = all
  <2>1. PICK S : S = Matching(docs, filter)
    OBVIOUS
  <2>2. Matching(docs, filter)' = S
    BY <1>1, <2>1
  <2>3. InOrder(S)' = InOrder(S)
    BY <1>1, SameOrder
  <2> QED
    BY <1>3, <2>1, <2>2, <2>3
<1>5. Wanted = Matching(docs, filter)
  <2>1. \A i \in Matching(docs, filter) : i > cursor
    <3>1. Matching(docs, filter) \subseteq Ids
      BY DEF Matching, Kept, TypeOK
    <3> QED
      BY <1>1, <3>1, IdsAreNumbers
  <2> QED
    BY <2>1 DEF Wanted, Matching
<1>6. /\ offset = Len(got) /\ Len(got) <= Len(all) /\ From = offset
      /\ \A k \in 1 .. Len(got) : got[k] = all[k]
  BY <1>2, <1>3 DEF Kept, ByOffset, From
<1>7. /\ all \in Seq(Ids)
      /\ Len(Items) = IF limit <= Len(all) - offset THEN limit
                     ELSE IF offset <= Len(all) THEN Len(all) - offset ELSE 0
      /\ \A k \in 1 .. Len(Items) : offset + k <= Len(all) /\ Items[k] = all[offset + k]
  BY <1>3, <1>5, <1>6, PageItems DEF Kept
<1>8. Len(all) \in Nat /\ offset \in Nat /\ limit \in Nat /\ Len(Items) \in Nat
  BY <1>7, PageStep, QueryAssumption DEF Kept, TypeOK
<1>9. offset' = Len(got') /\ Len(got') = offset + Len(Items) /\ Len(got') <= Len(all)
  BY <1>6, <1>7, <1>8, PageStep
<1>10. ASSUME NEW k \in 1 .. Len(got')
       PROVE  got'[k] = all[k]
  <2>1. CASE k <= Len(got)
    BY <1>6, <1>8, <1>9, <2>1, PageStep
  <2>2. CASE ~(k <= Len(got))
    <3>1. PICK m \in 1 .. Len(Items) : k = offset + m
      <4>1. k - offset \in 1 .. Len(Items) /\ k = offset + (k - offset)
        BY <1>6, <1>8, <1>9, <2>2
      <4> QED
        BY <4>1
    <3> QED
      BY <1>6, <1>7, <3>1, PageStep
  <2> QED
    BY <2>1, <2>2
<1>11. phase' = "done" => Len(got') = Len(all)
  BY <1>6, <1>7, <1>8, <1>9, PageStep
<1> QED
  BY <1>4, <1>9, <1>10, <1>11

\* The next page by cursor is above all that was given; an id that matched all
\* the time and is at or below the new cursor is on it, or was given before; a
\* page that is not full leaves none above.
LEMMA ByCursorPage == Kept /\ Page => ByCursor'
<1> SUFFICES ASSUME Kept, Page, useCursor PROVE ByCursor'
  BY PageStep DEF ByCursor
<1>1. PICK items, new : items = Items /\ new = got'
  OBVIOUS
<1>2. PICK ids : ids = InOrder(Wanted)
  OBVIOUS
<1>3. /\ sort = ById /\ \A j, k \in DOMAIN got : j < k => got[j] < got[k]
      /\ cursor = IF got = <<>> THEN 0 ELSE Last(got)
      /\ \A i \in steady : i <= cursor => i \in Range(got)
  BY DEF Kept, ByCursor
<1>4. /\ got \in Seq(Ids) /\ new \in Seq(Ids) /\ items \in Seq(Ids) /\ items = Items
      /\ Len(got) \in Nat /\ Len(items) \in Nat /\ Len(new) = Len(got) + Len(items)
      /\ \A k \in 1 .. Len(got) : new[k] = got[k]
      /\ \A k \in 1 .. Len(items) : new[Len(got) + k] = items[k] /\ items[k] \in Wanted
  BY <1>1, PageStep
<1>5. /\ Wanted \in SUBSET DOMAIN docs /\ Wanted \subseteq Nat
      /\ ids \in Seq(Wanted)
      /\ \A j, k \in 1 .. Len(ids) : j < k => ids[j] < ids[k]
      /\ \A i \in Wanted : \E k \in 1 .. Len(ids) : ids[k] = i
  <2>1. Wanted \in SUBSET DOMAIN docs /\ Wanted \subseteq Nat
    BY QueryAssumption DEF Wanted, Matching, Kept, TypeOK
  <2>2. \A i, j : Precedes(i, j) <=> i < j
    BY <1>3 DEF Precedes, ById
  <2> QED
    BY <1>2, <2>1, <2>2, OrderedRows DEF Kept
<1>6. /\ Len(ids) \in Nat /\ limit \in Nat
      /\ Len(items) = IF limit <= Len(ids) THEN limit ELSE Len(ids)
      /\ Len(items) <= Len(ids) /\ \A k \in 1 .. Len(items) : items[k] = ids[k]
  <2>1. /\ Len(ids) \in Nat /\ limit \in Nat /\ From = 0
        /\ Len(items) = IF limit <= Len(ids) - From THEN limit
                       ELSE IF From <= Len(ids) THEN Len(ids) - From ELSE 0
    BY <1>2, <1>4, <1>5, PageItems, QueryAssumption DEF Kept, TypeOK, From
  <2>2. \A k \in 1 .. Len(items) : items[k] = ids[From + k]
    BY <1>2, <1>4, PageItems DEF Kept
  <2>3. \A k \in 1 .. Len(items) : From + k = k
    BY <1>4, <2>1
  <2>4. Len(items) = (IF limit <= Len(ids) THEN limit ELSE Len(ids)) /\ Len(items) <= Len(ids)
    BY <2>1
  <2> QED
    BY <2>1, <2>2, <2>3, <2>4
<1>7. \A k \in 1 .. Len(got) : got[k] <= cursor
  <2>1. ASSUME NEW k \in 1 .. Len(got)
        PROVE  got[k] <= cursor
    <3>1. cursor = got[Len(got)] /\ Len(got) \in 1 .. Len(got)
      BY <1>3, <1>4, <2>1 DEF Last
    <3>2. got[k] \in Nat /\ got[Len(got)] \in Nat
      <4>1. got[k] \in Ids /\ got[Len(got)] \in Ids
        BY <1>4, <3>1
      <4> QED
        BY <4>1, IdsAreNumbers
    <3>3. k = Len(got) \/ got[k] < got[Len(got)]
      BY <1>3, <1>4, <3>1
    <3> QED
      BY <3>1, <3>2, <3>3
  <2> QED
    BY <2>1
<1>8. cursor \in Nat
  BY QueryAssumption DEF Kept, TypeOK
<1>9. \A k \in 1 .. Len(items) : items[k] > cursor /\ items[k] \in Nat
  BY <1>4, <1>5 DEF Wanted
<1>10. ASSUME NEW j \in DOMAIN new, NEW k \in DOMAIN new, j < k
       PROVE  new[j] < new[k]
  <2>1. j \in 1 .. Len(got) + Len(items) /\ k \in 1 .. Len(got) + Len(items)
    BY <1>4
  <2>2. CASE k <= Len(got)
    <3>1. j \in 1 .. Len(got) /\ k \in 1 .. Len(got)
      BY <1>4, <1>10, <2>1, <2>2
    <3>2. new[j] = got[j] /\ new[k] = got[k]
      BY <1>4, <3>1
    <3>3. got[j] < got[k]
      BY <1>3, <1>4, <1>10, <3>1
    <3> QED
      BY <3>2, <3>3
  <2>3. CASE ~(k <= Len(got))
    <3>1. PICK m \in 1 .. Len(items) : k = Len(got) + m
      <4>1. k - Len(got) \in 1 .. Len(items) /\ k = Len(got) + (k - Len(got))
        BY <1>4, <2>1, <2>3
      <4> QED
        BY <4>1
    <3>2. new[k] = items[m] /\ items[m] > cursor /\ items[m] \in Nat
      BY <1>4, <1>9, <3>1
    <3>3. CASE j <= Len(got)
      <4>1. j \in 1 .. Len(got)
        BY <1>4, <2>1, <3>3
      <4>2. new[j] = got[j] /\ got[j] <= cursor /\ got[j] \in Ids
        BY <1>4, <1>7, <4>1
      <4> QED
        BY <1>8, <3>2, <4>2, IdsAreNumbers
    <3>4. CASE ~(j <= Len(got))
      <4>1. PICK l \in 1 .. Len(items) : j = Len(got) + l
        <5>1. j - Len(got) \in 1 .. Len(items) /\ j = Len(got) + (j - Len(got))
          BY <1>4, <2>1, <3>4
        <5> QED
          BY <5>1
      <4>2. l < m /\ l \in 1 .. Len(ids) /\ m \in 1 .. Len(ids)
        BY <1>4, <1>6, <1>10, <3>1, <4>1
      <4>3. ids[l] < ids[m]
        BY <1>5, <4>2
      <4> QED
        BY <1>4, <1>6, <3>2, <4>1, <4>3
    <3> QED
      BY <3>3, <3>4
  <2> QED
    BY <2>2, <2>3
<1>11. cursor' = IF new = <<>> THEN 0 ELSE Last(new)
  <2>1. CASE items = <<>>
    <3>1. new = got /\ cursor' = cursor
      BY <1>1, <1>4, <2>1, PageStep, ConcatEmptySeq
    <3> QED
      BY <1>3, <3>1
  <2>2. CASE items # <<>>
    <3>1. Len(items) \in 1 .. Len(items) /\ new # <<>>
      BY <1>4, <2>2, EmptySeq
    <3>2. cursor' = items[Len(items)]
      BY <1>1, <2>2, PageStep DEF Last
    <3>3. Last(new) = new[Len(got) + Len(items)]
      BY <1>4 DEF Last
    <3> QED
      BY <1>4, <3>1, <3>2, <3>3
  <2> QED
    BY <2>1, <2>2
<1>12. Range(got) \subseteq Range(new) /\ Range(items) \subseteq Range(new)
  <2>1. new = got \o items
    BY <1>1, PageStep
  <2>2. Range(new) = Range(got) \cup Range(items)
    BY <1>4, <2>1, RangeConcatenation
  <2> QED
    BY <2>2
<1>13. ASSUME NEW i \in steady, i <= cursor' \/ phase' = "done"
       PROVE  i \in Range(new)
  <2>1. CASE i <= cursor
    BY <1>3, <1>12, <2>1
  <2>2. CASE ~(i <= cursor)
    <3>1. i \in Wanted
      <4>1. i \in Matching(docs, filter)
        BY PageStep DEF Kept, Ghosts
      <4>2. i \in Nat
        BY <4>1, QueryAssumption DEF Matching, Kept, TypeOK
      <4> QED
        BY <1>8, <2>2, <4>1, <4>2 DEF Wanted
    <3>2. PICK k \in 1 .. Len(ids) : ids[k] = i
      BY <1>5, <3>1
    <3>3. k <= Len(items)
      <4>1. CASE phase' = "done"
        <5>1. Len(items) # limit
          BY <1>1, <4>1, PageStep
        <5> QED
          BY <1>6, <5>1
      <4>2. CASE i <= cursor'
        <5>1. items # <<>> /\ cursor' = Last(items)
          BY <1>1, <2>2, <4>2, PageStep
        <5>2. Len(items) \in 1 .. Len(ids) /\ cursor' = ids[Len(items)]
          BY <1>4, <1>6, <5>1, EmptySeq DEF Last
        <5>3. SUFFICES ASSUME Len(items) < k PROVE FALSE
          BY <1>4, <1>6
        <5>4. ids[Len(items)] < ids[k]
          BY <1>5, <5>2, <5>3
        <5>5. ids[k] \in Nat /\ ids[Len(items)] \in Nat
          BY <1>5, <5>2, ElementOfSeq
        <5> QED
          BY <3>2, <4>2, <5>2, <5>4, <5>5
      <4> QED
        BY <1>13, <4>1, <4>2
    <3>4. k \in 1 .. Len(items) /\ items[k] = i
      BY <1>4, <1>6, <3>2, <3>3
    <3>5. i \in Range(items)
      BY <1>4, <3>4 DEF Range
    <3> QED
      BY <1>12, <3>5
  <2> QED
    BY <2>1, <2>2
<1>14. UNCHANGED <<sort, steady>>
  BY PageStep
<1> QED
  BY <1>1, <1>3, <1>10, <1>11, <1>13, <1>14 DEF ByCursor

\* Every step keeps the invariant.
LEMMA KeptStep == Kept /\ [Next]_vars => Kept'
<1> SUFFICES ASSUME Kept, [Next]_vars PROVE Kept'
  OBVIOUS
<1>1. TypeOK'
  BY TypeStep DEF Kept
<1>2. SUFFICES Fresh' /\ Ghosts' /\ ByCursor' /\ ByOffset'
  BY <1>1 DEF Kept
<1>3. CASE Ask
  BY <1>3, KeptAsk
<1>4. CASE Page
  BY <1>4, GhostsPage, ByCursorPage, ByOffsetPage
<1>5. ASSUME NEW i \in Ids, Delete(i)
      PROVE  Fresh' /\ Ghosts' /\ ByCursor' /\ ByOffset'
  BY <1>5, KeptChanged DEF Delete
<1>6. ASSUME NEW i \in Ids, NEW d \in Documents, Put(i, d)
      PROVE  Fresh' /\ Ghosts' /\ ByCursor' /\ ByOffset'
  BY <1>6, KeptChanged DEF Put
<1>7. CASE UNCHANGED vars
  <2>1. UNCHANGED <<docs, filter, sort, ties, useCursor, cursor, offset, got, phase,
                    counted, steady, ever, quiet>>
    BY <1>7 DEF vars, request
  <2>2. InOrder(Matching(docs, filter))' = InOrder(Matching(docs, filter))
    <3>1. PICK S : S = Matching(docs, filter)
      OBVIOUS
    <3>2. Matching(docs, filter)' = S
      BY <2>1, <3>1
    <3>3. InOrder(S)' = InOrder(S)
      BY <2>1, SameOrder
    <3> QED
      BY <3>1, <3>2, <3>3
  <2>3. Fresh' /\ Ghosts' /\ ByCursor'
    BY <2>1 DEF Kept, Fresh, Ghosts, ByCursor
  <2>4. ByOffset'
    BY <2>1, <2>2 DEF Kept, ByOffset
  <2> QED
    BY <2>3, <2>4
<1> QED
  BY <1>3, <1>4, <1>5, <1>6, <1>7 DEF Next

\* Cursor and offset stand where the ids given so far end, at all times.
THEOREM AlwaysKept == Spec => []Kept
<1>1. Init => Kept
  BY KeptInit
<1>2. Kept /\ [Next]_vars => Kept'
  BY KeptStep
<1> QED
  BY <1>1, <1>2, PTL DEF Spec

-----------------------------------------------------------------------------
\* Every variable has its type; a page has between 1 and max_query_limit items,
\* however the limit and max_query_limit are chosen, 0 included.
THEOREM QueryTypes == Spec => []TypeOK
<1>1. Kept => TypeOK
  BY DEF Kept
<1> QED
  BY <1>1, AlwaysKept, PTL

\* A sequence with every element of a set once is as long as the set is large.
LEMMA DistinctCount ==
    ASSUME NEW s, NEW S, s \in Seq(S),
           \A j, k \in 1 .. Len(s) : j # k => s[j] # s[k],
           \A i \in S : \E k \in 1 .. Len(s) : s[k] = i
    PROVE  Cardinality(S) = Len(s)
<1>1. Len(s) \in Nat /\ s \in [1 .. Len(s) -> S]
  BY LenProperties
<1>2. s \in Bijection(1 .. Len(s), S)
  BY <1>1 DEF Bijection, Injection, Surjection, IsInjective
<1> QED
  BY <1>1, <1>2, FS_CountingElements DEF ExistsBijection

\* The invariant implies that the pages are exact.
LEMMA KeptExact == Kept => PagesAreExact
<1> SUFFICES ASSUME Kept, useCursor \/ quiet
             PROVE  /\ \A j, k \in DOMAIN got : j < k => got[j] # got[k]
                    /\ \A j \in DOMAIN got : got[j] \in ever
                    /\ useCursor => \A j, k \in DOMAIN got : j < k => got[j] < got[k]
                    /\ phase = "done" => steady \subseteq Range(got)
                    /\ quiet /\ phase = "done" => counted = Len(got)
  BY DEF PagesAreExact
<1>1. got \in Seq(Ids) /\ Len(got) \in Nat /\ DOMAIN got = 1 .. Len(got)
  BY DEF Kept, TypeOK
<1>2. CASE phase = "before"
  BY <1>2 DEF Kept, Fresh
<1>3. CASE phase # "before"
  <2>1. \A j \in DOMAIN got : got[j] \in ever
    BY <1>3 DEF Kept, Ghosts
  <2>2. \A j, k \in DOMAIN got : j < k => got[j] # got[k]
    <3>1. CASE useCursor
      <4>1. \A j, k \in DOMAIN got : j < k => got[j] < got[k]
        BY <3>1 DEF Kept, ByCursor
      <4>2. \A j \in DOMAIN got : got[j] \in Nat
        BY <1>1, IdsAreNumbers
      <4> QED
        BY <4>1, <4>2
    <3>2. CASE ~useCursor
      <4>1. PICK all : all = InOrder(Matching(docs, filter))
        OBVIOUS
      <4>2. Len(got) <= Len(all) /\ \A k \in 1 .. Len(got) : got[k] = all[k]
        BY <3>2, <4>1 DEF Kept, ByOffset
      <4>3. /\ Matching(docs, filter) \in SUBSET DOMAIN docs
            /\ all \in Seq(Matching(docs, filter)) /\ Len(all) \in Nat
            /\ \A j, k \in 1 .. Len(all) : j < k => Precedes(all[j], all[k])
        <5>1. Matching(docs, filter) \in SUBSET DOMAIN docs
          BY DEF Matching
        <5> QED
          BY <4>1, <5>1, OrderedRows DEF Kept
      <4>4. ASSUME NEW j \in DOMAIN got, NEW k \in DOMAIN got, j < k, got[j] = got[k]
            PROVE  FALSE
        <5>1. j \in 1 .. Len(all) /\ k \in 1 .. Len(all)
          BY <1>1, <4>2, <4>3
        <5>2. Precedes(got[j], got[j]) /\ got[j] \in DOMAIN docs
          BY <1>1, <4>2, <4>3, <4>4, <5>1
        <5> QED
          BY <5>2, PrecedesTotal DEF Kept
      <4> QED
        BY <4>4
    <3> QED
      BY <3>1, <3>2
  <2>3. useCursor => \A j, k \in DOMAIN got : j < k => got[j] < got[k]
    BY DEF Kept, ByCursor
  <2>4. ASSUME phase = "done"
        PROVE  steady \subseteq Range(got)
    <3>1. CASE useCursor
      BY <2>4, <3>1 DEF Kept, ByCursor
    <3>2. CASE ~useCursor
      <4>1. PICK all : all = InOrder(Matching(docs, filter))
        OBVIOUS
      <4>2. Len(got) = Len(all) /\ \A k \in 1 .. Len(got) : got[k] = all[k]
        BY <2>4, <3>2, <4>1 DEF Kept, ByOffset
      <4>3. \A i \in Matching(docs, filter) : \E k \in 1 .. Len(all) : all[k] = i
        <5>1. Matching(docs, filter) \in SUBSET DOMAIN docs
          BY DEF Matching
        <5> QED
          BY <4>1, <5>1, OrderedRows DEF Kept
      <4>4. steady \subseteq Matching(docs, filter)
        BY <1>3 DEF Kept, Ghosts
      <4>5. ASSUME NEW i \in steady
            PROVE  i \in Range(got)
        <5>1. PICK k \in 1 .. Len(all) : all[k] = i
          BY <4>3, <4>4
        <5>2. k \in DOMAIN got /\ got[k] = i
          BY <1>1, <4>2, <5>1
        <5> QED
          BY <5>2 DEF Range
      <4> QED
        BY <4>5
    <3> QED
      BY <3>1, <3>2
  <2>5. ASSUME quiet, phase = "done"
        PROVE  counted = Len(got)
    <3>1. PICK S : S = Matching(docs, filter)
      OBVIOUS
    <3>2. counted = Cardinality(S) /\ ever = S /\ steady = S
      BY <1>3, <2>5, <3>1 DEF Kept, Ghosts, Count
    <3>3. got \in Seq(S)
      BY <1>1, <2>1, <3>2
    <3>4. \A j, k \in 1 .. Len(got) : j # k => got[j] # got[k]
      <4>1. ASSUME NEW j \in 1 .. Len(got), NEW k \in 1 .. Len(got), j # k
            PROVE  got[j] # got[k]
        <5>1. j < k \/ k < j
          BY <4>1
        <5> QED
          BY <1>1, <2>2, <5>1
      <4> QED
        BY <4>1
    <3>5. \A i \in S : \E k \in 1 .. Len(got) : got[k] = i
      BY <1>1, <2>4, <2>5, <3>2 DEF Range
    <3>6. Cardinality(S) = Len(got)
      BY <3>3, <3>4, <3>5, DistinctCount
    <3> QED
      BY <3>2, <3>6
  <2> QED
    BY <2>1, <2>2, <2>3, <2>4, <2>5
<1> QED
  BY <1>2, <1>3

\* Paging by cursor gives each document that matched all the time exactly once,
\* in order, and none that never matched, under any writes; paging by offset does
\* if nothing is written, in every sort order, and agrees with the count.
THEOREM CursorPagesExact == Spec => []PagesAreExact
BY AlwaysKept, KeptExact, PTL

\* Of two values neither order of which is wrong, SQL finds them the same, or the
\* first NULL, or the first smaller.
LEMMA NotAfter ==
    ASSUME NEW v \in Values, NEW w \in Values, ~SortsBefore(w, v)
    PROVE  Same(v, w) \/ IsNull(v) \/ (~IsNull(w) /\ Below(v, w))
<1>1. CASE IsNull(v) \/ IsNull(w)
  BY <1>1 DEF SortsBefore
<1>2. CASE ~IsNull(v) /\ ~IsNull(w)
  <2>1. Sql(v)[1] \in Int /\ Sql(w)[1] \in Int /\ Sql(v)[2] \in Int /\ Sql(w)[2] \in Int
    BY DEF Sql, Values
  <2>2. Sql(v)[1] = Sql(w)[1] /\ Sql(v)[2] = Sql(w)[2] => Sql(v) = Sql(w)
    BY DEF Sql
  <2>3. ~Below(w, v)
    BY <1>2 DEF SortsBefore
  <2> QED
    BY <1>2, <2>1, <2>2, <2>3 DEF Below, Same
<1> QED
  BY <1>1, <1>2

\* The invariant implies that the pages are sorted.
LEMMA KeptSorted == Kept => PagesAreSorted
<1> SUFFICES ASSUME Kept, quiet, sort.by # "id", NEW j \in DOMAIN got, NEW k \in DOMAIN got, j < k
             PROVE  LET v == docs[got[j]][sort.by]
                        w == docs[got[k]][sort.by]
                    IN  IF sort.desc THEN Same(v, w) \/ IsNull(w) \/ (~IsNull(v) /\ Below(w, v))
                        ELSE Same(v, w) \/ IsNull(v) \/ (~IsNull(w) /\ Below(v, w))
  BY DEF PagesAreSorted
<1>1. got \in Seq(Ids) /\ Len(got) \in Nat /\ DOMAIN got = 1 .. Len(got)
  BY DEF Kept, TypeOK
<1>2. ~useCursor
  BY DEF Kept, ByCursor, ById
<1>3. PICK all : all = InOrder(Matching(docs, filter))
  OBVIOUS
<1>4. Len(got) <= Len(all) /\ got[j] = all[j] /\ got[k] = all[k]
  BY <1>1, <1>2, <1>3 DEF Kept, ByOffset
<1>5. /\ all \in Seq(DOMAIN docs) /\ Len(all) \in Nat
      /\ \A l, m \in 1 .. Len(all) : l < m => Precedes(all[l], all[m])
  <2>1. Matching(docs, filter) \in SUBSET DOMAIN docs
    BY DEF Matching
  <2>2. /\ all \in Seq(Matching(docs, filter)) /\ Len(all) \in Nat
        /\ \A l, m \in 1 .. Len(all) : l < m => Precedes(all[l], all[m])
    BY <1>3, <2>1, OrderedRows DEF Kept
  <2> QED
    BY <2>1, <2>2, SeqMonotonic
<1>6. j \in 1 .. Len(all) /\ k \in 1 .. Len(all)
  BY <1>1, <1>4, <1>5
<1>7. Precedes(got[j], got[k]) /\ got[j] \in DOMAIN docs /\ got[k] \in DOMAIN docs
  BY <1>4, <1>5, <1>6
<1>8. sort.by \in Fields
  BY QueryAssumption DEF Kept, TypeOK, ById
<1>9. PICK v, w \in Values : v = docs[got[j]][sort.by] /\ w = docs[got[k]][sort.by]
  BY <1>7, <1>8, QueryAssumption DEF Kept, TypeOK, Values
<1>10. IF sort.desc THEN ~SortsBefore(v, w) ELSE ~SortsBefore(w, v)
  BY <1>7, <1>9, SortsBeforeOrder DEF Precedes
<1>11. CASE sort.desc
  <2>1. Same(w, v) \/ IsNull(w) \/ (~IsNull(v) /\ Below(w, v))
    BY <1>10, <1>11, NotAfter
  <2> QED
    BY <1>9, <1>11, <2>1 DEF Same
<1>12. CASE ~sort.desc
  BY <1>9, <1>10, <1>12, NotAfter
<1> QED
  BY <1>11, <1>12

\* The pages together are sorted as SQL compares, across the boundaries of the
\* pages too, whatever the types of the values, and with missing fields.
THEOREM OffsetPagesSorted == Spec => []PagesAreSorted
BY AlwaysKept, KeptSorted, PTL

\* A document that passes the filter of a subscription matches the same filter of
\* a query: equal JSON values that are not null are the same for SQL.
LEMMA StreamFollowsQuery ==
    ASSUME NEW doc, NEW f, NullFree(f), Subscribable(f), StreamPasses(doc, f)
    PROVE  Matches(doc, f)
<1>1. ASSUME NEW t \in f.all
      PROVE  Satisfies(doc[t.field], t)
  <2>1. t.op \in {"$eq", "$in"}
    BY DEF Subscribable
  <2>2. CASE t.op = "$in"
    <3>1. doc[t.field] \in t.arg /\ ~IsNull(doc[t.field])
      BY <2>2 DEF StreamPasses, NullFree
    <3> QED
      BY <2>2, <3>1 DEF Satisfies, Same
  <2>3. CASE t.op = "$eq"
    <3>1. doc[t.field] = t.arg /\ ~IsNull(t.arg)
      BY <2>3 DEF StreamPasses, NullFree
    <3> QED
      BY <2>3, <3>1 DEF Satisfies, Same
  <2> QED
    BY <2>1, <2>2, <2>3
<1>2. SatisfiesAll(doc, f.all)
  BY <1>1 DEF SatisfiesAll
<1>3. SatisfiesAll(doc, {}) /\ f.any = {{}}
  BY DEF SatisfiesAll, Subscribable
<1> QED
  BY <1>2, <1>3 DEF Matches

\* Who follows the changes with the filter of its query is sent no document that
\* the query would not give.
THEOREM StreamSubsetOfQuery == Spec => []StreamedIsQueried
<1>1. StreamedIsQueried
  BY StreamFollowsQuery DEF StreamedIsQueried, Matching
<1> QED
  BY <1>1, PTL
=============================================================================
