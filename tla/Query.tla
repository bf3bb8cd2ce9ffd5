------------------------------- MODULE Query -------------------------------
(***************************************************************************)
(* Queries over one collection: the filter language as compile_filter      *)
(* turns it into SQL (src/src/query.rs), the pages a client fetches with a *)
(* cursor or an offset while others write (src/src/api/query_ep.rs), and   *)
(* the filter of a subscription, which is evaluated on JSON values instead *)
(* (EqFilter in src/src/realtime.rs).                                      *)
(*                                                                         *)
(* A page is one SELECT and so one snapshot.  Ids are numbers in the order *)
(* of their text; generated ids need not grow, and clients choose ids too. *)
(* A document gives each field path a value, "missing" if it has none; n   *)
(* orders the numbers, with false and true among them, and the texts.  A   *)
(* behaviour is one query, on whatever earlier writes left.  Projections,  *)
(* sorting by several columns and collections that do not exist yet (they  *)
(* read as empty) are left out.                                            *)
(***************************************************************************)
EXTENDS Integers, Sequences, FiniteSets, SequencesExt

CONSTANTS
    Ids,         \* document ids, numbers
    Fields,      \* field paths
    Documents,   \* documents clients write
    Filters,     \* filters the client may use
    Sorts,       \* sort orders it may ask for
    Limits,      \* the limits a request may give, Unset for none
    MaxLimit,    \* max_query_limit
    MaxWrites    \* bound: writes between the first page and the last

Unset == -1
DefaultLimit == 50

Types == {"missing", "null", "bool", "integer", "real", "text"}

ASSUME QueryAssumption ==
    /\ Ids \subseteq Nat \ {0} /\ IsFiniteSet(Ids)
    /\ Documents \subseteq [Fields -> [type : Types, n : Int]]
    /\ Sorts \subseteq [by : Fields \cup {"id"}, desc : BOOLEAN] /\ "id" \notin Fields
    /\ Limits \subseteq Nat \cup {Unset}
    /\ MaxLimit \in Nat /\ MaxWrites \in Nat

-----------------------------------------------------------------------------
(* A filter is a conjunction of tests, and of a disjunction of such        *)
(* conjunctions; {{}} stands for no $or.                                   *)

Missing == [type |-> "missing", n |-> 0]

\* json_extract: null and missing are NULL, booleans are 0 and 1, and numbers
\* sort before texts whatever their type.
IsNull(v) == v.type \in {"missing", "null"}
Sql(v) == <<IF v.type = "text" THEN 1 ELSE 0, v.n>>

Same(v, w) == ~IsNull(v) /\ ~IsNull(w) /\ Sql(v) = Sql(w)

Below(v, w) ==
    /\ ~IsNull(v) /\ ~IsNull(w)
    /\ \/ Sql(v)[1] < Sql(w)[1]
       \/ Sql(v)[1] = Sql(w)[1] /\ Sql(v)[2] < Sql(w)[2]

\* Whether the SQL of a test is true (compile_operator); "$gte" and "$lt" are
\* like the two given.
Satisfies(v, test) ==
    LET w == test.arg IN
    CASE test.op = "$in" -> \E a \in w : Same(v, a)
      [] test.op = "$eq" -> IF IsNull(w) THEN IsNull(v) ELSE Same(v, w)
      [] test.op = "$ne" -> IF IsNull(w) THEN ~IsNull(v) ELSE ~Same(v, w)
      [] test.op = "$gt" -> Below(w, v)
      [] test.op = "$lte" -> Below(v, w) \/ Same(v, w)

SatisfiesAll(doc, tests) == \A t \in tests : Satisfies(doc[t.field], t)

Matches(doc, filter) ==
    SatisfiesAll(doc, filter.all) /\ \E tests \in filter.any : SatisfiesAll(doc, tests)

\* (mistaken) a field that is missing passes
StreamPassesMissing(doc, filter) ==
    \A t \in filter.all :
        \/ doc[t.field] = Missing
        \/ doc[t.field] \in (IF t.op = "$in" THEN t.arg ELSE {t.arg})

\* EqFilter::matches: equality of JSON values, so 1, 1.0 and true differ.
StreamPasses(doc, filter) ==
    \A t \in filter.all :
        /\ doc[t.field] # Missing
        /\ doc[t.field] \in (IF t.op = "$in" THEN t.arg ELSE {t.arg})

\* EqFilter::parse: what a subscription accepts.
Subscribable(filter) ==
    filter.any = {{}} /\ \A t \in filter.all : t.op \in {"$eq", "$in"}

-----------------------------------------------------------------------------
VARIABLES
    docs,        \* the collection: id -> document
    writes,
    filter, sort, limit, useCursor,   \* what the client asks for
    ties,                       \* whether SQLite's plan gives ties in descending order of id
    cursor, offset,             \* where its next page starts; 0 for no cursor
    got,         \* the ids it was given
    phase,       \* "before", "asking" for pages, or "done"
    counted,     \* what a count with the same filter gave
    steady,      \* ghost: ids that matched ever since the first page
    ever,        \* ghost: ids that matched at some time since
    quiet        \* ghost: nothing was written since

request == <<filter, sort, limit, useCursor, ties>>
vars == <<docs, writes, request, cursor, offset, got, phase, counted, steady, ever, quiet>>

Matching(ds, f) == {i \in DOMAIN ds : Matches(ds[i], f)}

ById == [by |-> "id", desc |-> FALSE]

\* The smallest limit is 1 (query clamps what the request gives).
ClampedZero(l) ==
    LET wanted == IF l = Unset THEN DefaultLimit ELSE l IN
    IF wanted > MaxLimit THEN MaxLimit ELSE wanted

Clamped(l) ==
    LET wanted == IF l = Unset THEN DefaultLimit ELSE l
        capped == IF wanted > MaxLimit THEN MaxLimit ELSE wanted
    IN  IF capped < 1 THEN 1 ELSE capped

\* Whatever earlier writes left in the collection.
Init ==
    /\ docs \in UNION {[S -> Documents] : S \in SUBSET Ids} /\ writes = 0
    /\ filter \in Filters /\ sort = ById /\ limit = 1 /\ useCursor = TRUE /\ ties = FALSE
    /\ cursor = 0 /\ offset = 0 /\ got = <<>> /\ phase = "before" /\ counted = 0
    /\ steady = {} /\ ever = {} /\ quiet = TRUE

\* What the endpoint count answers.
Count(ds, f) == Cardinality(Matching(ds, f))

\* The client asks for the count, then for pages.  Only the default order gives a cursor (is_cursor_compatible).
Ask ==
    /\ phase = "before" /\ phase' = "asking"
    /\ sort' \in Sorts /\ ties' \in (IF sort'.by = "id" THEN {FALSE} ELSE BOOLEAN)
    /\ \E l \in Limits : limit' = Clamped(l)
    /\ useCursor' \in (IF sort' = ById THEN BOOLEAN ELSE {FALSE})
    /\ counted' = Count(docs, filter)
    /\ steady' = Matching(docs, filter) /\ ever' = steady'
    /\ UNCHANGED <<docs, writes, filter, cursor, offset, got, quiet>>

\* NULL sorts before every value (compile_sort).
SortsBefore(v, w) == IF IsNull(v) THEN ~IsNull(w) ELSE Below(v, w)

\* (mistaken) the direction is lost
PrecedesAscending(i, j) ==
    IF sort.by = "id" THEN i < j
    ELSE LET v == docs[i][sort.by]
             w == docs[j][sort.by]
         IN  SortsBefore(v, w) \/ (~SortsBefore(w, v) /\ (IF ties THEN j < i ELSE i < j))

\* The order of two rows that match.
Precedes(i, j) ==
    IF sort.by = "id" THEN (IF sort.desc THEN j < i ELSE i < j)
    ELSE LET v == docs[i][sort.by]
             w == docs[j][sort.by]
             before == IF sort.desc THEN SortsBefore(w, v) ELSE SortsBefore(v, w)
             after == IF sort.desc THEN SortsBefore(v, w) ELSE SortsBefore(w, v)
         IN  before \/ (~after /\ (IF ties THEN j < i ELSE i < j))

\* ORDER BY: the ids of S, each once, in that order.
InOrder(S) ==
    CHOOSE ids \in [1 .. Cardinality(S) -> S] :
        \A j, k \in DOMAIN ids : j < k => Precedes(ids[j], ids[k])

\* (mistaken) the row at the cursor is given again
RowsInclusive ==
    LET ids == InOrder({i \in Matching(docs, filter) : i >= cursor}) IN
    IF useCursor THEN ids ELSE SubSeq(ids, offset + 1, Len(ids))

\* WHERE ... AND id > cursor ORDER BY id, or ORDER BY ... OFFSET
Rows ==
    LET ids == InOrder({i \in Matching(docs, filter) : i > cursor}) IN
    IF useCursor THEN ids ELSE SubSeq(ids, offset + 1, Len(ids))

\* A page that is not full is the last one.
Page ==
    LET items == SubSeq(Rows, 1, Min({limit, Len(Rows)})) IN
    /\ phase = "asking"
    /\ got' = got \o items
    /\ cursor' = IF useCursor /\ items # <<>> THEN Last(items) ELSE cursor
    /\ offset' = IF useCursor THEN offset ELSE offset + Len(items)
    /\ phase' = IF Len(items) = limit THEN "asking" ELSE "done"
    /\ UNCHANGED <<docs, writes, request, counted, steady, ever, quiet>>

Changed ==
    /\ phase = "asking"
    /\ writes < MaxWrites /\ writes' = writes + 1
    /\ steady' = steady \cap Matching(docs', filter)
    /\ ever' = ever \cup Matching(docs', filter)
    /\ quiet' = FALSE
    /\ UNCHANGED <<request, cursor, offset, got, phase, counted>>

Put(i, d) ==
    /\ docs' = [j \in DOMAIN docs \cup {i} |-> IF j = i THEN d ELSE docs[j]]
    /\ Changed

Delete(i) ==
    /\ i \in DOMAIN docs
    /\ docs' = [j \in DOMAIN docs \ {i} |-> docs[j]]
    /\ Changed

Next ==
    \/ Ask \/ Page
    \/ \E i \in Ids : Delete(i) \/ \E d \in Documents : Put(i, d)

Spec == Init /\ [][Next]_vars

-----------------------------------------------------------------------------
\* Every variable has its type; in particular a page has between 1 and
\* max_query_limit items, 1 also when the configuration says 0.
TypeOK ==
    /\ DOMAIN docs \subseteq Ids /\ \A i \in DOMAIN docs : docs[i] \in Documents
    /\ writes \in 0 .. MaxWrites
    /\ filter \in Filters /\ sort \in Sorts \cup {ById} /\ useCursor \in BOOLEAN /\ ties \in BOOLEAN
    /\ limit \in 1 .. (IF MaxLimit = 0 THEN 1 ELSE MaxLimit)
    /\ cursor \in Ids \cup {0} /\ offset \in Nat
    /\ got \in Seq(Ids) /\ phase \in {"before", "asking", "done"} /\ quiet \in BOOLEAN
    /\ counted \in 0 .. Cardinality(Ids)
    /\ steady \subseteq ever /\ ever \subseteq Ids

\* Paging by cursor gives every document that matched all the time exactly once,
\* in order, and none that never matched, whatever is created, replaced and
\* deleted between two pages.  Paging by offset, in whatever order, does if
\* nothing is, and gives as many as a count with the same filter.
PagesAreExact ==
    useCursor \/ quiet =>
        /\ \A j, k \in DOMAIN got : j < k => got[j] # got[k]
        /\ \A j \in DOMAIN got : got[j] \in ever
        /\ useCursor => \A j, k \in DOMAIN got : j < k => got[j] < got[k]
        /\ phase = "done" => steady \subseteq Range(got)
        /\ quiet /\ phase = "done" => counted = Len(got)

\* With a sort on a field or in descending order the pages together are sorted
\* as SQL compares, across the boundaries of the pages too; a document without
\* the field comes first, or last if descending.
PagesAreSorted ==
    quiet /\ sort.by # "id" =>
        \A j, k \in DOMAIN got : j < k =>
            LET v == docs[got[j]][sort.by]
                w == docs[got[k]][sort.by]
            IN  IF sort.desc THEN Same(v, w) \/ IsNull(w) \/ (~IsNull(v) /\ Below(w, v))
                ELSE Same(v, w) \/ IsNull(v) \/ (~IsNull(w) /\ Below(v, w))

\* Tests against null are where the two filters differ on purpose or not: a
\* query's null matches a missing field, and $in never matches null.
NullFree(f) ==
    \A t \in f.all : \A a \in (IF t.op = "$in" THEN t.arg ELSE {t.arg}) : ~IsNull(a)

\* Who queries the state with a filter and then follows the changes with the
\* same filter is sent no document that the query would not give; it may be sent
\* fewer, because SQL equates numbers and booleans that JSON does not.
StreamedIsQueried ==
    NullFree(filter) /\ Subscribable(filter) =>
        \A i \in DOMAIN docs :
            StreamPasses(docs[i], filter) => i \in Matching(docs, filter)
=============================================================================
