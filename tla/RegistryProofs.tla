--------------------------- MODULE RegistryProofs ---------------------------
(***************************************************************************)
(* Theorems about module Registry, for every instance: any number of       *)
(* requests, users, files and handles, all failures and any number of      *)
(* restarts.                                                               *)
(***************************************************************************)
EXTENDS Registry, FiniteSetTheorems, TLAPS

-----------------------------------------------------------------------------
\* A deletion has the database to itself.
Alone ==
    \A p, q \in Procs : Running(p) /\ kind[p] = "delete" /\ Running(q) => p = q

\* What each place of a request means for the registry and its mutex.
Fits(p) ==
    /\ place[p] \in {"unlink", "unlist", "ungrant"} =>
          kind[p] = "delete" /\ cached = None /\ acked = {}
    /\ place[p] \in {"open_pool", "use", "stream"} <=> held[p] # None
    /\ place[p] \in {"open_writer", "open_pool"} <=> p \in lock
    /\ place[p] \in {"found", "authorized", "lookup", "open_writer", "open_pool",
                     "use", "unlink", "unlist"} => record
    /\ p \in lock => cached = None
    /\ place[p] = "use" => held[p] = cached

Mutex ==
    /\ \A p, q \in lock : p = q
    /\ \A p, q \in Procs : place[p] = "open_pool" /\ held[q] = held[p] => p = q

Control == Alone /\ Mutex /\ \A p \in Procs : Fits(p)

\* The registry's handle, and the one being opened, have the file at the path open.
AtPath ==
    /\ \A h \in Live : writer[h] # None
    /\ cached # None => writer[cached] = path /\ pool[cached] = path
    /\ \A p \in Procs : place[p] = "open_pool" => writer[held[p]] = path

\* No other handle has, unless its removal failed or is about to happen.
OnlyAtPath ==
    \A g \in Live :
        \/ writer[g] # path \/ path \in kept \/ g = cached
        \/ \E p \in Procs : place[p] = "open_pool" /\ held[p] = g
        \/ \E p \in Procs : place[p] = "unlink"

Clean == path = None \/ path \in kept \/ contents[path] = {}

Documents ==
    /\ \A f \in Files : contents[f] \subseteq 1 .. docs
    /\ acked \subseteq 1 .. docs
    /\ path # None /\ path \notin kept => \A d \in contents[path] : madeIn[d] = era
    /\ ~record => Clean /\ acked = {}
    /\ \A p \in Procs : place[p] = "unlist" => Clean
    /\ \A d \in acked : madeIn[d] = era => path # None /\ d \in contents[path]

Grants == record \/ torn \/ grants = {} \/ \E p \in Procs : place[p] = "ungrant"

Counted ==
    /\ docs + Waiting("write") <= MaxWrites
    /\ era + Cardinality({p \in Procs : place[p] = "start" /\ kind[p] = "create"}) <= MaxCreates

IndInv == TypeOK /\ Counted /\ Control /\ AtPath /\ OnlyAtPath /\ SingleWriter /\ Documents /\ Grants

-----------------------------------------------------------------------------
(***************************************************************************)
(* Types, and the counts that keep the documents and the creations within  *)
(* their bounds.                                                           *)
(***************************************************************************)
Writing == {p \in Procs : Running(p) /\ kind[p] = "write"}
Creating == {p \in Procs : Running(p) /\ kind[p] = "create"}
ToCreate == {p \in Procs : place[p] = "start" /\ kind[p] = "create"}

Within ==
    /\ docs + Cardinality(Writing) <= MaxWrites
    /\ era + Cardinality(ToCreate) <= MaxCreates

LEMMA CountedIsWithin == Counted <=> Within
BY DEF Counted, Within, Waiting, Writing, ToCreate

LEMMA Counts ==
    /\ IsFiniteSet(Writing) /\ Cardinality(Writing) \in Nat
    /\ IsFiniteSet(Creating) /\ Cardinality(Creating) \in Nat
    /\ IsFiniteSet(ToCreate) /\ Cardinality(ToCreate) \in Nat
    /\ Cardinality(ToCreate) <= Cardinality(Creating)
    /\ Waiting("write") = Cardinality(Writing) /\ Waiting("create") = Cardinality(Creating)
<1>1. Writing \in SUBSET Procs /\ Creating \in SUBSET Procs /\ ToCreate \in SUBSET Creating
  BY DEF Writing, Creating, ToCreate, Running
<1>2. IsFiniteSet(Writing) /\ IsFiniteSet(Creating)
  BY <1>1, RegistryAssumption, FS_Subset
<1>3. IsFiniteSet(ToCreate) /\ Cardinality(ToCreate) <= Cardinality(Creating)
  BY <1>1, <1>2, FS_Subset
<1>4. QED
  BY <1>2, <1>3, FS_CardinalityType DEF Waiting, Writing, Creating

LEMMA FewerCount ==
    ASSUME NEW S, NEW T, IsFiniteSet(S), T \subseteq S
    PROVE  Cardinality(T) \in Nat /\ Cardinality(T) <= Cardinality(S)
BY FS_Subset, FS_CardinalityType

LEMMA OneFewer ==
    ASSUME NEW S, NEW T, NEW x \in S, IsFiniteSet(S), T \subseteq S \ {x}
    PROVE  Cardinality(T) \in Nat /\ Cardinality(T) + 1 <= Cardinality(S)
<1>1. IsFiniteSet(S \ {x}) /\ Cardinality(S \ {x}) = Cardinality(S) - 1
  BY FS_RemoveElement
<1>2. Cardinality(T) \in Nat /\ Cardinality(T) <= Cardinality(S \ {x})
  BY <1>1, FewerCount
<1>3. Cardinality(S) \in Nat
  BY FS_CardinalityType
<1>4. QED
  BY <1>1, <1>2, <1>3

LEMMA OneMoreCount ==
    ASSUME NEW S, NEW T, NEW x, IsFiniteSet(S), T \subseteq S \cup {x}
    PROVE  Cardinality(T) \in Nat /\ Cardinality(T) <= Cardinality(S) + 1
<1>1. IsFiniteSet(S \cup {x})
      /\ Cardinality(S \cup {x}) = IF x \in S THEN Cardinality(S) ELSE Cardinality(S) + 1
  BY FS_AddElement
<1>2. Cardinality(T) \in Nat /\ Cardinality(T) <= Cardinality(S \cup {x})
  BY <1>1, FewerCount
<1>3. Cardinality(S) \in Nat
  BY FS_CardinalityType
<1>4. QED
  BY <1>1, <1>2, <1>3

Bounds == docs \in Nat /\ era \in Nat /\ Within

\* Steps that make no document and no database, and take no new request.
LEMMA WithinKept ==
    ASSUME Bounds, docs' = docs, era' = era, Writing' \subseteq Writing, ToCreate' \subseteq ToCreate
    PROVE  Within'
<1>1. Cardinality(Writing') \in Nat /\ Cardinality(Writing') <= Cardinality(Writing)
  BY Counts, FewerCount
<1>2. Cardinality(ToCreate') \in Nat /\ Cardinality(ToCreate') <= Cardinality(ToCreate)
  BY Counts, FewerCount
<1>3. QED
  BY <1>1, <1>2, Counts, RegistryAssumption DEF Bounds, Within

LEMMA ArriveWithin ==
    ASSUME Bounds, NEW p \in Procs, NEW k \in Kinds, NEW u \in Users, Arrive(p, k, u),
           place \in [Procs -> Places], kind \in [Procs -> Kinds \cup {"none"}]
    PROVE  Within'
<1>1. docs' = docs /\ era' = era
  BY DEF Arrive, ghosts, history
<1>2. Writing' \subseteq (IF k = "write" THEN Writing \cup {p} ELSE Writing)
  BY DEF Arrive, Writing, Running
<1>3. ToCreate' \subseteq (IF k = "create" THEN ToCreate \cup {p} ELSE ToCreate)
  BY DEF Arrive, ToCreate
<1>4. CASE k = "write"
  <2>1. Cardinality(Writing') \in Nat /\ Cardinality(Writing') <= Cardinality(Writing) + 1
    BY <1>2, <1>4, Counts, OneMoreCount
  <2>2. docs + Cardinality(Writing) < MaxWrites
    BY <1>4, Counts DEF Arrive
  <2>3. Cardinality(ToCreate') \in Nat /\ Cardinality(ToCreate') <= Cardinality(ToCreate)
    BY <1>3, <1>4, Counts, FewerCount
  <2>4. QED
    BY <1>1, <2>1, <2>2, <2>3, Counts, RegistryAssumption DEF Bounds, Within
<1>5. CASE k = "create"
  <2>1. Cardinality(ToCreate') \in Nat /\ Cardinality(ToCreate') <= Cardinality(ToCreate) + 1
    BY <1>3, <1>5, Counts, OneMoreCount
  <2>2. era + Cardinality(Creating) < MaxCreates
    BY <1>5, Counts DEF Arrive
  <2>3. Cardinality(Writing') \in Nat /\ Cardinality(Writing') <= Cardinality(Writing)
    BY <1>2, <1>5, Counts, FewerCount
  <2>4. QED
    BY <1>1, <2>1, <2>2, <2>3, Counts, RegistryAssumption DEF Bounds, Within
<1>6. CASE k \notin {"write", "create"}
  BY <1>1, <1>2, <1>3, <1>6, WithinKept
<1>7. QED
  BY <1>4, <1>5, <1>6

\* The name is created by a request that waited for that ...
LEMMA CreateWithin ==
    ASSUME Bounds, NEW p \in ToCreate, docs' = docs, era' = era + 1,
           Writing' \subseteq Writing, ToCreate' \subseteq ToCreate \ {p}
    PROVE  Within' /\ era + 1 <= MaxCreates
<1>1. Cardinality(Writing') \in Nat /\ Cardinality(Writing') <= Cardinality(Writing)
  BY Counts, FewerCount
<1>2. Cardinality(ToCreate') \in Nat /\ Cardinality(ToCreate') + 1 <= Cardinality(ToCreate)
  BY Counts, OneFewer
<1>3. QED
  BY <1>1, <1>2, Counts, RegistryAssumption DEF Bounds, Within

\* ... and a document is written by one that waited for that.
LEMMA WriteWithin ==
    ASSUME Bounds, NEW p \in Writing, docs' = docs + 1, era' = era,
           Writing' \subseteq Writing \ {p}, ToCreate' \subseteq ToCreate
    PROVE  Within' /\ docs + 1 <= MaxWrites
<1>1. Cardinality(ToCreate') \in Nat /\ Cardinality(ToCreate') <= Cardinality(ToCreate)
  BY Counts, FewerCount
<1>2. Cardinality(Writing') \in Nat /\ Cardinality(Writing') + 1 <= Cardinality(Writing)
  BY Counts, OneFewer
<1>3. QED
  BY <1>1, <1>2, Counts, RegistryAssumption DEF Bounds, Within

\* A step of a request takes it on or ends it, and no other request moves.
Moves(p, places) ==
    /\ \E where \in places : place' = [place EXCEPT ![p] = where]
    /\ kind' = kind \/ kind' = [kind EXCEPT ![p] = "none"]

LEMMA MovesKeepCounts ==
    ASSUME NEW p \in Procs, Moves(p, Places \ {"start"}), Running(p) \/ place'[p] = "idle",
           place \in [Procs -> Places], kind \in [Procs -> Kinds \cup {"none"}]
    PROVE  Writing' \subseteq Writing /\ ToCreate' \subseteq ToCreate \ {p}
BY DEF Moves, Writing, ToCreate, Running

LEMMA LockKept ==
    ASSUME NEW p \in Procs, lock \subseteq Procs, Cardinality(lock) <= 1
    PROVE  /\ lock \ {p} \subseteq Procs /\ Cardinality(lock \ {p}) <= 1
           /\ lock = {} => lock \cup {p} \subseteq Procs /\ Cardinality(lock \cup {p}) <= 1
<1>1. IsFiniteSet(lock)
  BY RegistryAssumption, FS_Subset
<1>2. Cardinality(lock \ {p}) <= Cardinality(lock) /\ Cardinality(lock \ {p}) \in Nat
      /\ Cardinality(lock) \in Nat
  BY <1>1, FewerCount, FS_CardinalityType
<1>3. lock = {} => lock \cup {p} = {p}
  OBVIOUS
<1>4. QED
  BY <1>2, <1>3, FS_Singleton

Typed == TypeOK /\ Within

LEMMA OpenPathTyped ==
    ASSUME TypeOK, OpenPath
    PROVE  /\ path' \in Files /\ contents' \in [Files -> SUBSET Docs] /\ kept' \subseteq Files
           /\ path # None => path' = path /\ contents' = contents /\ kept' = kept
           /\ path = None => /\ path' \notin InUse
                             /\ \A f \in Files : contents'[f] = IF f = path' THEN {} ELSE contents[f]
                             /\ kept' = kept \ {path'}
<1>1. CASE path # None
  BY <1>1 DEF TypeOK, OpenPath, disk
<1>2. CASE path = None
  <2>1. path' \in Files /\ path' \notin InUse
    BY <1>2 DEF OpenPath
  <2>2. QED
    BY <1>2, <2>1 DEF TypeOK, OpenPath
<1>3. QED
  BY <1>1, <1>2

LEMMA FreshHandle ==
    ASSUME NEW p \in Procs, TypeOK, OpenWriter(p)
    PROVE  /\ held'[p] \in Handles /\ held'[p] \notin Live
           /\ \A q \in Procs : q # p => held'[q] = held[q]
<1>1. held' = [held EXCEPT ![p] = CHOOSE h \in Handles : h \notin Live]
  BY DEF OpenWriter
<1>2. \E h \in Handles : h \notin Live
  BY DEF OpenWriter
<1>3. QED
  BY <1>1, <1>2 DEF TypeOK

LEMMA TypesKept ==
    ASSUME Typed, [Next]_vars
    PROVE  Typed'
<1> USE RegistryAssumption DEF system, disk, open, request, history, ghosts
<1>0. TypeOK /\ Bounds /\ place \in [Procs -> Places] /\ kind \in [Procs -> Kinds \cup {"none"}]
  BY DEF Typed, TypeOK, Bounds
<1>1. CASE UNCHANGED vars
  BY <1>0, <1>1 DEF Typed, TypeOK, Within, Writing, ToCreate, Running, vars
<1>2. ASSUME NEW p \in Procs, NEW k \in Kinds, NEW u \in Users, Arrive(p, k, u) PROVE Typed'
  <2>1. TypeOK'
    BY <1>0, <1>2 DEF TypeOK, Arrive, Places
  <2>2. QED
    BY <1>0, <1>2, <2>1, ArriveWithin DEF Typed
<1>3. ASSUME NEW p \in Procs, CreateRecord(p) PROVE Typed'
  <2>1. Moves(p, Places \ {"start"}) /\ Running(p) /\ p \in ToCreate
    BY <1>3 DEF CreateRecord, Finish, Goto, Moves, Running, ToCreate, Places
  <2>2. Writing' \subseteq Writing /\ ToCreate' \subseteq ToCreate \ {p}
    BY <1>0, <2>1, MovesKeepCounts
  <2>3. docs' = docs /\ (era' = era \/ era' = era + 1)
    BY <1>3 DEF CreateRecord
  <2>4. Within' /\ (era' = era \/ era + 1 <= MaxCreates)
    BY <1>0, <2>1, <2>2, <2>3, WithinKept, CreateWithin
  <2>5. era' \in 0 .. MaxCreates
    BY <1>0, <2>3, <2>4 DEF TypeOK, Bounds
  <2>6. TypeOK'
    BY <1>0, <1>3, <2>5 DEF TypeOK, CreateRecord, Finish, Goto, Places
  <2>7. QED
    BY <2>4, <2>6 DEF Typed
<1>4. ASSUME NEW p \in Procs, FindDatabase(p) \/ CheckRole(p) \/ OpenDb(p) \/ UpsertGrant(p) \/ DeleteGrant(p)
      PROVE Typed'
  <2>1. Moves(p, Places \ {"start"}) /\ Running(p)
    BY <1>4 DEF FindDatabase, CheckRole, OpenDb, UpsertGrant, DeleteGrant, Finish, Goto, Moves, Running, Places
  <2>2. docs' = docs /\ era' = era
    BY <1>4 DEF FindDatabase, CheckRole, OpenDb, UpsertGrant, DeleteGrant
  <2>3. TypeOK'
    BY <1>0, <1>4 DEF TypeOK, FindDatabase, CheckRole, OpenDb, UpsertGrant, DeleteGrant, Finish, Goto, Places
  <2>4. QED
    BY <1>0, <2>1, <2>2, <2>3, MovesKeepCounts, WithinKept DEF Typed
<1>5. ASSUME NEW p \in Procs, Lookup(p) PROVE Typed'
  <2>1. Moves(p, Places \ {"start"}) /\ Running(p)
    BY <1>5 DEF Lookup, Finish, Goto, Moves, Running, Places
  <2>2. docs' = docs /\ era' = era
    BY <1>5 DEF Lookup
  <2>3. lock' \subseteq Procs /\ Cardinality(lock') <= 1
    BY <1>0, <1>5, LockKept DEF TypeOK, Lookup
  <2>4. TypeOK'
    BY <1>0, <1>5, <2>3 DEF TypeOK, Lookup, Goto, Places
  <2>5. QED
    BY <1>0, <2>1, <2>2, <2>4, MovesKeepCounts, WithinKept DEF Typed
<1>6. ASSUME NEW p \in Procs, OpenWriter(p) PROVE Typed'
  <2>1. Moves(p, Places \ {"start"}) /\ Running(p)
    BY <1>6 DEF OpenWriter, Finish, Goto, Moves, Running, Places
  <2>2. docs' = docs /\ era' = era
    BY <1>6 DEF OpenWriter
  <2>3. path' \in Files /\ contents' \in [Files -> SUBSET Docs] /\ kept' \subseteq Files
    BY <1>0, <1>6, OpenPathTyped DEF OpenWriter
  <2>4. held' \in [Procs -> Handles \cup {None}]
    BY <1>0, <1>6, FreshHandle DEF TypeOK, OpenWriter
  <2>5. TypeOK'
    BY <1>0, <1>6, <2>3, <2>4 DEF TypeOK, OpenWriter, Goto, Places
  <2>6. QED
    BY <1>0, <2>1, <2>2, <2>5, MovesKeepCounts, WithinKept DEF Typed
<1>7. ASSUME NEW p \in Procs, OpenPool(p) PROVE Typed'
  <2>1. Moves(p, Places \ {"start"}) /\ Running(p)
    BY <1>7 DEF OpenPool, Finish, Goto, Moves, Running, Places
  <2>2. docs' = docs /\ era' = era
    BY <1>7 DEF OpenPool
  <2>3. path' \in Files /\ contents' \in [Files -> SUBSET Docs] /\ kept' \subseteq Files
    BY <1>0, <1>7, OpenPathTyped DEF OpenPool
  <2>4. lock' \subseteq Procs /\ Cardinality(lock') <= 1
    BY <1>0, <1>7, LockKept DEF TypeOK, OpenPool
  <2>5. TypeOK'
    BY <1>0, <1>7, <2>3, <2>4 DEF TypeOK, OpenPool, Goto, Places
  <2>6. QED
    BY <1>0, <2>1, <2>2, <2>5, MovesKeepCounts, WithinKept DEF Typed
<1>8. ASSUME NEW p \in Procs, OpenFails(p) \/ CancelOpen(p) PROVE Typed'
  <2>1. Moves(p, Places \ {"start"}) /\ Running(p)
    BY <1>8 DEF OpenFails, CancelOpen, Finish, Moves, Running, Places
  <2>2. docs' = docs /\ era' = era
    BY <1>8 DEF OpenFails, CancelOpen
  <2>3. lock' \subseteq Procs /\ Cardinality(lock') <= 1
    BY <1>0, <1>8, LockKept DEF TypeOK, OpenFails, CancelOpen
  <2>4. TypeOK'
    BY <1>0, <1>8, <2>3 DEF TypeOK, OpenFails, CancelOpen, Finish, Places
  <2>5. QED
    BY <1>0, <2>1, <2>2, <2>4, MovesKeepCounts, WithinKept DEF Typed
<1>9. ASSUME NEW p \in Procs, Use(p) PROVE Typed'
  <2>1. Moves(p, Places \ {"start"}) /\ Running(p)
    BY <1>9 DEF Use, Finish, Goto, Moves, Running, Places
  <2>2. CASE kind[p] = "write"
    <3>1. p \in Writing /\ docs' = docs + 1 /\ era' = era
      BY <1>9, <2>2 DEF Use, Writing, Running
    <3>2. Writing' \subseteq Writing \ {p} /\ ToCreate' \subseteq ToCreate
      BY <1>0, <1>9, <2>2 DEF Use, Finish, Writing, ToCreate, Running
    <3>3. Within' /\ docs + 1 <= MaxWrites
      BY <1>0, <3>1, <3>2, WriteWithin
    <3>4. docs + 1 \in Docs
      BY <1>0, <3>3 DEF Docs, Bounds
    <3>5. contents' \in [Files -> SUBSET Docs] /\ acked' \subseteq Docs
          /\ madeIn' \in [Docs -> 0 .. MaxCreates]
      BY <1>0, <1>9, <2>2, <3>1, <3>4 DEF TypeOK, Use
    <3>6. TypeOK'
      BY <1>0, <1>9, <2>2, <3>1, <3>3, <3>5 DEF TypeOK, Use, Finish, Places
    <3>7. QED
      BY <3>3, <3>6 DEF Typed
  <2>3. CASE kind[p] # "write"
    <3>1. docs' = docs /\ era' = era
      BY <1>9, <2>3 DEF Use
    <3>2. TypeOK'
      BY <1>0, <1>9, <2>3 DEF TypeOK, Use, Finish, Goto, Places
    <3>3. QED
      BY <1>0, <2>1, <3>1, <3>2, MovesKeepCounts, WithinKept DEF Typed
  <2>4. QED
    BY <2>2, <2>3
<1>10. ASSUME NEW p \in Procs, Disconnect(p) \/ CancelWaiting(p) PROVE Typed'
  <2>1. Moves(p, Places \ {"start"}) /\ place'[p] = "idle"
    BY <1>0, <1>10 DEF Disconnect, CancelWaiting, Finish, Moves, Running, Places
  <2>2. docs' = docs /\ era' = era
    BY <1>10 DEF Disconnect, CancelWaiting
  <2>3. TypeOK'
    BY <1>0, <1>10 DEF TypeOK, Disconnect, CancelWaiting, Finish, Places
  <2>4. QED
    BY <1>0, <2>1, <2>2, <2>3, MovesKeepCounts, WithinKept DEF Typed
<1>11. ASSUME NEW p \in Procs, ForgetHandle(p) \/ Unlink(p) \/ UnlinkFails(p) \/ DeleteRecord(p) \/ DeleteGrants(p)
       PROVE Typed'
  <2>1. Moves(p, Places \ {"start"}) /\ Running(p)
    BY <1>11 DEF ForgetHandle, Unlink, UnlinkFails, DeleteRecord, DeleteGrants, Finish, Goto, Moves, Running, Places
  <2>2. docs' = docs /\ era' = era
    BY <1>11 DEF ForgetHandle, Unlink, UnlinkFails, DeleteRecord, DeleteGrants
  <2>3. TypeOK'
    <3>1. CASE ForgetHandle(p)
      BY <1>0, <3>1 DEF TypeOK, ForgetHandle, Goto, Places
    <3>2. CASE Unlink(p) \/ UnlinkFails(p)
      BY <1>0, <3>2 DEF TypeOK, Unlink, UnlinkFails, Finish, Goto, Places
    <3>3. CASE DeleteRecord(p) \/ DeleteGrants(p)
      BY <1>0, <3>3 DEF TypeOK, DeleteRecord, DeleteGrants, Finish, Goto, Places
    <3>4. QED
      BY <1>11, <3>1, <3>2, <3>3
  <2>4. QED
    BY <1>0, <2>1, <2>2, <2>3, MovesKeepCounts, WithinKept DEF Typed
<1>12. ASSUME StrayOpens PROVE Typed'
  <2>1. path' \in Files /\ contents' \in [Files -> SUBSET Docs] /\ kept' \subseteq Files
    BY <1>0, <1>12, OpenPathTyped DEF StrayOpens
  <2>2. TypeOK'
    BY <1>0, <1>12, <2>1 DEF TypeOK, StrayOpens
  <2>3. Within'
    BY <1>0, <1>12 DEF Bounds, Within, StrayOpens, Writing, ToCreate, Running
  <2>4. QED
    BY <2>2, <2>3 DEF Typed
<1>13. ASSUME Crash PROVE Typed'
  <2>1. Writing' = {} /\ ToCreate' = {} /\ docs' = docs /\ era' = era
    BY <1>13 DEF Crash, Writing, ToCreate, Running
  <2>2. Cardinality(lock') <= 1
    BY <1>13, FS_EmptySet DEF Crash
  <2>3. TypeOK'
    BY <1>0, <1>13, <2>2 DEF TypeOK, Crash, Places
  <2>4. QED
    BY <1>0, <2>1, <2>3, WithinKept DEF Typed
<1>14. QED
  BY <1>1, <1>2, <1>3, <1>4, <1>5, <1>6, <1>7, <1>8, <1>9, <1>10, <1>11, <1>12, <1>13 DEF Next, Serve

LEMMA InitTyped == Init => Typed
<1> USE RegistryAssumption
<1> SUFFICES ASSUME Init PROVE Typed
  OBVIOUS
<1>1. (CHOOSE u \in Users : TRUE) \in Users
  OBVIOUS
<1>2. Cardinality({}) = 0
  BY FS_EmptySet
<1>3. /\ contents \in [Files -> SUBSET Docs] /\ writer \in [Handles -> Files \cup {None}]
      /\ pool \in [Handles -> Files \cup {None}] /\ madeIn \in [Docs -> 0 .. MaxCreates]
  BY DEF Init
<1>a. /\ place \in [Procs -> Places] /\ kind \in [Procs -> Kinds \cup {"none"}]
      /\ user \in [Procs -> Users] /\ held \in [Procs -> Handles \cup {None}]
  BY <1>1 DEF Init, Places
<1>b. docs \in 0 .. MaxWrites /\ era \in 0 .. MaxCreates /\ strays \in 0 .. MaxStrays
      /\ crashes \in 0 .. MaxCrashes
  BY DEF Init
<1>c. lock \subseteq Procs /\ Cardinality(lock) <= 1
  BY <1>2 DEF Init
<1>d. record \in BOOLEAN /\ torn \in BOOLEAN /\ grants \subseteq Users /\ path \in Files \cup {None}
      /\ cached \in Handles \cup {None} /\ acked \subseteq Docs /\ kept \subseteq Files
  BY DEF Init
<1>e. TypeOK
  BY <1>3, <1>a, <1>b, <1>c, <1>d DEF TypeOK
<1>4. Writing = {} /\ ToCreate = {}
  BY DEF Init, Writing, ToCreate, Running
<1>5. Within
  BY <1>2, <1>4 DEF Init, Within
<1>6. QED
  BY <1>e, <1>5 DEF Typed

\* Every variable of the registry keeps its type, also with other requests during
\* a deletion: no operation uses a handle that was not opened, and at most one
\* request is inside get_or_open (DbRegistry in db/mod.rs).
THEOREM RegistryTypeCorrect == Spec => []TypeOK
<1>1. Typed => TypeOK
  BY DEF Typed
<1>2. QED
  BY <1>1, InitTyped, TypesKept, PTL DEF Spec

-----------------------------------------------------------------------------
(***************************************************************************)
(* Where the requests are, when nothing else runs during a deletion.       *)
(***************************************************************************)
LEMMA ControlKept ==
    ASSUME ~Overlap, TypeOK, Control, [Next]_vars
    PROVE  Control'
<1> USE DEF system, disk, open, request, history, ghosts
<1>0. /\ place \in [Procs -> Places] /\ kind \in [Procs -> Kinds \cup {"none"}]
      /\ held \in [Procs -> Handles \cup {None}] /\ lock \subseteq Procs
      /\ \A h \in Handles : h # None
  BY DEF TypeOK, Handles, None
<1> USE <1>0 DEF Control, Alone, Mutex, Fits, Running
<1>1. CASE UNCHANGED vars
  BY <1>1 DEF vars
<1>2. ASSUME NEW p \in Procs, NEW k \in Kinds, NEW u \in Users, Arrive(p, k, u) PROVE Control'
  BY <1>2 DEF Arrive, Deleting
<1>3. ASSUME NEW p \in Procs, CreateRecord(p) PROVE Control'
  BY <1>3 DEF CreateRecord, Goto, Finish
<1>4. ASSUME NEW p \in Procs, FindDatabase(p) PROVE Control'
  BY <1>4 DEF FindDatabase, Goto, Finish
<1>5. ASSUME NEW p \in Procs, CheckRole(p) PROVE Control'
  BY <1>5 DEF CheckRole, Goto, Finish
<1>6. ASSUME NEW p \in Procs, OpenDb(p) PROVE Control'
  BY <1>6 DEF OpenDb, Goto, Finish
<1>7. ASSUME NEW p \in Procs, UpsertGrant(p) \/ DeleteGrant(p) PROVE Control'
  BY <1>7 DEF UpsertGrant, DeleteGrant, Finish
<1>8. ASSUME NEW p \in Procs, Lookup(p) PROVE Control'
  BY <1>8 DEF Lookup, Goto
<1>9. ASSUME NEW p \in Procs, OpenWriter(p) PROVE Control'
  <2>1. held'[p] \in Handles /\ held'[p] \notin Live /\ \A q \in Procs : q # p => held'[q] = held[q]
    BY <1>9, FreshHandle
  <2>2. \A q \in Procs : held[q] # held'[p]
    BY <2>1 DEF Live
  <2>3. /\ \A q \in Procs : place'[q] = IF q = p THEN "open_pool" ELSE place[q]
        /\ kind' = kind /\ lock' = lock /\ cached' = cached /\ record' = record /\ acked' = acked
        /\ place[p] = "open_writer"
    BY <1>9 DEF OpenWriter, Goto
  <2>4. QED
    BY <2>1, <2>2, <2>3
<1>10. ASSUME NEW p \in Procs, OpenPool(p) PROVE Control'
  BY <1>10 DEF OpenPool, Goto
<1>11. ASSUME NEW p \in Procs, OpenFails(p) PROVE Control'
  BY <1>11 DEF OpenFails, Finish
<1>12. ASSUME NEW p \in Procs, Use(p) PROVE Control'
  BY <1>12 DEF Use, Goto, Finish
<1>13. ASSUME NEW p \in Procs, Disconnect(p) \/ CancelWaiting(p) PROVE Control'
  BY <1>13 DEF Disconnect, CancelWaiting, Finish
<1>14. ASSUME NEW p \in Procs, CancelOpen(p) PROVE Control'
  BY <1>14 DEF CancelOpen, Finish
<1>15. ASSUME NEW p \in Procs, ForgetHandle(p) PROVE Control'
  BY <1>15 DEF ForgetHandle, Goto
<1>16. ASSUME NEW p \in Procs, Unlink(p) \/ UnlinkFails(p) PROVE Control'
  BY <1>16 DEF Unlink, UnlinkFails, Goto
<1>17. ASSUME NEW p \in Procs, DeleteRecord(p) PROVE Control'
  BY <1>17 DEF DeleteRecord, Goto
<1>18. ASSUME NEW p \in Procs, DeleteGrants(p) PROVE Control'
  BY <1>18 DEF DeleteGrants, Finish
<1>19. ASSUME StrayOpens PROVE Control'
  BY <1>19 DEF StrayOpens
<1>20. ASSUME Crash PROVE Control'
  BY <1>20 DEF Crash
<1>21. QED
  BY <1>1, <1>2, <1>3, <1>4, <1>5, <1>6, <1>7, <1>8, <1>9, <1>10, <1>11, <1>12, <1>13, <1>14,
     <1>15, <1>16, <1>17, <1>18, <1>19, <1>20 DEF Next, Serve

-----------------------------------------------------------------------------
(***************************************************************************)
(* Which handles have which file open.                                     *)
(***************************************************************************)
OnFiles == AtPath /\ OnlyAtPath /\ SingleWriter

\* Steps that open and remove nothing: handles may go, and a request may leave
\* get_or_open only with the handle it was opening.
LEMMA FilesUntouched ==
    ASSUME OnFiles, path' = path, writer' = writer, pool' = pool, kept' = kept, cached' = cached,
           Live' \subseteq Live,
           \A p \in Procs : place'[p] = "open_pool" => place[p] = "open_pool" /\ held'[p] = held[p],
           \A p \in Procs : place[p] = "open_pool" =>
              (place'[p] = "open_pool" /\ held'[p] = held[p]) \/ held[p] \notin Live',
           \A p \in Procs : place[p] = "unlink" => place'[p] = "unlink"
    PROVE  OnFiles'
<1>1. AtPath'
  BY DEF OnFiles, AtPath
<1>2. OnlyAtPath'
  BY DEF OnFiles, OnlyAtPath
<1>3. SingleWriter'
  BY DEF OnFiles, SingleWriter
<1>4. QED
  BY <1>1, <1>2, <1>3 DEF OnFiles

\* What a request that is not in get_or_open does with handles: it may take the
\* registry's, and it may drop its own.
LEMMA LiveShrinks ==
    ASSUME \A p \in Procs : held'[p] \in {held[p], None, cached}, cached' \in {cached, None}
    PROVE  Live' \subseteq Live
BY DEF Live

LEMMA FilesKept ==
    ASSUME ~Overlap, TypeOK, Control, OnFiles, [Next]_vars
    PROVE  OnFiles'
<1> USE DEF system, disk, open, request, history, ghosts
<1>0. /\ place \in [Procs -> Places] /\ held \in [Procs -> Handles \cup {None}]
      /\ writer \in [Handles -> Files \cup {None}] /\ pool \in [Handles -> Files \cup {None}]
      /\ \A h \in Handles : h # None
      /\ path \in Files \cup {None} /\ cached \in Handles \cup {None}
      /\ kept \subseteq Files /\ None \notin Files
  BY DEF TypeOK, Handles, Files, None
<1>a. Live \subseteq Handles
  BY <1>0 DEF Live
<1>b. \A p \in Procs : place[p] = "open_pool" => p \in lock /\ held[p] \in Live
  BY <1>0 DEF Control, Fits, Live
<1>1. CASE UNCHANGED vars
  BY <1>1 DEF OnFiles, AtPath, OnlyAtPath, SingleWriter, Live, vars
<1>2. ASSUME NEW p \in Procs, NEW k \in Kinds, NEW u \in Users, Arrive(p, k, u) PROVE OnFiles'
  <2>1. Live' = Live
    BY <1>2 DEF Live, Arrive
  <2>2. QED
    BY <1>0, <1>2, <2>1, FilesUntouched DEF Arrive
<1>3. ASSUME NEW p \in Procs,
             \/ CreateRecord(p) \/ FindDatabase(p) \/ CheckRole(p) \/ OpenDb(p)
             \/ UpsertGrant(p) \/ DeleteGrant(p)
      PROVE OnFiles'
  <2> USE <1>0, <1>3 DEF CreateRecord, FindDatabase, CheckRole, OpenDb, UpsertGrant, DeleteGrant, Goto, Finish
  <2>1. Live' \subseteq Live
    BY LiveShrinks
  <2>2. path' = path /\ writer' = writer /\ pool' = pool /\ kept' = kept /\ cached' = cached
    OBVIOUS
  <2>3. \A q \in Procs : /\ place'[q] = "open_pool" <=> place[q] = "open_pool"
                         /\ place[q] = "unlink" => place'[q] = "unlink"
                         /\ place[q] = "open_pool" => held'[q] = held[q]
    OBVIOUS
  <2> QED
    BY <2>1, <2>2, <2>3, FilesUntouched
<1>4. ASSUME NEW p \in Procs, Lookup(p) PROVE OnFiles'
  <2> USE <1>0, <1>4 DEF Lookup, Goto
  <2>1. Live' \subseteq Live
    BY LiveShrinks
  <2>2. path' = path /\ writer' = writer /\ pool' = pool /\ kept' = kept /\ cached' = cached
    OBVIOUS
  <2>3. \A q \in Procs : /\ place'[q] = "open_pool" <=> place[q] = "open_pool"
                         /\ place[q] = "unlink" => place'[q] = "unlink"
                         /\ place[q] = "open_pool" => held'[q] = held[q]
    OBVIOUS
  <2> QED
    BY <2>1, <2>2, <2>3, FilesUntouched
<1>5. ASSUME NEW p \in Procs, OpenWriter(p) PROVE OnFiles'
  <2> DEFINE h == held'[p]
  <2>1. h \in Handles /\ h \notin Live /\ \A q \in Procs : q # p => held'[q] = held[q]
    BY <1>5, FreshHandle
  <2>2. /\ path' \in Files
        /\ path # None => path' = path /\ kept' = kept
        /\ path = None => path' \notin InUse /\ kept' = kept \ {path'}
    BY <1>5, OpenPathTyped DEF OpenWriter
  <2>3. /\ \A g \in Handles : writer'[g] = IF g = h THEN path' ELSE writer[g]
        /\ cached' = cached /\ place[p] = "open_writer"
        /\ \A q \in Procs : place'[q] = IF q = p THEN "open_pool" ELSE place[q]
    BY <1>0, <1>5 DEF OpenWriter, Goto
  <2>4. p \in lock /\ cached = None /\ held[p] = None
    BY <2>3 DEF Control, Fits
  <2>5. \A q \in Procs : place[q] # "open_pool" /\ place[q] # "unlink"
    <3>1. \A q \in Procs : place[q] = "open_pool" => q = p
      BY <1>b, <2>4 DEF Control, Mutex
    <3>2. \A q \in Procs : place[q] = "unlink" => q = p
      BY <2>3 DEF Control, Alone, Fits, Running
    <3>3. QED
      BY <2>3, <3>1, <3>2
  <2>6. Live' = Live \cup {h}
    BY <1>0, <2>1, <2>3, <2>4 DEF Live
  <2>7. \A g \in Live : g # h /\ writer[g] # None /\ writer[g] \in InUse
    BY <2>1 DEF InUse, OnFiles, AtPath
  <2>8. \A g \in Live : writer[g] = path' => writer[g] \in kept'
    <3>1. \A g \in Live : g # cached
      BY <2>4 DEF Live
    <3>2. \A g \in Live : writer[g] # path \/ path \in kept
      BY <2>5, <3>1 DEF OnFiles, OnlyAtPath
    <3>3. QED
      BY <2>2, <2>7, <3>2
  <2>9. \A g \in Live : writer[g] \in kept => writer[g] \in kept'
    BY <2>2, <2>7
  <2>10. \A g \in Live : writer'[g] = writer[g]
    BY <1>a, <2>3, <2>7
  <2>11. writer'[h] = path' /\ path' # None
    BY <2>1, <2>2, <2>3 DEF Files, None
  <2> HIDE DEF h
  <2>12. AtPath'
    <3>1. \A g \in Live' : writer'[g] # None
      BY <2>6, <2>7, <2>10, <2>11
    <3>2. \A q \in Procs : place'[q] = "open_pool" => q = p
      BY <2>3, <2>5
    <3>3. QED
      BY <2>3, <2>4, <2>11, <3>1, <3>2 DEF AtPath, h
  <2>13. OnlyAtPath'
    <3>1. \A g \in Live : writer'[g] # path' \/ path' \in kept'
      BY <2>8, <2>10
    <3>2. place'[p] = "open_pool" /\ held'[p] = h
      BY <2>3 DEF h
    <3>3. QED
      BY <2>6, <3>1, <3>2 DEF OnlyAtPath
  <2>14. SingleWriter'
    BY <2>6, <2>8, <2>9, <2>10, <2>11 DEF OnFiles, SingleWriter
  <2>15. QED
    BY <2>12, <2>13, <2>14 DEF OnFiles
<1>6. ASSUME NEW p \in Procs, OpenPool(p) PROVE OnFiles'
  <2>1. place[p] = "open_pool" /\ p \in lock /\ held[p] \in Live /\ writer[held[p]] = path
        /\ held[p] \in Handles /\ path # None
    BY <1>6, <1>a, <1>b DEF OpenPool, OnFiles, AtPath
  <2>2. path' = path /\ kept' = kept
    BY <1>6, <2>1, OpenPathTyped DEF OpenPool
  <2>3. /\ writer' = writer /\ held' = held /\ cached' = held[p] /\ pool'[held[p]] = path
        /\ \A q \in Procs : place'[q] = IF q = p THEN "use" ELSE place[q]
    BY <1>0, <1>6, <2>1, <2>2 DEF OpenPool, Goto
  <2>4. \A q \in Procs : place[q] = "open_pool" => q = p
    BY <1>b, <2>1 DEF Control, Mutex
  <2>5. cached = None
    BY <2>1 DEF Control, Fits
  <2>6. Live' = Live
    BY <2>3, <2>5, <2>1 DEF Live
  <2>7. AtPath'
    BY <2>1, <2>2, <2>3, <2>4, <2>6 DEF OnFiles, AtPath
  <2>8. OnlyAtPath'
    <3>1. \A q \in Procs : place[q] = "unlink" => place'[q] = "unlink"
      BY <2>1, <2>3
    <3>2. QED
      BY <2>2, <2>3, <2>4, <2>5, <2>6, <3>1 DEF OnFiles, OnlyAtPath, Live
  <2>9. SingleWriter'
    BY <2>2, <2>3, <2>6 DEF OnFiles, SingleWriter
  <2>10. QED
    BY <2>7, <2>8, <2>9 DEF OnFiles
<1>7. ASSUME NEW p \in Procs, OpenFails(p) \/ CancelOpen(p) PROVE OnFiles'
  <2> USE <1>0, <1>7 DEF OpenFails, CancelOpen, Finish
  <2>1. Live' \subseteq Live
    BY LiveShrinks
  <2>2. path' = path /\ writer' = writer /\ pool' = pool /\ kept' = kept /\ cached' = cached
        /\ place[p] \in {"open_writer", "open_pool"}
    OBVIOUS
  <2>3. cached = None
    BY <2>2 DEF Control, Fits
  <2>4. /\ \A q \in Procs : q # p => place'[q] = place[q] /\ held'[q] = held[q]
        /\ place'[p] = "idle" /\ held'[p] = None
    OBVIOUS
  <2>5. place[p] = "open_pool" => held[p] \notin Live'
    BY <2>2, <2>3, <2>4 DEF Control, Mutex, Live
  <2>6. \A q \in Procs : /\ place'[q] = "open_pool" => place[q] = "open_pool" /\ held'[q] = held[q]
                         /\ place[q] = "unlink" => place'[q] = "unlink"
                         /\ place[q] = "open_pool" =>
                               (place'[q] = "open_pool" /\ held'[q] = held[q]) \/ held[q] \notin Live'
    BY <2>2, <2>4, <2>5
  <2> QED
    BY <2>1, <2>2, <2>6, FilesUntouched
<1>8. ASSUME NEW p \in Procs, Use(p) \/ Disconnect(p) \/ CancelWaiting(p) \/ DeleteRecord(p) \/ DeleteGrants(p)
      PROVE OnFiles'
  <2> USE <1>0, <1>8 DEF Use, Disconnect, CancelWaiting, DeleteRecord, DeleteGrants, Goto, Finish
  <2>1. Live' \subseteq Live
    BY LiveShrinks
  <2>2. path' = path /\ writer' = writer /\ pool' = pool /\ kept' = kept /\ cached' = cached
    OBVIOUS
  <2>3. \A q \in Procs : /\ place'[q] = "open_pool" <=> place[q] = "open_pool"
                         /\ place[q] = "unlink" => place'[q] = "unlink"
                         /\ place[q] = "open_pool" => held'[q] = held[q]
    OBVIOUS
  <2> QED
    BY <2>1, <2>2, <2>3, FilesUntouched
<1>9. ASSUME NEW p \in Procs, ForgetHandle(p) PROVE OnFiles'
  <2>1. /\ path' = path /\ writer' = writer /\ kept' = kept /\ cached' = None /\ held' = held
        /\ \A q \in Procs : place'[q] = IF q = p THEN "unlink" ELSE place[q]
    BY <1>0, <1>9 DEF ForgetHandle, Goto
  <2>2. Live' \subseteq Live
    BY <2>1 DEF Live
  <2>3. \A q \in Procs : place'[q] = "open_pool" => place[q] = "open_pool"
    BY <2>1
  <2>4. AtPath'
    BY <2>1, <2>2, <2>3 DEF OnFiles, AtPath
  <2>5. OnlyAtPath'
    BY <2>1 DEF OnlyAtPath
  <2>6. SingleWriter'
    BY <2>1, <2>2 DEF OnFiles, SingleWriter
  <2>7. QED
    BY <2>4, <2>5, <2>6 DEF OnFiles
<1>10. ASSUME NEW p \in Procs, Unlink(p) \/ UnlinkFails(p) PROVE OnFiles'
  <2>1. place[p] = "unlink" /\ cached' = cached /\ writer' = writer /\ held' = held
        /\ Live' = Live /\ kept \subseteq kept'
        /\ \A q \in Procs : place'[q] = IF q = p THEN "unlist" ELSE place[q]
    BY <1>0, <1>10 DEF Unlink, UnlinkFails, Goto, Live
  <2>2. cached = None
    BY <2>1 DEF Control, Fits
  <2>3. \A q \in Procs : place[q] # "open_pool"
    BY <2>1 DEF Control, Alone, Fits, Running
  <2>4. \A g \in Live : writer[g] # None
    BY DEF OnFiles, AtPath
  <2>5. AtPath'
    BY <2>1, <2>2, <2>3, <2>4 DEF AtPath
  <2>6. path' = None \/ (path' = path /\ (path = None \/ path \in kept'))
    BY <1>10 DEF Unlink, UnlinkFails
  <2>7. OnlyAtPath'
    BY <2>1, <2>4, <2>6 DEF OnlyAtPath
  <2>8. SingleWriter'
    BY <2>1 DEF OnFiles, SingleWriter
  <2>9. QED
    BY <2>5, <2>7, <2>8 DEF OnFiles
<1>11. ASSUME StrayOpens PROVE OnFiles'
  <2>1. /\ path # None => path' = path /\ kept' = kept
        /\ path = None => path' \notin InUse /\ kept' = kept \ {path'}
    BY <1>11, OpenPathTyped DEF StrayOpens
  <2>2. writer' = writer /\ pool' = pool /\ cached' = cached /\ place' = place /\ held' = held /\ Live' = Live
    BY <1>11 DEF StrayOpens, Live
  <2>3. \A g \in Live : writer[g] \in InUse /\ writer[g] # None
    BY DEF InUse, OnFiles, AtPath
  <2>4. path = None => cached = None /\ \A q \in Procs : place[q] # "open_pool"
    BY <1>b, <2>3 DEF OnFiles, AtPath, Live
  <2>5. AtPath'
    BY <2>1, <2>2, <2>4 DEF OnFiles, AtPath
  <2>6. OnlyAtPath'
    BY <2>1, <2>2, <2>3 DEF OnFiles, OnlyAtPath
  <2>7. SingleWriter'
    BY <2>1, <2>2, <2>3 DEF OnFiles, SingleWriter
  <2>8. QED
    BY <2>5, <2>6, <2>7 DEF OnFiles
<1>12. ASSUME Crash PROVE OnFiles'
  <2>1. Live' = {} /\ cached' = None /\ \A q \in Procs : place'[q] = "idle"
    BY <1>12 DEF Crash, Live
  <2>2. QED
    BY <2>1 DEF OnFiles, AtPath, OnlyAtPath, SingleWriter
<1>13. QED
  BY <1>1, <1>2, <1>3, <1>4, <1>5, <1>6, <1>7, <1>8, <1>9, <1>10, <1>11, <1>12 DEF Next, Serve

-----------------------------------------------------------------------------
(***************************************************************************)
(* Which documents are in the file at the path.                            *)
(***************************************************************************)
LEMMA DocumentsUntouched ==
    ASSUME Documents, path' = path, contents' = contents, kept' = kept, docs' = docs, era' = era,
           madeIn' = madeIn, record' = record, acked' \subseteq acked,
           \A p \in Procs : place'[p] = "unlist" => place[p] = "unlist"
    PROVE  Documents'
BY DEF Documents, Clean

LEMMA DocumentsOpened ==
    ASSUME TypeOK, Documents, OpenPath, docs' = docs, era' = era, madeIn' = madeIn,
           record' = record, acked' = acked,
           \A p \in Procs : place'[p] = "unlist" => place[p] = "unlist"
    PROVE  Documents'
<1>1. CASE path # None
  BY <1>1, OpenPathTyped, DocumentsUntouched
<1>2. CASE path = None
  <2>1. /\ path' \in Files /\ contents'[path'] = {}
        /\ \A f \in Files : contents'[f] \subseteq contents[f]
    BY <1>2, OpenPathTyped
  <2>2. \A d \in acked : madeIn[d] # era
    BY <1>2 DEF Documents
  <2>3. QED
    BY <2>1, <2>2 DEF Documents, Clean
<1>3. QED
  BY <1>1, <1>2

LEMMA WriteKeepsDocuments ==
    ASSUME TypeOK, TypeOK', Control, AtPath, Documents, NEW p \in Procs, Use(p), kind[p] = "write"
    PROVE  Documents'
<1>1. /\ place[p] = "use" /\ docs' = docs + 1 /\ path' = path /\ kept' = kept /\ era' = era
      /\ record' = record /\ acked' \subseteq acked \cup {docs'}
      /\ contents' = [contents EXCEPT ![writer[held[p]]] = @ \cup {docs'}]
      /\ madeIn' = [madeIn EXCEPT ![docs'] = era]
      /\ \A q \in Procs : place'[q] = "unlist" => place[q] = "unlist"
  BY DEF Use, Finish, TypeOK, system, ghosts, history, open
<1>2. held[p] # None /\ held[p] = cached /\ record
  BY <1>1 DEF Control, Fits
<1>3. writer[held[p]] = path /\ path # None
  BY <1>2 DEF AtPath, Live
<1>4. path \in Files
  BY <1>3 DEF TypeOK
<1>5. docs \in Nat /\ docs' \in Docs /\ docs' \notin 1 .. docs /\ \A d \in 1 .. docs : d \in 1 .. docs'
  BY <1>1 DEF TypeOK, Docs
<1>6. 1 .. docs' \subseteq Docs /\ 1 .. docs \subseteq 1 .. docs' /\ docs' \in 1 .. docs'
  BY <1>1, <1>5, RegistryAssumption DEF Docs
<1>7. \A f \in Files : contents'[f] = IF f = path THEN contents[f] \cup {docs'} ELSE contents[f]
  BY <1>1, <1>3 DEF TypeOK
<1>8. \A d \in Docs : madeIn'[d] = IF d = docs' THEN era ELSE madeIn[d]
  BY <1>1 DEF TypeOK
<1>9. \A d \in 1 .. docs : madeIn'[d] = madeIn[d]
  BY <1>5, <1>6, <1>8
<1>10. \A q \in Procs : place[q] # "unlist"
  BY <1>1 DEF Control, Alone, Fits, Running
<1>11. /\ \A f \in Files : contents[f] \subseteq 1 .. docs
       /\ acked \subseteq 1 .. docs
  BY DEF Documents
<1>12. /\ \A f \in Files : contents'[f] \subseteq 1 .. docs'
       /\ acked' \subseteq 1 .. docs'
  BY <1>1, <1>6, <1>7, <1>11
<1>13. path' # None /\ path' \notin kept' => \A d \in contents'[path'] : madeIn'[d] = era'
  BY <1>1, <1>4, <1>5, <1>7, <1>8, <1>9, <1>11 DEF Documents
<1>14. \A d \in acked' : madeIn'[d] = era' => path' # None /\ d \in contents'[path']
  <2>1. \A d \in acked : madeIn'[d] = madeIn[d] /\ (madeIn[d] = era => d \in contents[path])
    BY <1>9, <1>11 DEF Documents
  <2>2. contents'[path'] = contents[path] \cup {docs'}
    BY <1>1, <1>4, <1>7
  <2>3. QED
    BY <1>1, <1>3, <2>1, <2>2
<1>15. QED
  BY <1>1, <1>2, <1>10, <1>12, <1>13, <1>14 DEF Documents

LEMMA DocumentsKept ==
    ASSUME ~Overlap, TypeOK, TypeOK', Control, AtPath, Documents, [Next]_vars
    PROVE  Documents'
<1> USE DEF system, disk, open, request, history, ghosts
<1>0. place \in [Procs -> Places] /\ kept \subseteq Files /\ path \in Files \cup {None}
  BY DEF TypeOK
<1>1. CASE UNCHANGED vars
  BY <1>1, DocumentsUntouched DEF vars
<1>2. ASSUME NEW p \in Procs, NEW k \in Kinds, NEW u \in Users, Arrive(p, k, u) PROVE Documents'
  BY <1>0, <1>2, DocumentsUntouched DEF Arrive
<1>3. ASSUME NEW p \in Procs, CreateRecord(p) PROVE Documents'
  <2>1. /\ path' = path /\ contents' = contents /\ kept' = kept /\ docs' = docs
        /\ madeIn' = madeIn /\ acked' = acked
        /\ \A q \in Procs : place'[q] = "unlist" => place[q] = "unlist"
    BY <1>0, <1>3 DEF CreateRecord, Goto, Finish
  <2>2. CASE record
    BY <1>3, <2>1, <2>2, DocumentsUntouched DEF CreateRecord
  <2>3. CASE ~record
    <3>1. record' /\ Clean /\ acked = {}
      BY <1>3, <2>3 DEF CreateRecord, Documents
    <3>2. QED
      BY <2>1, <3>1 DEF Documents, Clean
  <2>4. QED
    BY <2>2, <2>3
<1>4. ASSUME NEW p \in Procs,
             \/ FindDatabase(p) \/ CheckRole(p) \/ OpenDb(p) \/ UpsertGrant(p) \/ DeleteGrant(p)
             \/ Lookup(p) \/ OpenFails(p) \/ Disconnect(p) \/ CancelWaiting(p) \/ CancelOpen(p)
             \/ ForgetHandle(p) \/ DeleteGrants(p)
      PROVE Documents'
  <2> USE <1>0, <1>4 DEF FindDatabase, CheckRole, OpenDb, UpsertGrant, DeleteGrant, Lookup,
          OpenFails, Disconnect, CancelWaiting, CancelOpen, ForgetHandle, DeleteGrants, Goto, Finish
  <2>1. /\ path' = path /\ contents' = contents /\ kept' = kept /\ docs' = docs /\ era' = era
        /\ madeIn' = madeIn /\ record' = record /\ acked' \subseteq acked
    OBVIOUS
  <2>2. \A q \in Procs : place'[q] = "unlist" => place[q] = "unlist"
    OBVIOUS
  <2>3. QED
    BY <2>1, <2>2, DocumentsUntouched
<1>5. ASSUME NEW p \in Procs, OpenWriter(p) PROVE Documents'
  BY <1>0, <1>5, DocumentsOpened DEF OpenWriter, Goto
<1>6. ASSUME NEW p \in Procs, OpenPool(p) PROVE Documents'
  BY <1>0, <1>6, DocumentsOpened DEF OpenPool, Goto
<1>7. ASSUME NEW p \in Procs, Use(p) PROVE Documents'
  <2>1. CASE kind[p] = "write"
    BY <1>7, <2>1, WriteKeepsDocuments
  <2>2. CASE kind[p] # "write"
    BY <1>0, <1>7, <2>2, DocumentsUntouched DEF Use, Goto, Finish
  <2>3. QED
    BY <2>1, <2>2
<1>8. ASSUME NEW p \in Procs, Unlink(p) \/ UnlinkFails(p) PROVE Documents'
  <2>1. place[p] = "unlink" /\ record' = record /\ contents' = contents /\ acked' = acked
        /\ docs' = docs /\ madeIn' = madeIn /\ era' = era
    BY <1>8 DEF Unlink, UnlinkFails
  <2>2. record /\ acked = {}
    BY <2>1 DEF Control, Fits
  <2>3. path' = None \/ path' \in kept'
    BY <1>8 DEF Unlink, UnlinkFails
  <2>4. QED
    BY <2>1, <2>2, <2>3 DEF Documents, Clean
<1>9. ASSUME NEW p \in Procs, DeleteRecord(p) PROVE Documents'
  <2>1. /\ path' = path /\ contents' = contents /\ kept' = kept /\ docs' = docs /\ era' = era
        /\ madeIn' = madeIn /\ acked' = acked /\ place[p] = "unlist"
        /\ \A q \in Procs : place'[q] = "unlist" => place[q] = "unlist"
    BY <1>0, <1>9 DEF DeleteRecord, Goto
  <2>2. Clean /\ acked = {}
    BY <2>1 DEF Documents, Control, Fits
  <2>3. QED
    BY <2>1, <2>2 DEF Documents, Clean
<1>10. ASSUME StrayOpens PROVE Documents'
  BY <1>10, DocumentsOpened DEF StrayOpens
<1>11. ASSUME Crash PROVE Documents'
  BY <1>11, DocumentsUntouched DEF Crash
<1>12. QED
  BY <1>1, <1>2, <1>3, <1>4, <1>5, <1>6, <1>7, <1>8, <1>9, <1>10, <1>11 DEF Next, Serve

-----------------------------------------------------------------------------
(***************************************************************************)
(* Grants, and what the invariants say together.                           *)
(***************************************************************************)
LEMMA GrantsKept ==
    ASSUME ~Overlap, TypeOK, Control, Grants, [Next]_vars
    PROVE  Grants'
<1> USE DEF system, disk, open, request, history, ghosts
<1>0. place \in [Procs -> Places]
  BY DEF TypeOK
<1>1. ASSUME record' = record, grants' = grants, torn' = torn,
             \A p \in Procs : place[p] = "ungrant" => place'[p] = "ungrant"
      PROVE  Grants'
  BY <1>1 DEF Grants
<1>2. CASE UNCHANGED vars
  BY <1>2 DEF vars, Grants
<1>3. ASSUME NEW p \in Procs, NEW k \in Kinds, NEW u \in Users, Arrive(p, k, u) PROVE Grants'
  BY <1>0, <1>1, <1>3 DEF Arrive
<1>4. ASSUME NEW p \in Procs, CreateRecord(p) \/ UpsertGrant(p) \/ DeleteRecord(p) PROVE Grants'
  <2>1. CASE CreateRecord(p)
    BY <1>0, <2>1 DEF CreateRecord, Goto, Finish, Grants
  <2>2. CASE UpsertGrant(p)
    BY <2>2 DEF UpsertGrant, Control, Fits, Grants
  <2>3. CASE DeleteRecord(p)
    BY <1>0, <2>3 DEF DeleteRecord, Goto, Grants
  <2>4. QED
    BY <1>4, <2>1, <2>2, <2>3
<1>5. ASSUME NEW p \in Procs, DeleteGrant(p) PROVE Grants'
  BY <1>0, <1>5 DEF DeleteGrant, Finish, Grants
<1>6. ASSUME NEW p \in Procs, FindDatabase(p) \/ CheckRole(p) \/ OpenDb(p) \/ Lookup(p) PROVE Grants'
  BY <1>0, <1>1, <1>6 DEF FindDatabase, CheckRole, OpenDb, Lookup, Goto, Finish
<1>7. ASSUME NEW p \in Procs,
             \/ OpenWriter(p) \/ OpenPool(p) \/ OpenFails(p) \/ Use(p) \/ Disconnect(p)
             \/ CancelWaiting(p) \/ CancelOpen(p)
      PROVE Grants'
  <2>1. record' = record /\ grants' = grants /\ torn' = torn
    BY <1>7 DEF OpenWriter, OpenPool, OpenFails, Use, Disconnect, CancelWaiting, CancelOpen
  <2>2. \A q \in Procs : place[q] = "ungrant" => place'[q] = "ungrant"
    BY <1>0, <1>7 DEF OpenWriter, OpenPool, OpenFails, Use, Disconnect, CancelWaiting, CancelOpen, Goto, Finish
  <2>3. QED
    BY <1>1, <2>1, <2>2
<1>8. ASSUME NEW p \in Procs, ForgetHandle(p) \/ Unlink(p) \/ UnlinkFails(p) PROVE Grants'
  BY <1>0, <1>1, <1>8 DEF ForgetHandle, Unlink, UnlinkFails, Goto
<1>9. ASSUME NEW p \in Procs, DeleteGrants(p) PROVE Grants'
  BY <1>9 DEF DeleteGrants, Grants
<1>10. ASSUME StrayOpens PROVE Grants'
  BY <1>1, <1>10 DEF StrayOpens
<1>11. ASSUME Crash PROVE Grants'
  BY <1>11 DEF Crash, Grants
<1>12. QED
  BY <1>2, <1>3, <1>4, <1>5, <1>6, <1>7, <1>8, <1>9, <1>10, <1>11 DEF Next, Serve

LEMMA InitIndInv == Init => IndInv
<1> SUFFICES ASSUME Init PROVE IndInv
  OBVIOUS
<1>1. TypeOK /\ Counted
  BY InitTyped, CountedIsWithin DEF Typed
<1>2. Control
  BY DEF Init, Control, Alone, Mutex, Fits, Running
<1>3. Live = {}
  BY DEF Init, Live
<1>4. AtPath /\ OnlyAtPath /\ SingleWriter
  BY <1>3 DEF Init, AtPath, OnlyAtPath, SingleWriter
<1>5. Documents /\ Grants
  BY DEF Init, Documents, Clean, Grants
<1>6. QED
  BY <1>1, <1>2, <1>4, <1>5 DEF IndInv

LEMMA Inductive == ASSUME ~Overlap, IndInv, [Next]_vars PROVE IndInv'
<1>1. Typed'
  BY TypesKept, CountedIsWithin DEF IndInv, Typed
<1>2. TypeOK' /\ Counted'
  BY <1>1 DEF Typed, Counted, Within, Waiting, Writing, ToCreate
<1>3. Control'
  BY ControlKept DEF IndInv
<1>4. OnFiles'
  BY FilesKept DEF IndInv, OnFiles
<1>5. Documents' /\ Grants'
  BY <1>2, DocumentsKept, GrantsKept DEF IndInv
<1>6. QED
  BY <1>2, <1>3, <1>4, <1>5 DEF IndInv, OnFiles

LEMMA Invariance == ASSUME ~Overlap PROVE Spec => []IndInv
BY InitIndInv, Inductive, PTL DEF Spec

\* No two handles have a writer on the same file, as long as nothing else runs
\* during a deletion: not after an open that failed or was given up, nor with a
\* subscriber of a deleted database still there (get_or_open in db/mod.rs).
THEOREM OneWriterPerFile == ASSUME ~Overlap PROVE Spec => []SingleWriter
<1>1. IndInv => SingleWriter
  BY DEF IndInv
<1>2. QED
  BY <1>1, Invariance, PTL

\* What is read in a database was written since it was created, if its file could
\* be removed and nothing else ran during a deletion (drop_database in db/mod.rs).
THEOREM NothingIsInherited == ASSUME ~Overlap PROVE Spec => []BornEmpty
<1>1. IndInv => BornEmpty
  <2> SUFFICES ASSUME IndInv, cached # None, record, pool[cached] \notin kept
               PROVE  \A d \in contents[pool[cached]] : madeIn[d] = era
    BY DEF BornEmpty
  <2>1. pool[cached] = path /\ writer[cached] = path /\ writer[cached] # None
    BY DEF IndInv, AtPath, Live
  <2>2. QED
    BY <2>1 DEF IndInv, Documents
<1>2. QED
  BY <1>1, Invariance, PTL

\* An acknowledged write is in the file a restart opens until the database is
\* deleted, whatever fails to open or restarts in between.
THEOREM AckedIsKept == ASSUME ~Overlap PROVE Spec => []AckedSurvive
<1>1. IndInv => AckedSurvive
  BY DEF IndInv, Documents, AckedSurvive
<1>2. QED
  BY <1>1, Invariance, PTL

\* A name without a database has no grants, unless a crash cut its deletion short
\* (delete_database_record in system.rs).
THEOREM GrantsGoWithTheName == ASSUME ~Overlap PROVE Spec => []NoOrphanGrants
<1>1. IndInv => NoOrphanGrants
  <2> SUFFICES ASSUME IndInv, ~record, ~Deleting, ~torn PROVE grants = {}
    BY DEF NoOrphanGrants
  <2>1. \A p \in Procs : place[p] # "ungrant"
    BY DEF IndInv, Control, Fits, Deleting, Running
  <2>2. QED
    BY <2>1 DEF IndInv, Grants
<1>2. QED
  BY <1>1, Invariance, PTL
=============================================================================
