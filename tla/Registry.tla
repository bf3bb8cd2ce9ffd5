------------------------------ MODULE Registry ------------------------------
(***************************************************************************)
(* The life of one database name: its row in the system database, its      *)
(* grants, its file, and the handle the registry caches for it, under      *)
(* concurrent requests, restarts and errors (src/src/db/mod.rs, the        *)
(* handlers in src/src/api/admin.rs, AppState in src/src/api/mod.rs and    *)
(* the tables in src/src/system.rs).                                       *)
(*                                                                         *)
(* A request is a process; each statement on the system database and each  *)
(* stretch of code under the registry's mutex is a step.  Files are        *)
(* numbered like inodes: one that was unlinked lives on in the handles     *)
(* that have it open.  The file and its -wal and -shm are one file here,   *)
(* and a document is the number of the write that made it.                 *)
(***************************************************************************)
EXTENDS Integers, FiniteSets

CONSTANTS
    Procs,        \* request handlers
    Users,        \* principals other than the administrator
    Overlap,      \* whether other requests may run during a deletion
    Faults,       \* failures: "open" (writer), "pool" (read pool), "unlink", and
                  \* "cancel": a client that goes away before its answer
    MaxFiles,     \* bound: files in use at a time, the one at the path included
    MaxHandles,   \* bound: handles in use at a time
    MaxStrays,    \* bound: strays at a time
    MaxWrites,    \* bound: documents ever written
    MaxCreates,   \* bound: times the database is created
    MaxCrashes    \* bound: restarts of the server

ASSUME RegistryAssumption ==
    /\ IsFiniteSet(Procs) /\ Users # {}
    /\ Overlap \in BOOLEAN /\ Faults \subseteq {"open", "pool", "unlink", "cancel"}
    /\ MaxFiles \in Nat /\ MaxHandles \in Nat /\ MaxStrays \in Nat
    /\ MaxWrites \in Nat /\ MaxCreates \in Nat /\ MaxCrashes \in Nat

None == 0      \* no file, no handle

Files == 1 .. MaxFiles
Handles == 1 .. MaxHandles
Docs == 1 .. MaxWrites

Kinds == {"create", "delete", "write", "listen", "grant", "revoke"}

\* Where a request is; "idle" is no request, "stream" a pub/sub subscription.
Places == {"idle", "start", "found", "authorized", "lookup", "open_writer", "open_pool",
           "use", "unlink", "unlist", "ungrant", "stream"}

VARIABLES
    record,     \* the row of the databases table
    grants,     \* users with a row in the grants table
    path,       \* the file at the database's path
    contents,   \* the documents in each file
    writer,     \* file the writer of each handle has open
    pool,       \* file the read pool of each handle has open
    cached,     \* the registry's handle
    lock,       \* the requests holding the registry's mutex
    strays,     \* writer threads being started for requests that are gone
    place,      \* where each request is
    kind, user, \* what each request does, and for whom
    held,       \* the handle each request holds
    docs,       \* documents written so far
    era,        \* ghost: times the database was created
    madeIn,     \* ghost: the era a document was written in
    acked,      \* ghost: documents whose write was acknowledged, no deletion since
    torn,       \* ghost: a deletion died before it removed the grants
    kept,       \* ghost: files whose removal failed
    crashes

system == <<record, grants>>
disk == <<path, contents>>
open == <<writer, pool, cached>>
request == <<kind, user>>
history == <<era, madeIn, acked, torn>>
ghosts == <<history, kept>>
vars == <<system, disk, open, lock, strays, place, request, held, docs, ghosts, crashes>>

Init ==
    /\ record = FALSE /\ grants = {}
    /\ path = None /\ contents = [f \in Files |-> {}]
    /\ writer = [h \in Handles |-> None] /\ pool = [h \in Handles |-> None]
    /\ cached = None /\ lock = {} /\ strays = 0
    /\ place = [p \in Procs |-> "idle"]
    /\ kind = [p \in Procs |-> "none"]
    /\ user = [p \in Procs |-> CHOOSE u \in Users : TRUE]
    /\ held = [p \in Procs |-> None]
    /\ docs = 0
    /\ era = 0 /\ madeIn = [d \in Docs |-> 0] /\ acked = {} /\ torn = FALSE /\ kept = {}
    /\ crashes = 0

Goto(p, where) == place' = [place EXCEPT ![p] = where] /\ UNCHANGED request

Running(p) == place[p] \notin {"idle", "stream"}

Deleting == \E p \in Procs : Running(p) /\ kind[p] = "delete"

\* The handles that exist: the registry's and those requests and streams hold.
Live == ({cached} \cup {held[p] : p \in Procs}) \ {None}

InUse == {path} \cup {writer[h] : h \in Live} \cup {pool[h] : h \in Live}

\* The end of a request, which drops the handle it holds.
Finish(p) ==
    /\ place' = [place EXCEPT ![p] = "idle"] /\ held' = [held EXCEPT ![p] = None]
    /\ kind' = [kind EXCEPT ![p] = "none"] /\ UNCHANGED user

-----------------------------------------------------------------------------
Waiting(k) == Cardinality({p \in Procs : Running(p) /\ kind[p] = k})

Arrive(p, k, u) ==
    /\ place[p] = "idle"
    /\ k = "write" => docs + Waiting("write") < MaxWrites
    /\ k = "create" => era + Waiting("create") < MaxCreates
    /\ Overlap \/ (~Deleting /\ (k = "delete" => \A q \in Procs : ~Running(q)))
    /\ kind' = [kind EXCEPT ![p] = k]
    /\ user' = [user EXCEPT ![p] = u]
    /\ place' = [place EXCEPT ![p] = "start"]
    /\ UNCHANGED <<system, disk, open, lock, strays, held, docs, ghosts, crashes>>

\* insert_database; a name that is taken is a conflict.
CreateRecord(p) ==
    /\ place[p] = "start" /\ kind[p] = "create"
    /\ IF record
       THEN Finish(p) /\ UNCHANGED <<record, era>>
       ELSE /\ record' = TRUE /\ era' = era + 1
            /\ Goto(p, "lookup") /\ UNCHANGED held
    /\ UNCHANGED <<grants, disk, open, lock, strays, docs, madeIn, acked, torn, kept, crashes>>

\* Every other request first looks whether the database exists, except a revoke.
FindDatabase(p) ==
    /\ place[p] = "start" /\ kind[p] \notin {"create", "revoke"}
    /\ IF record THEN Goto(p, "found") /\ UNCHANGED held ELSE Finish(p)
    /\ UNCHANGED <<system, disk, open, lock, strays, docs, ghosts, crashes>>

\* authorize of a data request goes on to the grant.
CheckRole(p) ==
    /\ place[p] = "found" /\ kind[p] \in {"write", "listen"}
    /\ IF user[p] \in grants THEN Goto(p, "authorized") /\ UNCHANGED held ELSE Finish(p)
    /\ UNCHANGED <<system, disk, open, lock, strays, docs, ghosts, crashes>>

\* open_db looks again before it asks the registry.
OpenDb(p) ==
    /\ place[p] = "authorized"
    /\ IF record THEN Goto(p, "lookup") /\ UNCHANGED held ELSE Finish(p)
    /\ UNCHANGED <<system, disk, open, lock, strays, docs, ghosts, crashes>>

\* create_grant and delete_grant
UpsertGrant(p) ==
    /\ place[p] = "found" /\ kind[p] = "grant"
    /\ grants' = grants \cup {user[p]}
    /\ Finish(p)
    /\ UNCHANGED <<record, disk, open, lock, strays, docs, ghosts, crashes>>

DeleteGrant(p) ==
    /\ place[p] = "start" /\ kind[p] = "revoke"
    /\ grants' = grants \ {user[p]}
    /\ Finish(p)
    /\ UNCHANGED <<record, disk, open, lock, strays, docs, ghosts, crashes>>

-----------------------------------------------------------------------------
(* get_or_open: the mutex is held from the lookup to the insertion. *)

\* (mistaken) without the mutex
LookupUnlocked(p) ==
    /\ place[p] = "lookup"
    /\ IF cached # None
       THEN /\ held' = [held EXCEPT ![p] = cached]
            /\ Goto(p, "use") /\ UNCHANGED lock
       ELSE /\ lock' = lock \cup {p}
            /\ Goto(p, "open_writer") /\ UNCHANGED held
    /\ UNCHANGED <<system, disk, open, strays, docs, ghosts, crashes>>

Lookup(p) ==
    /\ place[p] = "lookup" /\ lock = {}
    /\ IF cached # None
       THEN /\ held' = [held EXCEPT ![p] = cached]
            /\ Goto(p, "use") /\ UNCHANGED lock
       ELSE /\ lock' = lock \cup {p}
            /\ Goto(p, "open_writer") /\ UNCHANGED held
    /\ UNCHANGED <<system, disk, open, strays, docs, ghosts, crashes>>

\* Opening a path makes the file when there is none.
OpenPath ==
    IF path # None THEN UNCHANGED <<disk, kept>>
    ELSE /\ Files \ InUse # {}
         /\ path' = CHOOSE f \in Files : f \notin InUse
         /\ contents' = [contents EXCEPT ![path'] = {}]
         /\ kept' = kept \ {path'}

OpenWriter(p) ==
    /\ place[p] = "open_writer" /\ Handles \ Live # {}
    /\ OpenPath
    /\ held' = [held EXCEPT ![p] = CHOOSE h \in Handles : h \notin Live]
    /\ writer' = [writer EXCEPT ![held'[p]] = path']
    /\ Goto(p, "open_pool")
    /\ UNCHANGED <<system, pool, cached, lock, strays, docs, history, crashes>>

OpenPool(p) ==
    /\ place[p] = "open_pool"
    /\ OpenPath
    /\ pool' = [pool EXCEPT ![held[p]] = path']
    /\ cached' = held[p]
    /\ lock' = lock \ {p}
    /\ Goto(p, "use")
    /\ UNCHANGED <<system, writer, strays, held, docs, history, crashes>>

\* (mistaken) the early return leaves the mutex locked
OpenFailsLocked(p) ==
    /\ \/ place[p] = "open_writer" /\ "open" \in Faults
       \/ place[p] = "open_pool" /\ "pool" \in Faults
    /\ Finish(p)
    /\ UNCHANGED <<system, disk, open, lock, strays, docs, ghosts, crashes>>

\* Either open may fail: nothing is cached and the request ends with an error,
\* a create after its record was written.
OpenFails(p) ==
    /\ \/ place[p] = "open_writer" /\ "open" \in Faults
       \/ place[p] = "open_pool" /\ "pool" \in Faults
    /\ lock' = lock \ {p}
    /\ Finish(p)
    /\ UNCHANGED <<system, disk, open, strays, docs, ghosts, crashes>>

-----------------------------------------------------------------------------
\* A client that is gone does not learn that its write was carried out.
Use(p) ==
    /\ place[p] = "use"
    /\ \/ kind[p] = "create" /\ Finish(p) /\ UNCHANGED <<contents, docs, madeIn, acked>>
       \/ /\ kind[p] = "listen" /\ Goto(p, "stream")
          /\ UNCHANGED <<held, contents, docs, madeIn, acked>>
       \/ /\ kind[p] = "write"
          /\ docs' = docs + 1
          /\ contents' = [contents EXCEPT ![writer[held[p]]] = @ \cup {docs'}]
          /\ madeIn' = [madeIn EXCEPT ![docs'] = era]
          /\ acked' \in {acked \cup {docs'}} \cup (IF "cancel" \in Faults THEN {acked} ELSE {})
          /\ Finish(p)
    /\ UNCHANGED <<system, path, open, lock, strays, era, torn, kept, crashes>>

\* The subscriber of a channel goes away; its stream held the handle.
Disconnect(p) ==
    /\ place[p] = "stream"
    /\ Finish(p)
    /\ UNCHANGED <<system, disk, open, lock, strays, docs, ghosts, crashes>>

-----------------------------------------------------------------------------
(* delete_database: drop_database, then delete_database_record. *)

\* (mistaken) the handle stays in the map
ForgetHandleKept(p) ==
    /\ place[p] = "found" /\ kind[p] = "delete"
    /\ lock = {}
    /\ acked' = {} /\ Goto(p, "unlink")
    /\ UNCHANGED <<system, disk, open, lock, strays, held, docs, era, madeIn, torn, kept, crashes>>

\* The handle is taken out of the map.
ForgetHandle(p) ==
    /\ place[p] = "found" /\ kind[p] = "delete"
    /\ lock = {}
    /\ cached' = None /\ acked' = {} /\ Goto(p, "unlink")
    /\ UNCHANGED <<system, disk, writer, pool, lock, strays, held, docs, era, madeIn, torn, kept, crashes>>

\* (mistaken) the file stays
UnlinkNothing(p) ==
    /\ place[p] = "unlink"
    /\ Goto(p, "unlist")
    /\ UNCHANGED <<system, disk, open, lock, strays, held, docs, ghosts, crashes>>

Unlink(p) ==
    /\ place[p] = "unlink"
    /\ path' = None
    /\ Goto(p, "unlist")
    /\ UNCHANGED <<system, contents, open, lock, strays, held, docs, ghosts, crashes>>

\* A removal that fails is only logged.
UnlinkFails(p) ==
    /\ place[p] = "unlink" /\ "unlink" \in Faults
    /\ kept' = (kept \cup {path}) \ {None}
    /\ Goto(p, "unlist")
    /\ UNCHANGED <<system, disk, open, lock, strays, held, docs, history, crashes>>

DeleteRecord(p) ==
    /\ place[p] = "unlist"
    /\ record' = FALSE
    /\ Goto(p, "ungrant")
    /\ UNCHANGED <<grants, disk, open, lock, strays, held, docs, ghosts, crashes>>

\* (mistaken) grants outlive their database
DeleteGrantsForgotten(p) ==
    /\ place[p] = "ungrant"
    /\ Finish(p)
    /\ UNCHANGED <<system, disk, open, lock, strays, docs, ghosts, crashes>>

DeleteGrants(p) ==
    /\ place[p] = "ungrant"
    /\ grants' = {} /\ torn' = FALSE
    /\ Finish(p)
    /\ UNCHANGED <<record, disk, open, lock, strays, docs, era, madeIn, acked, kept, crashes>>

-----------------------------------------------------------------------------
(* A client that goes away: its handler is dropped where it waits, with the  *)
(* handle and the mutex it holds; a deletion waits for nothing but the mutex. *)

\* For the mutex, or for the reply to a write that the writer may not have got.
CancelWaiting(p) ==
    /\ "cancel" \in Faults
    /\ \/ place[p] = "lookup"
       \/ place[p] = "found" /\ kind[p] = "delete"
       \/ place[p] = "use" /\ kind[p] = "write"
    /\ Finish(p)
    /\ UNCHANGED <<system, disk, open, lock, strays, docs, ghosts, crashes>>

\* For the writer to be ready, whose thread goes on without it.
CancelOpen(p) ==
    /\ "cancel" \in Faults
    /\ place[p] = "open_writer" /\ strays < MaxStrays
    /\ lock' = lock \ {p} /\ strays' = strays + 1
    /\ Finish(p)
    /\ UNCHANGED <<system, disk, open, docs, ghosts, crashes>>

\* The thread opens the database, finds nobody to serve and ends.
StrayOpens ==
    /\ strays > 0 /\ strays' = strays - 1
    /\ OpenPath
    /\ UNCHANGED <<system, open, lock, place, request, held, docs, history, crashes>>

-----------------------------------------------------------------------------
\* The server dies and starts again: all handles and requests are gone.
Crash ==
    /\ crashes < MaxCrashes /\ crashes' = crashes + 1
    /\ cached' = None /\ lock' = {} /\ strays' = 0
    /\ place' = [p \in Procs |-> "idle"] /\ held' = [p \in Procs |-> None]
    /\ kind' = [p \in Procs |-> "none"]
    /\ torn' = (torn \/ \E p \in Procs : place[p] = "ungrant")
    /\ UNCHANGED <<system, disk, writer, pool, user, docs, era, madeIn, acked, kept>>

\* A request goes on until it is answered.
Serve(p) ==
    \/ CreateRecord(p) \/ FindDatabase(p) \/ CheckRole(p) \/ OpenDb(p)
    \/ UpsertGrant(p) \/ DeleteGrant(p)
    \/ Lookup(p) \/ OpenWriter(p) \/ OpenPool(p) \/ OpenFails(p) \/ Use(p)
    \/ ForgetHandle(p) \/ Unlink(p) \/ UnlinkFails(p) \/ DeleteRecord(p) \/ DeleteGrants(p)

Next ==
    \/ \E p \in Procs : Serve(p) \/ Disconnect(p) \/ CancelWaiting(p) \/ CancelOpen(p)
    \/ StrayOpens
    \/ \E p \in Procs, k \in Kinds, u \in Users : Arrive(p, k, u)
    \/ Crash

Spec == Init /\ [][Next]_vars

\* Requests are served, and tokio's mutex is fair: who waits for it gets it.
FairSpec == Spec /\ \A p \in Procs : WF_vars(Serve(p)) /\ SF_vars(Lookup(p) \/ ForgetHandle(p))

-----------------------------------------------------------------------------
\* Every variable has its type; in particular a handle that is in use has a
\* number, and at most one request is inside get_or_open.
TypeOK ==
    /\ record \in BOOLEAN /\ grants \subseteq Users
    /\ path \in Files \cup {None} /\ contents \in [Files -> SUBSET Docs]
    /\ writer \in [Handles -> Files \cup {None}] /\ pool \in [Handles -> Files \cup {None}]
    /\ cached \in Handles \cup {None} /\ lock \subseteq Procs /\ Cardinality(lock) <= 1
    /\ place \in [Procs -> Places] /\ kind \in [Procs -> Kinds \cup {"none"}] /\ user \in [Procs -> Users]
    /\ held \in [Procs -> Handles \cup {None}]
    /\ docs \in 0 .. MaxWrites
    /\ era \in 0 .. MaxCreates /\ madeIn \in [Docs -> 0 .. MaxCreates] /\ acked \subseteq Docs /\ torn \in BOOLEAN
    /\ strays \in 0 .. MaxStrays /\ kept \subseteq Files /\ crashes \in 0 .. MaxCrashes

\* No two handles have writers on the same file, also while one is being opened,
\* retried after an error or a request that went away, or kept by the stream of a
\* deleted database; unless the deletion failed to remove the file.
SingleWriter == \A g, h \in Live : writer[g] = writer[h] => g = h \/ writer[g] \in kept

\* A database begins empty: what is read in it was written since it was created,
\* never in a deleted database of the same name; unless the file could not be
\* removed.
BornEmpty ==
    cached # None /\ record =>
        pool[cached] \in kept \/ \A d \in contents[pool[cached]] : madeIn[d] = era

\* An acknowledged write is in the file a restart would open until somebody
\* deletes the database.
AckedSurvive ==
    record /\ ~Deleting =>
        \A d \in acked : madeIn[d] = era => path # None /\ d \in contents[path]

\* A name without a database has no grants, so that one created later under the
\* name starts with none; only a crash inside the deletion leaves some.
NoOrphanGrants == ~record /\ ~Deleting /\ ~torn => grants = {}

\* Every request ends, also when opening a database fails (a subscription ends
\* by becoming a stream).
RequestsEnd == \A p \in Procs : Running(p) ~> ~Running(p)
=============================================================================
