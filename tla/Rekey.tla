------------------------------- MODULE Rekey -------------------------------
(***************************************************************************)
(* `tinylord admin rekey` (cmd_rekey in src/src/main.rs with               *)
(* src/src/encryption.rs): back up every database file under the old key,  *)
(* encrypt each with a new one, verify, and write the new key to the key   *)
(* file; restore the backups when a file fails.  Before that, the first    *)
(* run of any command makes the key file, and the server makes the         *)
(* databases.  A command may die between any two steps; then the server or *)
(* another command is started.                                             *)
(*                                                                         *)
(* A key is a number, key 1 is generated by the first run and key n + 1 by *)
(* the n-th rekey.  A file's data is the number of writes it has seen.     *)
(* PRAGMA rekey is atomic (one SQLite transaction), writing the key file   *)
(* is not.  The other key sources print the key instead and are left out,  *)
(* and so are the permissions of the key file.                             *)
(***************************************************************************)
EXTENDS Integers, FiniteSets

CONSTANTS
    Files,       \* the *.db files there may be under data_dir
    System,      \* _system.db, without which the server does not start
    Faults,      \* failures: "backup", "rekey", "verify", "restore", "persist"
    MayCrash,    \* whether a command may be killed
    MaxRekeys,   \* bound: rekeys started
    MaxWrites    \* bound: writes to a file

ASSUME RekeyAssumption ==
    /\ System \in Files /\ IsFiniteSet(Files)
    /\ Faults \subseteq {"backup", "rekey", "verify", "restore", "persist"}
    /\ MayCrash \in BOOLEAN
    /\ MaxRekeys \in Nat /\ MaxWrites \in Nat

Torn == 0     \* the key file cut short, or empty; a file that is cut short
None == -1    \* the file does not exist
Keys == 1 .. MaxRekeys + 1

\* "off" and the ends of a rekey: no command is running.
Ends == {"off", "complete", "aborted", "failed"}
Places == Ends \cup {"generating", "backup", "rekey", "restore", "persist", "persisting"}

VARIABLES
    fileKey,     \* the key each file is encrypted with, if it exists
    data,        \* its contents
    keyFile,     \* the key in the key file
    backups,     \* the copies in all prerekey directories
    place,       \* what the command does
    todo,        \* files its current step has still to do
    rekeys,      \* rekeys started; the running one has made key rekeys + 1
    known        \* ghost: keys that were ever completely in the key file

disk == <<fileKey, data, keyFile, backups>>
vars == <<disk, place, todo, rekeys, known>>

Backup == [file : Files, run : 1 .. MaxRekeys, key : Keys, data : 0 .. MaxWrites]

Init ==
    /\ fileKey = [f \in Files |-> None] /\ data = [f \in Files |-> 0]
    /\ keyFile = None /\ backups = {}
    /\ place = "off" /\ todo = {}
    /\ rekeys = 0 /\ known = {}

\* enumerate_db_files; nothing else runs during a rekey.
Existing == {f \in Files : fileKey[f] # None}

FirstKey == 1
NewKey == rekeys + 1

Readable(k) == k \notin {Torn, None}

Opens(f, k) == Readable(k) /\ fileKey[f] = k

\* The key was read when the command started; only its last step changes it.
OldKey == keyFile

Stop(how) == place' = how /\ todo' = {}

-----------------------------------------------------------------------------
(* The first run and the server. *)

\* resolve_key_file finds no key file: write_key_file creates it, then writes.
Generate ==
    /\ place \in Ends
    /\ keyFile = None /\ keyFile' = Torn
    /\ place' = "generating" /\ todo' = {}
    /\ UNCHANGED <<fileKey, data, backups, rekeys, known>>

\* The key file holds the key.
KeyWritten(k) == keyFile' = k /\ known' = known \cup {k}

WriteFirstKey ==
    /\ place = "generating"
    /\ KeyWritten(FirstKey)
    /\ Stop("off")
    /\ UNCHANGED <<fileKey, data, backups, rekeys>>

\* System::open makes _system.db; databases are made by the server.
Create(f) ==
    /\ place \in Ends
    /\ Readable(keyFile)
    /\ fileKey[f] = None
    /\ f = System \/ Opens(System, keyFile)
    /\ fileKey' = [fileKey EXCEPT ![f] = keyFile]
    /\ Stop("off")
    /\ UNCHANGED <<data, keyFile, backups, rekeys, known>>

\* The server runs and a client writes.
Write(f) ==
    /\ place \in Ends
    /\ Opens(System, keyFile) /\ Opens(f, keyFile)
    /\ data[f] < MaxWrites
    /\ data' = [data EXCEPT ![f] = @ + 1]
    /\ Stop("off")
    /\ UNCHANGED <<fileKey, keyFile, backups, rekeys, known>>

\* (mistaken) all rekeys share one backup directory
StartSameDirectory ==
    /\ place \in Ends
    /\ Readable(keyFile) /\ Existing # {}
    /\ rekeys' = 1
    /\ place' = "backup" /\ todo' = Existing
    /\ UNCHANGED <<disk, known>>

\* A malformed key file is refused, not replaced.
Start ==
    /\ place \in Ends
    /\ rekeys < MaxRekeys
    /\ Readable(keyFile) /\ Existing # {}
    /\ rekeys' = rekeys + 1
    /\ place' = "backup" /\ todo' = Existing
    /\ UNCHANGED <<disk, known>>

-----------------------------------------------------------------------------
Copy(f) == [file |-> f, run |-> rekeys, key |-> OldKey, data |-> data[f]]

BackUp(f) ==
    /\ place = "backup" /\ f \in todo
    /\ Opens(f, OldKey)
    /\ backups' = backups \cup {Copy(f)}
    /\ todo' = todo \ {f}
    /\ UNCHANGED <<fileKey, data, keyFile, place, rekeys, known>>

BackUpFails(f) ==
    /\ place = "backup" /\ f \in todo
    /\ "backup" \in Faults \/ ~Opens(f, OldKey)
    /\ Stop("failed")
    /\ UNCHANGED <<disk, rekeys, known>>

\* (mistaken) the backups need not be complete
AllBackedUpSkipped ==
    /\ place = "backup"
    /\ place' = "rekey" /\ todo' = Existing
    /\ UNCHANGED <<disk, rekeys, known>>

AllBackedUp ==
    /\ place = "backup" /\ todo = {}
    /\ place' = "rekey" /\ todo' = Existing
    /\ UNCHANGED <<disk, rekeys, known>>

RekeyFile(f) ==
    /\ place = "rekey" /\ f \in todo
    /\ fileKey' = [fileKey EXCEPT ![f] = NewKey]
    /\ todo' = todo \ {f}
    /\ UNCHANGED <<data, keyFile, backups, place, rekeys, known>>

\* (mistaken) only the files that were not rekeyed yet are restored
RekeyFailsPartly(f) ==
    /\ place = "rekey" /\ f \in todo
    /\ \/ "rekey" \in Faults /\ UNCHANGED fileKey
       \/ "verify" \in Faults /\ fileKey' = [fileKey EXCEPT ![f] = NewKey]
    /\ place' = "restore" /\ todo' = todo
    /\ UNCHANGED <<data, keyFile, backups, rekeys, known>>

\* The file is unchanged when the rekey failed, not when only the check did.
RekeyFails(f) ==
    /\ place = "rekey" /\ f \in todo
    /\ \/ "rekey" \in Faults /\ UNCHANGED fileKey
       \/ "verify" \in Faults /\ fileKey' = [fileKey EXCEPT ![f] = NewKey]
    /\ place' = "restore" /\ todo' = Existing
    /\ UNCHANGED <<data, keyFile, backups, rekeys, known>>

\* (mistaken) a failing file is passed over
AllRekeyedAnyway ==
    /\ place = "rekey"
    /\ place' = "persist" /\ todo' = {}
    /\ UNCHANGED <<disk, rekeys, known>>

AllRekeyed ==
    /\ place = "rekey" /\ todo = {}
    /\ place' = "persist"
    /\ UNCHANGED <<disk, todo, rekeys, known>>

-----------------------------------------------------------------------------
\* Copying over a file may die half way: then neither key opens it, and the
\* backup is all there is.  That is a file under a key nobody has.
Restore(f) ==
    /\ place = "restore" /\ f \in todo
    /\ \E b \in backups :
          /\ b.file = f /\ b.run = rekeys
          /\ fileKey' = [fileKey EXCEPT ![f] = b.key]
          /\ data' = [data EXCEPT ![f] = b.data]
    /\ todo' = todo \ {f}
    /\ UNCHANGED <<keyFile, backups, place, rekeys, known>>

RestoreFails(f) ==
    /\ place = "restore" /\ f \in todo
    /\ "restore" \in Faults
    /\ fileKey' \in {fileKey, [fileKey EXCEPT ![f] = Torn]}
    /\ Stop("failed")
    /\ UNCHANGED <<data, keyFile, backups, rekeys, known>>

Abort ==
    /\ place = "restore" /\ todo = {}
    /\ Stop("aborted")
    /\ UNCHANGED <<disk, rekeys, known>>

-----------------------------------------------------------------------------
\* write_key_file truncates, then writes
Truncate ==
    /\ place = "persist"
    /\ keyFile' = Torn
    /\ place' = "persisting"
    /\ UNCHANGED <<fileKey, data, backups, todo, rekeys, known>>

WriteKey ==
    /\ place = "persisting"
    /\ KeyWritten(NewKey)
    /\ Stop("complete")
    /\ UNCHANGED <<fileKey, data, backups, rekeys>>

\* The directory, the file, the write, the permissions: each may fail, the last
\* with the key written, and nothing is restored.
PersistFails ==
    /\ place \in {"generating", "persist", "persisting"}
    /\ "persist" \in Faults
    /\ \/ UNCHANGED <<keyFile, known>>
       \/ place = "generating" /\ KeyWritten(FirstKey)
       \/ place = "persisting" /\ KeyWritten(NewKey)
    /\ Stop("failed")
    /\ UNCHANGED <<fileKey, data, backups, rekeys>>

Crash ==
    /\ MayCrash
    /\ place \notin Ends
    /\ Stop("off")
    /\ fileKey' \in {fileKey} \cup
           (IF place = "restore" THEN {[fileKey EXCEPT ![f] = Torn] : f \in todo} ELSE {})
    /\ UNCHANGED <<data, keyFile, backups, rekeys, known>>

Next ==
    \/ Generate \/ WriteFirstKey
    \/ Start \/ AllBackedUp \/ AllRekeyed \/ Abort
    \/ Truncate \/ WriteKey \/ PersistFails \/ Crash
    \/ \E f \in Files :
          \/ Create(f) \/ Write(f) \/ BackUp(f) \/ BackUpFails(f) \/ RekeyFile(f) \/ RekeyFails(f)
          \/ Restore(f) \/ RestoreFails(f)

Spec == Init /\ [][Next]_vars

-----------------------------------------------------------------------------
\* Every variable has its type; in particular each rekey backs a file up once,
\* while the file is under a key that was in the key file.
TypeOK ==
    /\ fileKey \in [Files -> Keys \cup {Torn, None}] /\ data \in [Files -> 0 .. MaxWrites]
    /\ keyFile \in Keys \cup {Torn, None}
    /\ backups \subseteq Backup
    /\ \A a, b \in backups : a.file = b.file /\ a.run = b.run => a = b
    /\ place \in Places /\ todo \subseteq Existing
    /\ rekeys \in 0 .. MaxRekeys /\ known \subseteq Keys

\* Nothing is lost that a backup of the key file, made whenever it changes, could
\* not recover: at every moment, whatever failed or was killed, and however many
\* rekeys did, each file's contents are in the file or in a backup under a key
\* that was completely in the key file once.
Recoverable ==
    \A f \in Existing :
        \/ fileKey[f] \in known
        \/ \E b \in backups : b.file = f /\ b.data = data[f] /\ b.key \in known

\* A rekey that reports that the databases were restored leaves every file as
\* the rekey found it, openable with the key in the key file, no matter at which
\* file it failed.
AbortRestores ==
    place = "aborted" =>
        \A f \in Existing :
            /\ Opens(f, keyFile)
            /\ Copy(f) \in backups

\* The key file never changes to a key that does not open all the files: "persist
\* the new key only after every DB succeeded" (main.rs:418).
KeyFollowsFiles ==
    [][keyFile' \notin {keyFile, Torn} => \A f \in Existing : fileKey'[f] = keyFile']_vars

\* "On any failure, restore from the pre-rekey snapshots and abort without
\* changing the key source" (main.rs:361-362): after a rekey that reports a failure
\* the key in the key file opens every file.
FailureKeepsKey == place = "failed" => \A f \in Existing : Opens(f, keyFile)
=============================================================================
