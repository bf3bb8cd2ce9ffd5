---------------------------- MODULE RekeyProofs ----------------------------
(***************************************************************************)
(* Theorems about module Rekey, for any set of files, any set of faults    *)
(* and any number of rekeys.                                               *)
(***************************************************************************)
EXTENDS Rekey, TLAPS

\* The command runs and has not begun to replace the old key.
UnderOldKey == place \in {"backup", "rekey", "restore", "persist"}

(***************************************************************************)
(* The inductive invariant, in six parts.                                  *)
(***************************************************************************)

\* The key file holds a key that was there completely, or nothing; while the
\* command needs the old key, it is there.
KeyIsKnown ==
    /\ keyFile \in known \cup {Torn, None}
    /\ UnderOldKey => Readable(keyFile)

\* Before the first key there are no files.
KeyComesFirst == keyFile = None \/ place = "generating" => Existing = {}

\* Backups are encrypted with keys that were in the key file, and the running
\* rekey has made at least one directory.
BackupsAreKnown ==
    /\ \A b \in backups : b.key \in known /\ b.run <= rekeys
    /\ place \notin Ends \cup {"generating"} => rekeys >= 1

\* The backups of the running rekey are copies of what the files held when it
\* started, and from its second step on there is one of each file.
BackupsAreCopies ==
    /\ UnderOldKey => \A b \in backups : b.run = rekeys => b = Copy(b.file)
    /\ place = "backup" => \A f \in Existing \ todo : Copy(f) \in backups
    /\ place \in {"rekey", "restore", "persist", "aborted"} =>
           \A f \in Existing : Copy(f) \in backups

\* What the steps have done to the files they are through with.
FilesAreDone ==
    /\ place = "rekey" => \A f \in Existing \ todo : fileKey[f] = NewKey
    /\ place \in {"persist", "persisting"} => \A f \in Existing : fileKey[f] = NewKey
    /\ place = "restore" => \A f \in Existing \ todo : Opens(f, keyFile)
    /\ place = "aborted" => \A f \in Existing : Opens(f, keyFile)

IndInv ==
    TypeOK /\ KeyIsKnown /\ KeyComesFirst /\ BackupsAreKnown /\ BackupsAreCopies
    /\ FilesAreDone /\ Recoverable

LEMMA InitIsGood == Init => IndInv
<1> SUFFICES ASSUME Init PROVE IndInv
  OBVIOUS
<1> USE RekeyAssumption
<1>1. Existing = {}
  BY DEF Init, Existing
<1>2. TypeOK
  BY DEF Init, TypeOK, Keys, Places, Ends
<1>3. KeyIsKnown /\ BackupsAreKnown /\ BackupsAreCopies /\ FilesAreDone
  BY DEF Init, KeyIsKnown, BackupsAreKnown, BackupsAreCopies, FilesAreDone, UnderOldKey, Ends
<1>4. KeyComesFirst /\ Recoverable
  BY <1>1 DEF KeyComesFirst, Recoverable
<1>5. QED
  BY <1>2, <1>3, <1>4 DEF IndInv

-----------------------------------------------------------------------------
(* One lemma per group of actions. *)

\* A file that is made, or changed to any key or cut short, exists from then on.
LEMMA FilesStay ==
    ASSUME TypeOK, NEW f \in Files, NEW k \in Keys \cup {Torn}
    PROVE  {g \in Files : [fileKey EXCEPT ![f] = k][g] # None} = Existing \cup {f}
  BY DEF TypeOK, Existing, Keys, Torn, None

\* The steps outside a rekey: the first run, the server's, the start of the command.
LEMMA FirstRunKeeps ==
    ASSUME IndInv, Generate \/ WriteFirstKey \/ \E f \in Files : Create(f)
    PROVE  IndInv'
<1> USE RekeyAssumption DEF IndInv
<1>1. CASE Generate
  <2>1. /\ place \in Ends /\ place' = "generating" /\ todo' = {} /\ keyFile = None
        /\ keyFile' = Torn /\ UNCHANGED <<fileKey, data, backups, rekeys, known>>
    BY <1>1 DEF Generate
  <2>2. Existing' = Existing /\ Existing = {}
    BY <2>1 DEF Existing, KeyComesFirst
  <2>3. TypeOK'
    BY <2>1 DEF TypeOK, Places
  <2>4. KeyIsKnown' /\ KeyComesFirst' /\ BackupsAreKnown' /\ BackupsAreCopies'
        /\ FilesAreDone' /\ Recoverable'
    BY <2>1, <2>2 DEF KeyIsKnown, KeyComesFirst, BackupsAreKnown, BackupsAreCopies,
                      FilesAreDone, Recoverable, UnderOldKey
  <2>5. QED
    BY <2>3, <2>4
<1>2. CASE WriteFirstKey
  <2>1. /\ place = "generating" /\ place' = "off" /\ todo' = {} /\ keyFile' = 1
        /\ known' = known \cup {1} /\ UNCHANGED <<fileKey, data, backups, rekeys>>
    BY <1>2 DEF WriteFirstKey, KeyWritten, Stop, FirstKey
  <2>2. Existing' = Existing /\ Existing = {}
    BY <2>1 DEF Existing, KeyComesFirst
  <2>3. TypeOK'
    BY <2>1 DEF TypeOK, Places, Ends, Keys
  <2>4. KeyIsKnown' /\ KeyComesFirst' /\ BackupsAreKnown' /\ BackupsAreCopies'
        /\ FilesAreDone' /\ Recoverable'
    BY <2>1, <2>2 DEF KeyIsKnown, KeyComesFirst, BackupsAreKnown, BackupsAreCopies,
                      FilesAreDone, Recoverable, UnderOldKey, Ends
  <2>5. QED
    BY <2>3, <2>4
<1>3. ASSUME NEW f \in Files, Create(f)
      PROVE  IndInv'
  <2>1. /\ place' = "off" /\ todo' = {} /\ keyFile \notin {Torn, None}
        /\ fileKey' = [fileKey EXCEPT ![f] = keyFile]
        /\ UNCHANGED <<data, keyFile, backups, rekeys, known>>
    BY <1>3 DEF Create, Stop, Readable
  <2>2. Existing' = Existing \cup {f}
    BY <2>1, FilesStay DEF TypeOK, Existing
  <2>3. TypeOK'
    BY <2>1 DEF TypeOK, Places, Ends
  <2>4. KeyIsKnown' /\ KeyComesFirst' /\ BackupsAreKnown' /\ BackupsAreCopies' /\ FilesAreDone'
    BY <2>1 DEF KeyIsKnown, KeyComesFirst, BackupsAreKnown, BackupsAreCopies, FilesAreDone,
                UnderOldKey, Ends
  <2>5. /\ fileKey'[f] = keyFile /\ keyFile \in known
        /\ \A g \in Files \ {f} : fileKey'[g] = fileKey[g]
    BY <2>1 DEF TypeOK, KeyIsKnown
  <2>6. Recoverable'
    BY <2>1, <2>2, <2>5 DEF Recoverable, Existing
  <2>7. QED
    BY <2>3, <2>4, <2>6
<1>4. QED
  BY <1>1, <1>2, <1>3

LEMMA OutsideKeeps ==
    ASSUME IndInv, Start \/ \E f \in Files : Write(f)
    PROVE  IndInv'
<1> USE RekeyAssumption DEF IndInv
<1>1. CASE Start
  <2>1. /\ place' = "backup" /\ todo' = Existing' /\ Existing' = Existing
        /\ rekeys < MaxRekeys /\ rekeys' = rekeys + 1 /\ Readable(keyFile)
        /\ UNCHANGED <<fileKey, data, keyFile, backups, known>>
    BY <1>1 DEF Start, disk, Existing
  <2>2. TypeOK'
    BY <2>1 DEF TypeOK, Places
  <2>3. KeyIsKnown' /\ KeyComesFirst' /\ FilesAreDone' /\ Recoverable'
    BY <2>1 DEF KeyIsKnown, KeyComesFirst, FilesAreDone, Recoverable, UnderOldKey, Readable
  <2>4. BackupsAreKnown' /\ BackupsAreCopies'
    <3>1. rekeys \in Nat
      BY DEF TypeOK
    <3>2. \A b \in backups : b.run \in Nat /\ b.run <= rekeys /\ b.key \in known'
      BY <2>1 DEF TypeOK, Backup, BackupsAreKnown
    <3>3. QED
      BY <2>1, <3>1, <3>2 DEF BackupsAreKnown, BackupsAreCopies, UnderOldKey
  <2>5. QED
    BY <2>2, <2>3, <2>4
<1>2. ASSUME NEW f \in Files, Write(f)
      PROVE  IndInv'
  <2>1. /\ place' = "off" /\ data' = [data EXCEPT ![f] = @ + 1] /\ data[f] < MaxWrites
        /\ todo' = {} /\ fileKey[f] = keyFile /\ keyFile \notin {Torn, None}
        /\ UNCHANGED <<fileKey, keyFile, backups, rekeys, known>> /\ Existing' = Existing
    BY <1>2 DEF Write, Stop, Opens, Readable, Existing
  <2>2. TypeOK'
    BY <2>1 DEF TypeOK, Places, Ends, Backup
  <2>3. KeyIsKnown' /\ KeyComesFirst' /\ BackupsAreKnown' /\ BackupsAreCopies' /\ FilesAreDone'
    BY <2>1 DEF KeyIsKnown, KeyComesFirst, BackupsAreKnown, BackupsAreCopies, FilesAreDone,
                UnderOldKey, Ends
  <2>4. \A g \in Files \ {f} : data'[g] = data[g]
    BY <2>1 DEF TypeOK
  <2>5. Recoverable'
    BY <2>1, <2>4 DEF Recoverable, KeyIsKnown, Existing
  <2>6. QED
    BY <2>2, <2>3, <2>5
<1>3. QED
  BY <1>1, <1>2

\* A copy of a file, made while the command needs the old key, recovers it.
LEMMA CopyRecovers ==
    ASSUME IndInv, UnderOldKey, NEW f \in Files
    PROVE  /\ keyFile \in Keys
           /\ Copy(f) \in Backup
           /\ Copy(f).file = f /\ Copy(f).run = rekeys
           /\ Copy(f).data = data[f] /\ Copy(f).key \in known
<1>1. rekeys \in 1 .. MaxRekeys /\ keyFile \in Keys /\ keyFile \in known
  BY RekeyAssumption
  DEF IndInv, TypeOK, BackupsAreKnown, KeyIsKnown, UnderOldKey, Readable, Ends
<1>2. QED
  BY <1>1 DEF Copy, OldKey, Backup, IndInv, TypeOK

LEMMA BackingUpKeeps ==
    ASSUME IndInv, AllBackedUp \/ \E f \in Files : BackUp(f) \/ BackUpFails(f)
    PROVE  IndInv'
<1> USE RekeyAssumption DEF IndInv
<1>1. CASE AllBackedUp
  <2>1. TypeOK' /\ KeyIsKnown' /\ KeyComesFirst' /\ FilesAreDone' /\ Recoverable'
    BY <1>1 DEF AllBackedUp, disk, TypeOK, KeyIsKnown, KeyComesFirst, FilesAreDone,
                Recoverable, UnderOldKey, Places, Existing
  <2>2. BackupsAreKnown' /\ BackupsAreCopies'
    BY <1>1 DEF AllBackedUp, disk, BackupsAreKnown, BackupsAreCopies, UnderOldKey, Ends,
                Copy, OldKey, Existing
  <2>3. QED
    BY <2>1, <2>2
<1>2. ASSUME NEW f \in Files, BackUp(f)
      PROVE  IndInv'
  <2>1. /\ place = "backup" /\ place' = "backup" /\ f \in todo /\ todo' = todo \ {f}
        /\ backups' = backups \cup {Copy(f)}
        /\ UNCHANGED <<fileKey, data, keyFile, rekeys, known>> /\ Existing' = Existing
    BY <1>2 DEF BackUp, Existing
  <2>2. UnderOldKey /\ UnderOldKey'
    BY <2>1 DEF UnderOldKey
  <2>3. \A g : Copy(g)' = Copy(g)
    BY <2>1 DEF Copy, OldKey
  <2>4. /\ Copy(f) \in Backup /\ Copy(f).file = f /\ Copy(f).run = rekeys
        /\ Copy(f).key \in known
    BY <2>2, CopyRecovers
  <2>5. \A b \in backups' : b.run = rekeys => b = Copy(b.file)
    BY <2>1, <2>2, <2>4 DEF BackupsAreCopies
  <2>6. TypeOK'
    <3>1. backups' \subseteq Backup
      BY <2>1, <2>4 DEF TypeOK
    <3>2. \A a, b \in backups' : a.file = b.file /\ a.run = b.run => a = b
      BY <2>1, <2>4, <2>5 DEF TypeOK
    <3>3. QED
      BY <2>1, <3>1, <3>2 DEF TypeOK, Backup, Keys
  <2>7. BackupsAreCopies'
    <3>1. \A g \in Existing \ todo' : Copy(g) \in backups'
      BY <2>1 DEF BackupsAreCopies
    <3>2. QED
      BY <2>1, <2>3, <2>5, <3>1 DEF BackupsAreCopies
  <2>8. BackupsAreKnown'
    <3>1. rekeys \in Nat
      BY DEF TypeOK
    <3>2. QED
      BY <2>1, <2>4, <3>1 DEF BackupsAreKnown
  <2>9. KeyIsKnown' /\ KeyComesFirst' /\ FilesAreDone' /\ Recoverable'
    BY <2>1, <2>2 DEF KeyIsKnown, KeyComesFirst, FilesAreDone, Recoverable, UnderOldKey
  <2>10. QED
    BY <2>6, <2>7, <2>8, <2>9
<1>3. ASSUME NEW f \in Files, BackUpFails(f)
      PROVE  IndInv'
  BY <1>3 DEF BackUpFails, Stop, disk, TypeOK, KeyIsKnown, KeyComesFirst, BackupsAreKnown,
              BackupsAreCopies, FilesAreDone, Recoverable, UnderOldKey, Ends, Places, Existing
<1>4. QED
  BY <1>1, <1>2, <1>3

-----------------------------------------------------------------------------
\* From the rekeying of the first file to the end of the last restore.
LEMMA RekeyingKeeps ==
    ASSUME IndInv,
           AllRekeyed \/ \E f \in Files : RekeyFile(f) \/ RekeyFails(f)
    PROVE  IndInv'
<1> USE RekeyAssumption DEF IndInv
<1>1. CASE AllRekeyed
  <2>1. TypeOK' /\ KeyIsKnown' /\ KeyComesFirst' /\ FilesAreDone' /\ Recoverable'
    BY <1>1 DEF AllRekeyed, disk, TypeOK, KeyIsKnown, KeyComesFirst, FilesAreDone,
                Recoverable, UnderOldKey, Places, NewKey, Existing
  <2>2. BackupsAreKnown' /\ BackupsAreCopies'
    BY <1>1 DEF AllRekeyed, disk, BackupsAreKnown, BackupsAreCopies, UnderOldKey, Ends,
                Copy, OldKey, Existing
  <2>3. QED
    BY <2>1, <2>2
<1>2. ASSUME NEW f \in Files, RekeyFile(f) \/ RekeyFails(f)
      PROVE  IndInv'
  <2>1. /\ place = "rekey" /\ f \in todo /\ todo \subseteq Existing
        /\ \/ place' = "rekey" /\ todo' = todo \ {f} /\ fileKey' = [fileKey EXCEPT ![f] = NewKey]
           \/ place' = "restore" /\ todo' = Existing
        /\ fileKey' \in {fileKey, [fileKey EXCEPT ![f] = NewKey]}
        /\ UNCHANGED <<data, keyFile, backups, rekeys, known>>
    BY <1>2 DEF RekeyFile, RekeyFails, TypeOK
  <2>2. UnderOldKey /\ UnderOldKey' /\ \A g : Copy(g)' = Copy(g)
    BY <2>1 DEF UnderOldKey, Copy, OldKey
  <2>3. /\ fileKey \in [Files -> Keys \cup {Torn, None}] /\ NewKey \in Keys
        /\ NewKey' = NewKey
    BY <2>1 DEF TypeOK, NewKey, Keys
  <2>4. Existing' = Existing
    BY <2>1, <2>3, FilesStay DEF Existing
  <2>5. TypeOK' /\ KeyComesFirst'
    BY <2>1, <2>3, <2>4 DEF TypeOK, KeyComesFirst, Places
  <2>6. KeyIsKnown' /\ BackupsAreKnown' /\ BackupsAreCopies'
    BY <2>1, <2>2, <2>4 DEF KeyIsKnown, BackupsAreKnown, BackupsAreCopies, Ends
  <2>7. FilesAreDone'
    BY <2>1, <2>3, <2>4 DEF FilesAreDone, Existing
  <2>8. Recoverable'
    <3>1. \A g \in Existing : Copy(g) \in backups'
      BY <2>1 DEF BackupsAreCopies
    <3>2. QED
      BY <2>1, <2>2, <2>4, <3>1, CopyRecovers DEF Recoverable, Existing
  <2>9. QED
    BY <2>5, <2>6, <2>7, <2>8
<1>3. QED
  BY <1>1, <1>2

LEMMA RestoringKeeps ==
    ASSUME IndInv, Abort \/ \E f \in Files : Restore(f) \/ RestoreFails(f)
    PROVE  IndInv'
<1> USE RekeyAssumption DEF IndInv
<1>1. CASE Abort
  <2>1. TypeOK' /\ KeyIsKnown' /\ KeyComesFirst' /\ FilesAreDone' /\ Recoverable'
    BY <1>1 DEF Abort, Stop, disk, TypeOK, KeyIsKnown, KeyComesFirst, FilesAreDone,
                Recoverable, UnderOldKey, Places, Ends, Opens, Existing
  <2>2. BackupsAreKnown' /\ BackupsAreCopies'
    BY <1>1 DEF Abort, Stop, disk, BackupsAreKnown, BackupsAreCopies, UnderOldKey, Ends,
                Copy, OldKey, Existing
  <2>3. QED
    BY <2>1, <2>2
<1>2. ASSUME NEW f \in Files, Restore(f)
      PROVE  IndInv'
  <2>1. PICK b \in backups : /\ b.file = f /\ b.run = rekeys
                             /\ fileKey' = [fileKey EXCEPT ![f] = b.key]
                             /\ data' = [data EXCEPT ![f] = b.data]
    BY <1>2 DEF Restore
  <2>2. /\ place = "restore" /\ place' = "restore" /\ f \in todo /\ todo' = todo \ {f}
        /\ UNCHANGED <<keyFile, backups, rekeys, known>>
    BY <1>2 DEF Restore
  <2>3. UnderOldKey /\ UnderOldKey'
    BY <2>2 DEF UnderOldKey
  <2>4. b = Copy(f) /\ b.key = keyFile /\ b.data = data[f]
    BY <2>1, <2>3 DEF BackupsAreCopies, Copy, OldKey
  <2>5. data' = data
    BY <2>1, <2>4 DEF TypeOK
  <2>6. \A g : Copy(g)' = Copy(g)
    BY <2>2, <2>5 DEF Copy, OldKey
  <2>7. keyFile \in Keys /\ Readable(keyFile) /\ keyFile \in known /\ f \in Existing
    BY <2>2, <2>3 DEF TypeOK, KeyIsKnown, Readable
  <2>8. fileKey'[f] = keyFile /\ \A g \in Files \ {f} : fileKey'[g] = fileKey[g]
    BY <2>1, <2>4 DEF TypeOK
  <2>9. Existing' = Existing
    BY <2>7, <2>8 DEF Existing, Readable
  <2>10. TypeOK' /\ KeyComesFirst'
    BY <2>1, <2>2, <2>4, <2>5, <2>7, <2>9 DEF TypeOK, KeyComesFirst
  <2>11. KeyIsKnown' /\ BackupsAreKnown' /\ BackupsAreCopies'
    BY <2>2, <2>3, <2>6, <2>9 DEF KeyIsKnown, BackupsAreKnown, BackupsAreCopies
  <2>12. FilesAreDone' /\ Recoverable'
    BY <2>2, <2>5, <2>7, <2>8, <2>9 DEF FilesAreDone, Opens, Recoverable, Existing
  <2>13. QED
    BY <2>10, <2>11, <2>12
<1>3. ASSUME NEW f \in Files, RestoreFails(f)
      PROVE  IndInv'
  <2>1. /\ place = "restore" /\ place' = "failed" /\ f \in Existing /\ todo' = {}
        /\ fileKey' \in {fileKey, [fileKey EXCEPT ![f] = Torn]}
        /\ UNCHANGED <<data, keyFile, backups, rekeys, known>>
    BY <1>3 DEF RestoreFails, Stop, TypeOK
  <2>2. Existing' = Existing
    BY <2>1 DEF TypeOK, Existing, Torn, None
  <2>3. TypeOK' /\ KeyComesFirst'
    BY <2>1, <2>2 DEF TypeOK, KeyComesFirst, Places, Ends
  <2>4. KeyIsKnown' /\ BackupsAreKnown' /\ BackupsAreCopies' /\ FilesAreDone'
    BY <2>1 DEF KeyIsKnown, BackupsAreKnown, BackupsAreCopies, FilesAreDone, UnderOldKey, Ends
  <2>5. UnderOldKey /\ \A g \in Existing : Copy(g) \in backups
    BY <2>1 DEF UnderOldKey, BackupsAreCopies
  <2>6. Recoverable'
    BY <2>1, <2>2, <2>5, CopyRecovers DEF Recoverable, Existing
  <2>7. QED
    BY <2>3, <2>4, <2>6
<1>4. QED
  BY <1>1, <1>2, <1>3

-----------------------------------------------------------------------------
LEMMA PersistingKeeps ==
    ASSUME IndInv, Truncate \/ WriteKey \/ PersistFails
    PROVE  IndInv'
<1> USE RekeyAssumption DEF IndInv
<1>1. CASE Truncate
  <2>1. /\ place = "persist" /\ place' = "persisting" /\ keyFile' = Torn
        /\ UNCHANGED <<fileKey, data, backups, todo, rekeys, known>> /\ Existing' = Existing
    BY <1>1 DEF Truncate, Existing
  <2>2. TypeOK'
    BY <2>1 DEF TypeOK, Places
  <2>3. KeyIsKnown' /\ KeyComesFirst' /\ BackupsAreKnown' /\ BackupsAreCopies'
    BY <2>1 DEF KeyIsKnown, KeyComesFirst, BackupsAreKnown, BackupsAreCopies, UnderOldKey,
                Ends, Torn, None
  <2>4. FilesAreDone' /\ Recoverable'
    BY <2>1 DEF FilesAreDone, Recoverable, NewKey
  <2>5. QED
    BY <2>2, <2>3, <2>4
<1>2. CASE WriteKey \/ PersistFails
  <2>1. /\ place \in {"generating", "persist", "persisting"} /\ place' \in {"complete", "failed"}
        /\ todo' = {} /\ UNCHANGED <<fileKey, data, backups, rekeys>> /\ Existing' = Existing
    BY <1>2 DEF WriteKey, PersistFails, Stop, Existing
  <2>2. \/ UNCHANGED <<keyFile, known>>
        \/ \E k \in {FirstKey, NewKey} : keyFile' = k /\ known' = known \cup {k}
    BY <1>2 DEF WriteKey, PersistFails, KeyWritten
  <2>3. {FirstKey, NewKey} \subseteq Keys
    BY DEF TypeOK, FirstKey, NewKey, Keys
  <2>4. TypeOK'
    BY <2>1, <2>2, <2>3 DEF TypeOK, Places, Ends
  <2>5. KeyIsKnown' /\ BackupsAreKnown' /\ BackupsAreCopies' /\ FilesAreDone' /\ Recoverable'
    BY <2>1, <2>2 DEF KeyIsKnown, BackupsAreKnown, BackupsAreCopies, FilesAreDone,
                      Recoverable, UnderOldKey, Ends
  <2>6. KeyComesFirst'
    BY <2>1, <2>2, <2>3 DEF KeyComesFirst, Keys, None
  <2>7. QED
    BY <2>4, <2>5, <2>6
<1>3. QED
  BY <1>1, <1>2

LEMMA CrashKeeps == ASSUME IndInv, Crash PROVE IndInv'
<1> USE RekeyAssumption DEF IndInv
<1>1. /\ place' = "off" /\ todo' = {} /\ UNCHANGED <<data, keyFile, backups, rekeys, known>>
      /\ \/ fileKey' = fileKey
         \/ place = "restore" /\ \E f \in Existing : fileKey' = [fileKey EXCEPT ![f] = Torn]
  BY DEF Crash, Stop, TypeOK
<1>2. Existing' = Existing
  BY <1>1 DEF TypeOK, Existing, Torn, None
<1>3. TypeOK' /\ KeyComesFirst'
  BY <1>1, <1>2 DEF TypeOK, KeyComesFirst, Places, Ends, Existing
<1>4. KeyIsKnown' /\ BackupsAreKnown' /\ BackupsAreCopies' /\ FilesAreDone'
  BY <1>1 DEF KeyIsKnown, BackupsAreKnown, BackupsAreCopies, FilesAreDone, UnderOldKey, Ends
<1>5. Recoverable'
  <2>1. CASE fileKey' = fileKey
    BY <1>1, <1>2, <2>1 DEF Recoverable
  <2>2. CASE place = "restore"
    <3>1. UnderOldKey /\ \A g \in Existing : Copy(g) \in backups
      BY <2>2 DEF UnderOldKey, BackupsAreCopies
    <3>2. QED
      BY <1>1, <1>2, <3>1, CopyRecovers DEF Recoverable, Existing
  <2>3. QED
    BY <1>1, <2>1, <2>2
<1>6. QED
  BY <1>3, <1>4, <1>5

-----------------------------------------------------------------------------
LEMMA StutterKeeps == ASSUME IndInv, UNCHANGED vars PROVE IndInv'
  BY DEF IndInv, vars, disk, TypeOK, KeyIsKnown, KeyComesFirst, BackupsAreKnown,
         BackupsAreCopies, FilesAreDone, Recoverable, UnderOldKey, Copy, OldKey, NewKey, Opens,
         Existing

LEMMA IndInvIsInvariant == Spec => []IndInv
<1>1. IndInv /\ [Next]_vars => IndInv'
  BY FirstRunKeeps, OutsideKeeps, BackingUpKeeps, RekeyingKeeps, RestoringKeeps, PersistingKeeps,
     CrashKeeps, StutterKeeps
  DEF Next
<1>2. QED
  BY InitIsGood, <1>1, PTL DEF Spec

\* Every variable keeps its type, and no rekey backs a file up twice.
THEOREM TypeCorrect == Spec => []TypeOK
<1>1. IndInv => TypeOK
  BY DEF IndInv
<1>2. QED
  BY IndInvIsInvariant, <1>1, PTL

\* Whatever fails or is killed during any number of rekeys, the contents of each
\* file are in the file or in a backup under a key the key file once held.
THEOREM NothingIsLost == Spec => []Recoverable
<1>1. IndInv => Recoverable
  BY DEF IndInv
<1>2. QED
  BY IndInvIsInvariant, <1>1, PTL

\* A rekey that reports that it restored the databases did.
THEOREM AbortsRestore == Spec => []AbortRestores
<1>1. IndInv => AbortRestores
  BY DEF IndInv, AbortRestores, FilesAreDone, BackupsAreCopies
<1>2. QED
  BY IndInvIsInvariant, <1>1, PTL

\* The key file changes only to a key that opens every file.
THEOREM KeyComesLast == Spec => KeyFollowsFiles
<1>1. IndInv /\ [Next]_vars =>
          [keyFile' \notin {keyFile, Torn} => \A f \in Existing : fileKey'[f] = keyFile']_vars
  <2> SUFFICES ASSUME IndInv, Next, keyFile' \notin {keyFile, Torn}
               PROVE  \A f \in Existing : fileKey'[f] = keyFile'
    BY DEF vars, disk
  <2>1. /\ \/ place = "generating"
           \/ place = "persisting" /\ keyFile' = NewKey
        /\ fileKey' = fileKey
    BY DEF Next, Generate, WriteFirstKey, Create, Start, AllBackedUp, AllRekeyed, Abort,
           Truncate, WriteKey, PersistFails, KeyWritten, Crash, Write, BackUp, BackUpFails,
           RekeyFile, RekeyFails, Restore, RestoreFails, disk
  <2>2. QED
    BY <2>1 DEF IndInv, FilesAreDone, KeyComesFirst
<1>2. QED
  BY IndInvIsInvariant, <1>1, PTL DEF Spec, KeyFollowsFiles
=============================================================================
