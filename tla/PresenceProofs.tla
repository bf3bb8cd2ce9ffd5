--------------------------- MODULE PresenceProofs ---------------------------
(***************************************************************************)
(* Theorems about module Presence, for every instance: any number of       *)
(* connections and clients, and receivers that may lag.                    *)
(***************************************************************************)
EXTENDS Presence, FiniteSetTheorems, TLAPS

-----------------------------------------------------------------------------
(***************************************************************************)
(* What the stream of a connection will have said of a client when it has  *)
(* been read to its end: the last announcement that is not read yet, or    *)
(* else what the connection takes the client to be already.                *)
(***************************************************************************)
Listening(k) == place[k] \in {"subscribed", "joining", "streaming"}

Word(c, i) == events[i].client = c /\ events[i].kind # "message"

LastWord(c, i) == Word(c, i) /\ \A j \in (i + 1) .. Len(events) : ~Word(c, j)

Unread(k) == (pos[k] + 1) .. Len(events)

TellsTruth(k, c) ==
    /\ \A i \in Unread(k) : LastWord(c, i) => (events[i].kind = "join") = (c \in Present)
    /\ (\A i \in Unread(k) : ~Word(c, i)) => (c \in view[k]) = (c \in Present)

Placed == \A k \in Conns : Listening(k) => pos[k] <= Len(events)

Undecided(c) == Announcing(c, "joining") # {} \/ Announcing(c, "leaving") # {}

\* A leave that no join has overtaken, and that none is about to follow, is true.
LeavesAreTrue ==
    \A c \in Clients :
        Announcing(c, "leaving") # {} =>
            c \in overtaken \/ Announcing(c, "joining") # {} \/ count[c] = 0

Told ==
    \A k \in Conns, c \in Clients :
        \/ ~Listening(k) \/ k \in missed \/ c = ClientOf[k] \/ c \in overtaken \/ Undecided(c)
        \/ TellsTruth(k, c)

IndInv == TypeOK /\ RosterIsLive /\ Placed /\ LeavesAreTrue /\ Told

-----------------------------------------------------------------------------
(***************************************************************************)
(* Counts.                                                                 *)
(***************************************************************************)
LEMMA RegisteredIsFinite ==
    \A c : IsFiniteSet(Registered(c)) /\ Cardinality(Registered(c)) \in Nat
<1>1. \A c : Registered(c) \in SUBSET Conns
  BY DEF Registered
<1>2. QED
  BY <1>1, PresenceAssumption, FS_Subset, FS_CardinalityType

\* What registers and withdraws changes the counted set by that connection.
LEMMA OneMore ==
    ASSUME NEW k \in Conns, NEW where \in {"joining", "streaming"},
           place \in [Conns -> Places], place[k] = "subscribed", Goto(k, where)
    PROVE  \A c : Registered(c)' = IF c = ClientOf[k] THEN Registered(c) \cup {k} ELSE Registered(c)
BY PresenceAssumption DEF Goto, Registered

LEMMA OneLess ==
    ASSUME NEW k \in Conns, NEW where \in {"leaving", "off"},
           place \in [Conns -> Places], place[k] = "streaming", Goto(k, where)
    PROVE  \A c : Registered(c)' = IF c = ClientOf[k] THEN Registered(c) \ {k} ELSE Registered(c)
BY PresenceAssumption DEF Goto, Registered

LEMMA SameRegistered ==
    ASSUME NEW k \in Conns, NEW where \in Places, place \in [Conns -> Places],
           place[k] \in {"joining", "streaming"} <=> where \in {"joining", "streaming"},
           Goto(k, where)
    PROVE  \A c : Registered(c)' = Registered(c)
BY DEF Goto, Registered

\* The counts after a step.
Live == TypeOK /\ RosterIsLive

LEMMA RegisterKeepsCount ==
    ASSUME Live, NEW k \in Conns, Register(k)
    PROVE  RosterIsLive'
<1>1. PICK where \in {"joining", "streaming"} : Goto(k, where)
  BY DEF Register
<1>2. \A c : Registered(c)' = IF c = ClientOf[k] THEN Registered(c) \cup {k} ELSE Registered(c)
  BY <1>1, OneMore DEF Live, TypeOK, Register
<1>3. k \notin Registered(ClientOf[k])
  BY DEF Register, Registered
<1>4. Cardinality(Registered(ClientOf[k]) \cup {k}) = Cardinality(Registered(ClientOf[k])) + 1
  BY <1>3, RegisteredIsFinite, FS_AddElement
<1>5. \A c \in Clients : count'[c] = IF c = ClientOf[k] THEN count[c] + 1 ELSE count[c]
  BY PresenceAssumption DEF Live, TypeOK, Register
<1>6. QED
  BY <1>2, <1>4, <1>5 DEF Live, RosterIsLive

LEMMA DeregisterKeepsCount ==
    ASSUME Live, NEW k \in Conns, Deregister(k)
    PROVE  RosterIsLive' /\ count[ClientOf[k]] > 0
<1>1. PICK where \in {"leaving", "off"} : Goto(k, where)
  BY DEF Deregister
<1>2. \A c : Registered(c)' = IF c = ClientOf[k] THEN Registered(c) \ {k} ELSE Registered(c)
  BY <1>1, OneLess DEF Live, TypeOK, Deregister
<1>3. k \in Registered(ClientOf[k])
  BY DEF Deregister, Registered
<1>4. Cardinality(Registered(ClientOf[k]) \ {k}) = Cardinality(Registered(ClientOf[k])) - 1
  BY <1>3, RegisteredIsFinite, FS_RemoveElement
<1>5. \A c \in Clients : count'[c] = IF c = ClientOf[k] THEN count[c] - 1 ELSE count[c]
  BY PresenceAssumption DEF Live, TypeOK, Deregister
<1>6. Cardinality(Registered(ClientOf[k])) # 0
  BY <1>3, RegisteredIsFinite, FS_EmptySet
<1>7. count[ClientOf[k]] > 0
  BY <1>6, RegisteredIsFinite, PresenceAssumption DEF Live, RosterIsLive
<1>8. QED
  BY <1>2, <1>4, <1>5, <1>7 DEF Live, RosterIsLive

LEMMA LiveKept ==
    ASSUME Live, [Next]_vars
    PROVE  Live'
<1> USE PresenceAssumption
<1> SUFFICES ASSUME Next PROVE Live'
  BY DEF Live, TypeOK, RosterIsLive, Registered, vars, ghosts
<1>1. ASSUME NEW c \in Clients, Publish(c) PROVE Live'
  BY <1>1 DEF Live, TypeOK, RosterIsLive, Registered, Publish, Announce, Event, ghosts
<1>2. ASSUME NEW k \in Conns, Subscribe(k) PROVE Live'
  <2>1. TypeOK'
    BY <1>2 DEF Live, TypeOK, Subscribe, Goto, Places, Present
  <2>2. \A c : Registered(c)' = Registered(c)
    BY <1>2, SameRegistered DEF Live, TypeOK, Subscribe, Places
  <2>3. QED
    BY <1>2, <2>1, <2>2 DEF Live, RosterIsLive, Subscribe
<1>3. ASSUME NEW k \in Conns, Register(k) PROVE Live'
  <2>1. TypeOK'
    BY <1>3 DEF Live, TypeOK, Register, Goto, Places, ghosts
  <2>2. QED
    BY <1>3, <2>1, RegisterKeepsCount DEF Live
<1>4. ASSUME NEW k \in Conns, SendJoin(k) PROVE Live'
  <2>1. TypeOK'
    BY <1>4 DEF Live, TypeOK, SendJoin, Goto, Announce, Event, Places
  <2>2. \A c : Registered(c)' = Registered(c)
    BY <1>4, SameRegistered DEF Live, TypeOK, SendJoin, Places
  <2>3. QED
    BY <1>4, <2>1, <2>2 DEF Live, RosterIsLive, SendJoin
<1>5. ASSUME NEW k \in Conns, Deregister(k) PROVE Live'
  <2>1. count[ClientOf[k]] > 0
    BY <1>5, DeregisterKeepsCount
  <2>2. count' \in [Clients -> Nat]
    BY <1>5, <2>1 DEF Live, TypeOK, Deregister
  <2>3. TypeOK'
    BY <1>5, <2>2 DEF Live, TypeOK, Deregister, Goto, Places, ghosts
  <2>4. QED
    BY <1>5, <2>3, DeregisterKeepsCount DEF Live
<1>6. ASSUME NEW k \in Conns, SendLeave(k) PROVE Live'
  <2>1. TypeOK'
    BY <1>6 DEF Live, TypeOK, SendLeave, Goto, Announce, Event, Places, ghosts
  <2>2. \A c : Registered(c)' = Registered(c)
    BY <1>6, SameRegistered DEF Live, TypeOK, SendLeave, Places
  <2>3. QED
    BY <1>6, <2>1, <2>2 DEF Live, RosterIsLive, SendLeave
<1>7. ASSUME NEW k \in Conns, Receive(k) PROVE Live'
  <2>1. events[pos[k] + 1] \in Event
    BY <1>7 DEF Live, TypeOK, Receive
  <2>2. Seen(k, events[pos[k] + 1]) \in SUBSET Clients
    BY <2>1 DEF Live, TypeOK, Event, Seen
  <2>3. TypeOK'
    BY <1>7, <2>2 DEF Live, TypeOK, Receive
  <2>4. QED
    BY <1>7, <2>3 DEF Live, RosterIsLive, Registered, Receive
<1>8. ASSUME NEW k \in Conns, Miss(k) PROVE Live'
  BY <1>8 DEF Live, TypeOK, RosterIsLive, Registered, Miss
<1>9. QED
  BY <1>1, <1>2, <1>3, <1>4, <1>5, <1>6, <1>7, <1>8 DEF Next

LEMMA InitLive == Init => Live
<1> SUFFICES ASSUME Init PROVE Live
  OBVIOUS
<1>1. <<>> \in Seq(Event)
  OBVIOUS
<1>2. TypeOK
  BY <1>1 DEF Init, TypeOK, Places
<1>3. \A c : Registered(c) = {}
  BY DEF Init, Registered
<1>4. QED
  BY <1>2, <1>3, FS_EmptySet DEF Init, Live, RosterIsLive

\* Every variable of the presence roster keeps its type; in particular a count,
\* a u32 of the map, never goes below zero (PresenceGuard's drop, pubsub.rs).
THEOREM RosterTypeCorrect == Spec => []TypeOK
<1>1. Live => TypeOK
  BY DEF Live
<1>2. QED
  BY <1>1, InitLive, LiveKept, PTL DEF Spec

\* A client is in the roster exactly while a connection of it is registered, for
\* any number of connections that come and go in any order.
THEOREM RosterIsExact == Spec => []RosterIsLive
<1>1. Live => RosterIsLive
  BY DEF Live
<1>2. QED
  BY <1>1, InitLive, LiveKept, PTL DEF Spec

-----------------------------------------------------------------------------
(***************************************************************************)
(* Announcements.                                                          *)
(***************************************************************************)
\* What a connection will be told does not change when nothing is said ...
LEMMA NothingSaid ==
    ASSUME NEW x \in Conns, NEW c \in Clients, TellsTruth(x, c),
           events' = events, pos'[x] = pos[x], view'[x] = view[x],
           (c \in Present)' = (c \in Present)
    PROVE  TellsTruth(x, c)'
BY DEF TellsTruth, LastWord, Word, Unread

\* ... or something about another client, or a message.
LEMMA OtherSaid ==
    ASSUME NEW x \in Conns, NEW c \in Clients, TellsTruth(x, c), TypeOK, pos[x] <= Len(events),
           NEW d \in Clients, NEW kind \in {"join", "leave", "message"},
           Announce(d, kind), d # c \/ kind = "message", pos'[x] = pos[x], view'[x] = view[x],
           (c \in Present)' = (c \in Present)
    PROVE  TellsTruth(x, c)'
<1>0. PICK n \in Nat : n = Len(events)
  BY DEF TypeOK
<1>1. n \in Nat /\ pos[x] \in Nat
  BY <1>0 DEF TypeOK
<1>2. Len(events') = n + 1 /\ (\A i \in 1 .. n : events'[i] = events[i])
      /\ events'[n + 1] = [client |-> d, kind |-> kind]
  BY <1>0 DEF TypeOK, Announce
<1>3. ~Word(c, n + 1)'
  BY <1>2 DEF Word
<1>4. \A i \in 1 .. n : Word(c, i)' = Word(c, i)
  BY <1>2 DEF Word
<1>5. \A i : i \in Unread(x)' <=> i \in Unread(x) \/ i = n + 1
  BY <1>0, <1>1, <1>2 DEF Unread
<1>6. \A i \in Unread(x) : i \in 1 .. n
  BY <1>0, <1>1 DEF Unread
<1>7. \A i \in 1 .. n : LastWord(c, i)' => LastWord(c, i)
  <2> SUFFICES ASSUME NEW i \in 1 .. n, LastWord(c, i)' PROVE LastWord(c, i)
    OBVIOUS
  <2>1. \A j \in (i + 1) .. n : j \in 1 .. n /\ j \in (i + 1) .. (n + 1)
    BY <1>1
  <2>2. \A j \in (i + 1) .. n : ~Word(c, j)
    BY <2>1, <1>2, <1>4 DEF LastWord
  <2>3. QED
    BY <1>0, <2>2, <1>4 DEF LastWord
<1>8. ~LastWord(c, n + 1)'
  BY <1>3 DEF LastWord
<1>9. \A i \in 1 .. n : events'[i].kind = events[i].kind
  BY <1>2
<1>10. QED
  BY <1>3, <1>4, <1>5, <1>6, <1>7, <1>8, <1>9 DEF TellsTruth

\* Who has not read it yet is told the last announcement.
LEMMA JustSaid ==
    ASSUME NEW x \in Conns, NEW c \in Clients, TypeOK, pos[x] <= Len(events),
           NEW kind \in {"join", "leave"}, Announce(c, kind), pos'[x] = pos[x],
           (kind = "join") = (c \in Present)'
    PROVE  TellsTruth(x, c)'
<1>0. PICK n \in Nat : n = Len(events)
  BY DEF TypeOK
<1>1. n \in Nat /\ pos[x] \in Nat
  BY <1>0 DEF TypeOK
<1>2. Len(events') = n + 1 /\ events'[n + 1] = [client |-> c, kind |-> kind]
  BY <1>0 DEF TypeOK, Announce
<1>3. Word(c, n + 1)'
  BY <1>2 DEF Word
<1>4. n + 1 \in Unread(x)'
  BY <1>0, <1>1, <1>2 DEF Unread
<1>5. \A i \in Unread(x)' : i # n + 1 => n + 1 \in (i + 1) .. Len(events')
  BY <1>0, <1>1, <1>2 DEF Unread
<1>6. \A i \in Unread(x)' : LastWord(c, i)' => i = n + 1
  BY <1>3, <1>5 DEF LastWord
<1>7. QED
  BY <1>2, <1>3, <1>4, <1>6 DEF TellsTruth

\* Reading an announcement does not change what will have been told in the end.
LEMMA ReadOne ==
    ASSUME NEW k \in Conns, NEW c \in Clients, TypeOK, Receive(k), c # ClientOf[k], TellsTruth(k, c)
    PROVE  TellsTruth(k, c)'
<1> DEFINE n == Len(events)
           m == pos[k] + 1
<1>1. n \in Nat /\ pos[k] \in Nat /\ m \in 1 .. n
  BY DEF TypeOK, Receive
<1>2. events[m] \in Event
  BY <1>1 DEF TypeOK
<1>3. events' = events /\ pos'[k] = m /\ view'[k] = Seen(k, events[m])
  BY DEF Receive, TypeOK
<1>4. Present' = Present
  BY DEF Receive, Present
<1>5. \A i : i \in Unread(k) <=> i = m \/ i \in Unread(k)'
  BY <1>1, <1>3 DEF Unread
<1>6. \A i : Word(c, i)' = Word(c, i) /\ LastWord(c, i)' = LastWord(c, i)
  BY <1>3 DEF Word, LastWord
<1>7. Unread(k)' = (m + 1) .. Len(events)
  BY <1>3 DEF Unread
<1>8. CASE Word(c, m)
  <2>1. (c \in view'[k]) = (events[m].kind = "join")
    BY <1>2, <1>3, <1>8 DEF Seen, Word, Event
  <2>2. (\A i \in Unread(k)' : ~Word(c, i)) => LastWord(c, m)
    BY <1>7, <1>8 DEF LastWord
  <2>3. (\A i \in Unread(k)' : ~Word(c, i)) => (events[m].kind = "join") = (c \in Present)
    BY <1>5, <2>2 DEF TellsTruth
  <2>4. QED
    BY <1>3, <1>4, <1>5, <1>6, <2>1, <2>3 DEF TellsTruth
<1>9. CASE ~Word(c, m)
  <2>1. (c \in view'[k]) = (c \in view[k])
    BY <1>2, <1>3, <1>9 DEF Seen, Word, Event
  <2>2. QED
    BY <1>3, <1>4, <1>5, <1>6, <1>9, <2>1 DEF TellsTruth
<1>10. QED
  BY <1>8, <1>9

-----------------------------------------------------------------------------
(***************************************************************************)
(* The roster the streams tell of.                                         *)
(***************************************************************************)

\* No receiver is ahead of what was broadcast.
LEMMA PlacedKept ==
    ASSUME IndInv, [Next]_vars
    PROVE  Placed'
<1> USE PresenceAssumption
<1> SUFFICES ASSUME Next PROVE Placed'
  BY DEF IndInv, Placed, Listening, vars
<1>1. Len(events) \in Nat /\ \A x \in Conns : pos[x] \in Nat
  BY DEF IndInv, TypeOK
<1>2. \A c \in Clients, w \in {"join", "leave", "message"} :
         Announce(c, w) => Len(events') = Len(events) + 1
  BY DEF IndInv, TypeOK, Announce, Event
<1>3. ASSUME NEW c \in Clients, Publish(c) PROVE Placed'
  BY <1>1, <1>2, <1>3 DEF IndInv, TypeOK, Placed, Listening, Publish
<1>4. ASSUME NEW k \in Conns, Subscribe(k) PROVE Placed'
  BY <1>1, <1>4 DEF IndInv, TypeOK, Placed, Listening, Subscribe, Goto
<1>5. ASSUME NEW k \in Conns, Register(k) PROVE Placed'
  BY <1>1, <1>5 DEF IndInv, TypeOK, Placed, Listening, Register, Goto
<1>6. ASSUME NEW k \in Conns, SendJoin(k) PROVE Placed'
  BY <1>1, <1>2, <1>6 DEF IndInv, TypeOK, Placed, Listening, SendJoin, Goto
<1>7. ASSUME NEW k \in Conns, Deregister(k) PROVE Placed'
  BY <1>1, <1>7 DEF IndInv, TypeOK, Placed, Listening, Deregister, Goto
<1>8. ASSUME NEW k \in Conns, SendLeave(k) PROVE Placed'
  BY <1>1, <1>2, <1>8 DEF IndInv, TypeOK, Placed, Listening, SendLeave, Goto
<1>9. ASSUME NEW k \in Conns, Receive(k) PROVE Placed'
  BY <1>1, <1>9 DEF IndInv, TypeOK, Placed, Listening, Receive
<1>10. ASSUME NEW k \in Conns, Miss(k) PROVE Placed'
  BY <1>1, <1>10 DEF IndInv, TypeOK, Placed, Listening, Miss
<1>11. QED
  BY <1>3, <1>4, <1>5, <1>6, <1>7, <1>8, <1>9, <1>10 DEF Next

\* A leave waits only for an absent client, or for one whose join is to follow.
LEMMA LeavesKept ==
    ASSUME IndInv, [Next]_vars
    PROVE  LeavesAreTrue'
<1> USE PresenceAssumption
<1>0. place \in [Conns -> Places] /\ count \in [Clients -> Nat]
  BY DEF IndInv, TypeOK
<1> SUFFICES ASSUME Next PROVE LeavesAreTrue'
  BY DEF IndInv, LeavesAreTrue, Announcing, vars, ghosts
<1>1. ASSUME place' = place, count' = count, overtaken' = overtaken PROVE LeavesAreTrue'
  BY <1>1 DEF IndInv, LeavesAreTrue, Announcing
<1>2. ASSUME NEW k \in Conns, Subscribe(k) PROVE LeavesAreTrue'
  <2>1. \A c, w : w \in {"joining", "leaving"} => Announcing(c, w)' = Announcing(c, w)
    BY <1>0, <1>2 DEF Subscribe, Goto, Announcing
  <2>2. QED
    BY <1>2, <2>1 DEF IndInv, LeavesAreTrue, Subscribe
<1>3. ASSUME NEW k \in Conns, Register(k) PROVE LeavesAreTrue'
  <2>1. \A c, w : w \in {"joining", "leaving"} => Announcing(c, w) \subseteq Announcing(c, w)'
    BY <1>3 DEF Register, Goto, Announcing
  <2>2. \A c : Announcing(c, "leaving")' = Announcing(c, "leaving")
    BY <1>0, <1>3 DEF Register, Goto, Announcing
  <2>3. count[ClientOf[k]] = 0 => k \in Announcing(ClientOf[k], "joining")'
    BY <1>0, <1>3 DEF Register, Goto, Announcing
  <2>4. \A c \in Clients : c # ClientOf[k] => count'[c] = count[c]
    BY <1>0, <1>3 DEF Register
  <2>5. overtaken' = overtaken
    BY <1>3 DEF Register, ghosts
  <2>6. QED
    BY <2>1, <2>2, <2>3, <2>4, <2>5 DEF IndInv, LeavesAreTrue
<1>4. ASSUME NEW k \in Conns, SendJoin(k) PROVE LeavesAreTrue'
  <2>1. \A c : Announcing(c, "leaving")' = Announcing(c, "leaving")
    BY <1>0, <1>4 DEF SendJoin, Goto, Announcing
  <2>2. \A c : c # ClientOf[k] => Announcing(c, "joining")' = Announcing(c, "joining")
    BY <1>0, <1>4 DEF SendJoin, Goto, Announcing
  <2>3. /\ Announcing(ClientOf[k], "leaving") # {} => ClientOf[k] \in overtaken'
        /\ \A c : c # ClientOf[k] => (c \in overtaken' <=> c \in overtaken)
    BY <1>4 DEF SendJoin
  <2>4. QED
    BY <1>4, <2>1, <2>2, <2>3 DEF IndInv, LeavesAreTrue, SendJoin
<1>5. ASSUME NEW k \in Conns, Deregister(k) PROVE LeavesAreTrue'
  <2>1. \A c : Announcing(c, "joining")' = Announcing(c, "joining")
    BY <1>0, <1>5 DEF Deregister, Goto, Announcing
  <2>2. \A c : c # ClientOf[k] \/ count[c] # 1 => Announcing(c, "leaving")' = Announcing(c, "leaving")
    BY <1>0, <1>5 DEF Deregister, Goto, Announcing
  <2>3. count[ClientOf[k]] > 0
    BY <1>5, DeregisterKeepsCount DEF IndInv, Live
  <2>4. \A c \in Clients : count'[c] = IF c = ClientOf[k] THEN count[c] - 1 ELSE count[c]
    BY <1>0, <1>5 DEF Deregister
  <2>5. \A c \in Clients : count[c] = 1 /\ c = ClientOf[k] => count'[c] = 0
    BY <2>4
  <2>6. overtaken' = overtaken
    BY <1>5 DEF Deregister, ghosts
  <2>7. count[ClientOf[k]] # 0
    BY <2>3
  <2>8. QED
    BY <2>1, <2>2, <2>4, <2>5, <2>6, <2>7 DEF IndInv, LeavesAreTrue
<1>6. ASSUME NEW k \in Conns, SendLeave(k) PROVE LeavesAreTrue'
  <2>1. \A c : Announcing(c, "joining")' = Announcing(c, "joining")
               /\ Announcing(c, "leaving")' \subseteq Announcing(c, "leaving")
    BY <1>0, <1>6 DEF SendLeave, Goto, Announcing
  <2>2. QED
    BY <1>6, <2>1 DEF IndInv, LeavesAreTrue, SendLeave, ghosts
<1>7. QED
  BY <1>1, <1>2, <1>3, <1>4, <1>5, <1>6 DEF Next, Publish, Receive, Miss, ghosts

\* What is owed to a connection about another client.
Owed(k, c) ==
    \/ ~Listening(k) \/ k \in missed \/ c = ClientOf[k] \/ c \in overtaken \/ Undecided(c)
    \/ TellsTruth(k, c)

LEMMA ToldKept ==
    ASSUME IndInv, [Next]_vars
    PROVE  Told'
<1> USE PresenceAssumption
<1>0. /\ TypeOK /\ Live /\ Live' /\ place \in [Conns -> Places] /\ count \in [Clients -> Nat]
      /\ pos \in [Conns -> Nat] /\ view \in [Conns -> SUBSET Clients]
  BY LiveKept DEF IndInv, Live, TypeOK
<1>a. SUFFICES ASSUME NEW x \in Conns, NEW c \in Clients PROVE Owed(x, c)'
  BY DEF Told, Owed
<1>b. Owed(x, c)
  BY DEF IndInv, Told, Owed
<1>c. Listening(x) => pos[x] <= Len(events)
  BY DEF IndInv, Placed
<1>d. c # ClientOf[x] \/ Owed(x, c)'
  BY DEF Owed
<1>1. CASE UNCHANGED vars
  BY <1>b, <1>1, NothingSaid DEF Owed, Listening, Undecided, Announcing, Present, vars, ghosts
<1>2. ASSUME NEW d \in Clients, Publish(d) PROVE Owed(x, c)'
  <2>1. Listening(x)' = Listening(x) /\ Undecided(c)' = Undecided(c) /\ (c \in Present)' = (c \in Present)
        /\ missed' = missed /\ overtaken' = overtaken
    BY <1>2 DEF Publish, Listening, Undecided, Announcing, Present, ghosts
  <2>2. TellsTruth(x, c) /\ Listening(x) => TellsTruth(x, c)'
    BY <1>0, <1>c, <1>2, <2>1, OtherSaid DEF Publish, ghosts
  <2>3. QED
    BY <1>b, <2>1, <2>2 DEF Owed
<1>3. ASSUME NEW k \in Conns, Subscribe(k) PROVE Owed(x, c)'
  <2>1. (c \in Present)' = (c \in Present) /\ overtaken' = overtaken /\ events' = events
    BY <1>3 DEF Subscribe, Present
  <2>2. Undecided(c)' = Undecided(c)
    BY <1>0, <1>3 DEF Subscribe, Goto, Undecided, Announcing
  <2>3. CASE x = k
    <3>1. pos'[x] = Len(events) /\ view'[x] = Present
      BY <1>0, <1>3, <2>3 DEF Subscribe
    <3>2. Unread(x)' = {}
      BY <1>0, <2>1, <3>1 DEF Unread, TypeOK
    <3>3. QED
      BY <2>1, <3>1, <3>2 DEF TellsTruth, Owed
  <2>4. CASE x # k
    <3>1. pos'[x] = pos[x] /\ view'[x] = view[x] /\ Listening(x)' = Listening(x)
          /\ (x \in missed' <=> x \in missed)
      BY <1>0, <1>3, <2>4 DEF Subscribe, Goto, Listening
    <3>2. QED
      BY <1>b, <2>1, <2>2, <3>1, NothingSaid DEF Owed
  <2>5. QED
    BY <2>3, <2>4
<1>4. ASSUME NEW k \in Conns, Register(k) PROVE Owed(x, c)'
  <2>1. /\ events' = events /\ pos' = pos /\ view' = view /\ missed' = missed /\ overtaken' = overtaken
    BY <1>4 DEF Register, ghosts
  <2>2. Listening(x)' = Listening(x)
    BY <1>0, <1>4 DEF Register, Goto, Listening
  <2>3. CASE c = ClientOf[k] /\ count[c] = 0
    <3>1. k \in Announcing(c, "joining")'
      BY <1>0, <1>4, <2>3 DEF Register, Goto, Announcing
    <3>2. QED
      BY <3>1 DEF Owed, Undecided
  <2>4. CASE c # ClientOf[k] \/ count[c] # 0
    <3>1. Undecided(c)' = Undecided(c)
      BY <1>0, <1>4, <2>4 DEF Register, Goto, Undecided, Announcing
    <3>2. count'[c] = IF c = ClientOf[k] THEN count[c] + 1 ELSE count[c]
      BY <1>0, <1>4 DEF Register
    <3>3. (c \in Present)' = (c \in Present)
      BY <1>0, <2>4, <3>2 DEF Present
    <3>4. QED
      BY <1>b, <2>1, <2>2, <3>1, <3>3, NothingSaid DEF Owed
  <2>5. QED
    BY <2>3, <2>4
<1>5. ASSUME NEW k \in Conns, SendJoin(k) PROVE Owed(x, c)'
  <2>1. /\ pos' = pos /\ view' = view /\ missed' = missed /\ count' = count
        /\ Announce(ClientOf[k], "join") /\ place[k] = "joining"
    BY <1>5 DEF SendJoin
  <2>2. Listening(x)' = Listening(x)
    BY <1>0, <1>5 DEF SendJoin, Goto, Listening
  <2>3. (c \in Present)' = (c \in Present)
    BY <2>1 DEF Present
  <2>4. CASE c = ClientOf[k]
    <3>1. k \in Registered(c)
      BY <2>1, <2>4 DEF Registered
    <3>2. Cardinality(Registered(c)) # 0 /\ Cardinality(Registered(c)) \in Nat
      BY <3>1, RegisteredIsFinite, FS_EmptySet
    <3>3. c \in Present'
      BY <1>0, <2>1, <3>2 DEF Live, RosterIsLive, Present
    <3>4. Listening(x) => TellsTruth(x, c)'
      BY <1>0, <1>c, <2>1, <2>4, <3>3, JustSaid
    <3>5. QED
      BY <2>2, <3>4 DEF Owed
  <2>5. CASE c # ClientOf[k]
    <3>1. Undecided(c)' = Undecided(c)
      BY <1>0, <1>5, <2>5 DEF SendJoin, Goto, Undecided, Announcing
    <3>2. c \in overtaken' <=> c \in overtaken
      BY <1>5, <2>5 DEF SendJoin
    <3>3. TellsTruth(x, c) /\ Listening(x) => TellsTruth(x, c)'
      BY <1>0, <1>c, <2>1, <2>3, <2>5, OtherSaid
    <3>4. QED
      BY <1>b, <2>1, <2>2, <3>1, <3>2, <3>3 DEF Owed
  <2>6. QED
    BY <2>4, <2>5
<1>6. ASSUME NEW k \in Conns, Deregister(k) PROVE Owed(x, c)'
  <2>1. /\ events' = events /\ pos' = pos /\ view' = view /\ missed' = missed /\ overtaken' = overtaken
    BY <1>6 DEF Deregister, ghosts
  <2>2. Listening(x)' => Listening(x)
    BY <1>0, <1>6 DEF Deregister, Goto, Listening
  <2>3. CASE c = ClientOf[k] /\ count[c] = 1
    <3>1. k \in Announcing(c, "leaving")'
      BY <1>0, <1>6, <2>3 DEF Deregister, Goto, Announcing
    <3>2. QED
      BY <3>1 DEF Owed, Undecided
  <2>4. CASE c # ClientOf[k] \/ count[c] # 1
    <3>1. Undecided(c)' = Undecided(c)
      BY <1>0, <1>6, <2>4 DEF Deregister, Goto, Undecided, Announcing
    <3>2. count'[c] = IF c = ClientOf[k] THEN count[c] - 1 ELSE count[c]
      BY <1>0, <1>6 DEF Deregister
    <3>3. count[ClientOf[k]] > 0
      BY <1>0, <1>6, DeregisterKeepsCount
    <3>4. (c \in Present)' = (c \in Present)
      BY <1>0, <2>4, <3>2, <3>3 DEF Present
    <3>5. QED
      BY <1>b, <2>1, <2>2, <3>1, <3>4, NothingSaid DEF Owed
  <2>5. QED
    BY <2>3, <2>4
<1>7. ASSUME NEW k \in Conns, SendLeave(k) PROVE Owed(x, c)'
  <2>1. /\ pos' = pos /\ view' = view /\ missed' = missed /\ overtaken' = overtaken /\ count' = count
        /\ Announce(ClientOf[k], "leave") /\ place[k] = "leaving"
    BY <1>7 DEF SendLeave, ghosts
  <2>2. Listening(x)' = Listening(x)
    BY <1>0, <1>7 DEF SendLeave, Goto, Listening
  <2>3. (c \in Present)' = (c \in Present)
    BY <2>1 DEF Present
  <2>4. CASE c = ClientOf[k]
    <3>1. k \in Announcing(c, "leaving")
      BY <2>1, <2>4 DEF Announcing
    <3>2. c \in overtaken \/ Announcing(c, "joining") # {} \/ count[c] = 0
      BY <3>1 DEF IndInv, LeavesAreTrue
    <3>3. Announcing(c, "joining")' = Announcing(c, "joining")
      BY <1>0, <1>7 DEF SendLeave, Goto, Announcing
    <3>4. count[c] = 0 => c \notin Present'
      BY <2>1 DEF Present
    <3>5. Listening(x) /\ count[c] = 0 => TellsTruth(x, c)'
      BY <1>0, <1>c, <2>1, <2>4, <3>4, JustSaid
    <3>6. QED
      BY <2>1, <2>2, <3>2, <3>3, <3>5 DEF Owed, Undecided
  <2>5. CASE c # ClientOf[k]
    <3>1. Undecided(c)' = Undecided(c)
      BY <1>0, <1>7, <2>5 DEF SendLeave, Goto, Undecided, Announcing
    <3>2. TellsTruth(x, c) /\ Listening(x) => TellsTruth(x, c)'
      BY <1>0, <1>c, <2>1, <2>3, <2>5, OtherSaid
    <3>3. QED
      BY <1>b, <2>1, <2>2, <3>1, <3>2 DEF Owed
  <2>6. QED
    BY <2>4, <2>5
<1>8. ASSUME NEW k \in Conns, Receive(k) PROVE Owed(x, c)'
  <2>1. /\ events' = events /\ missed' = missed /\ overtaken' = overtaken
        /\ Listening(x)' = Listening(x) /\ Undecided(c)' = Undecided(c)
        /\ (c \in Present)' = (c \in Present)
    BY <1>8 DEF Receive, Listening, Undecided, Announcing, Present
  <2>2. CASE x = k
    BY <1>0, <1>b, <1>8, <2>1, <2>2, ReadOne DEF Owed
  <2>3. CASE x # k
    <3>1. pos'[x] = pos[x] /\ view'[x] = view[x]
      BY <1>0, <1>8, <2>3 DEF Receive
    <3>2. QED
      BY <1>b, <2>1, <3>1, NothingSaid DEF Owed
  <2>4. QED
    BY <2>2, <2>3
<1>9. ASSUME NEW k \in Conns, Miss(k) PROVE Owed(x, c)'
  <2>1. /\ events' = events /\ view' = view /\ overtaken' = overtaken
        /\ Listening(x)' = Listening(x) /\ Undecided(c)' = Undecided(c)
        /\ (c \in Present)' = (c \in Present) /\ missed' = missed \cup {k}
    BY <1>9 DEF Miss, Listening, Undecided, Announcing, Present
  <2>2. CASE x = k
    BY <2>1, <2>2 DEF Owed
  <2>3. CASE x # k
    <3>1. pos'[x] = pos[x]
      BY <1>0, <1>9, <2>3 DEF Miss
    <3>2. QED
      BY <1>b, <2>1, <2>3, <3>1, NothingSaid DEF Owed
  <2>4. QED
    BY <2>2, <2>3
<1>10. QED
  BY <1>1, <1>2, <1>3, <1>4, <1>5, <1>6, <1>7, <1>8, <1>9 DEF Next

LEMMA InitIndInv == Init => IndInv
<1> SUFFICES ASSUME Init PROVE IndInv
  OBVIOUS
<1>1. \A k \in Conns : ~Listening(k) /\ place[k] # "leaving"
  BY DEF Init, Listening
<1>2. \A c : Announcing(c, "leaving") = {}
  BY <1>1 DEF Announcing
<1>3. Live
  BY InitLive
<1>4. QED
  BY <1>1, <1>2, <1>3 DEF IndInv, Live, Placed, LeavesAreTrue, Told

\* Who has read its stream to the end without lagging takes exactly those other
\* clients to be present who are, unless an announcement of theirs is still to be
\* sent or their last leave overtook a join: the roster that the streams of
\* pubsub.rs tell of is the one PresenceMap holds.
THEOREM StreamsTellTheRoster == Spec => []ViewIsRoster
<1>1. IndInv => ViewIsRoster
  <2> SUFFICES ASSUME IndInv, NEW k \in Conns, NEW c \in Clients, place[k] = "streaming",
                      ~(pos[k] < Len(events)), k \notin missed, c # ClientOf[k], c \notin overtaken,
                      ~Undecided(c)
               PROVE  (c \in view[k]) = (c \in Present)
    BY DEF ViewIsRoster, Undecided
  <2>1. TellsTruth(k, c)
    BY DEF IndInv, Told, Listening
  <2>2. Unread(k) = {}
    BY DEF Unread, IndInv, TypeOK
  <2>3. QED
    BY <2>1, <2>2 DEF TellsTruth
<1>2. IndInv /\ [Next]_vars => IndInv'
  <2>1. IndInv => Live
    BY DEF IndInv, Live
  <2>2. QED
    BY <2>1, LiveKept, PlacedKept, LeavesKept, ToldKept DEF IndInv, Live
<1>3. QED
  BY <1>1, <1>2, InitIndInv, PTL DEF Spec
=============================================================================
