------------------------------ MODULE Presence ------------------------------
(***************************************************************************)
(* Presence on one pub/sub channel of a database, src/src/api/pubsub.rs:   *)
(* connections register with a client id and deregister when their stream  *)
(* is dropped; the first and the last connection of a client announce a    *)
(* join and a leave on the database's broadcast channel.  The roster is    *)
(* changed under a lock, the announcement is sent after it is released.    *)
(*                                                                         *)
(* Other channels are left out: they share only the broadcast channel,     *)
(* where they count towards its capacity; a receiver may lag at any time   *)
(* instead (Miss).                                                         *)
(***************************************************************************)
EXTENDS Integers, Sequences, FiniteSets

CONSTANTS
    Conns,       \* connections; each may connect again after it ended
    Clients,
    ClientOf,    \* the client id each connection passes
    MayMiss,     \* whether receivers may lag
    MaxMessages, \* bound: messages published
    MaxEvents    \* bound: joins, leaves and messages

ASSUME PresenceAssumption ==
    /\ IsFiniteSet(Conns)
    /\ ClientOf \in [Conns -> Clients]
    /\ MayMiss \in BOOLEAN /\ MaxMessages \in Nat /\ MaxEvents \in Nat

\* Where a connection is: its receiver exists from "subscribed" on, its entry
\* in the roster from the registration until the guard is dropped.
Places == {"off", "subscribed", "joining", "streaming", "leaving"}

Event == [client : Clients, kind : {"join", "leave", "message"}]

VARIABLES
    count,       \* PresenceMap: the client's count, 0 if it has no entry
    place,
    events,      \* what was broadcast, in order
    pos,         \* events 1 .. pos are behind the receiver of a connection
    view,        \* ghost: clients a connection takes to be present: the roster when
                 \* it subscribed, then what the joins and leaves it receives say
    missed,      \* ghost: connections whose receiver lagged
    overtaken    \* ghost: clients whose last join was sent before the leave it followed

ghosts == <<view, missed, overtaken>>
vars == <<count, place, events, pos, ghosts>>

Init ==
    /\ count = [c \in Clients |-> 0]
    /\ place = [k \in Conns |-> "off"]
    /\ events = <<>>
    /\ pos = [k \in Conns |-> 0]
    /\ view = [k \in Conns |-> {}] /\ missed = {} /\ overtaken = {}

Goto(k, where) == place' = [place EXCEPT ![k] = where]

Present == {c \in Clients : count[c] > 0}

\* Joins and leaves decided under the lock and not sent yet.
Unsent == {k \in Conns : place[k] \in {"joining", "leaving"}}

Announcing(c, where) == {k \in Conns : ClientOf[k] = c /\ place[k] = where}

Announce(c, what) == events' = Append(events, [client |-> c, kind |-> what])

\* The receiver exists before the connection is registered.
Subscribe(k) ==
    /\ place[k] = "off"
    /\ Goto(k, "subscribed")
    /\ pos' = [pos EXCEPT ![k] = Len(events)]
    /\ view' = [view EXCEPT ![k] = Present] /\ missed' = missed \ {k}
    /\ UNCHANGED <<count, events, overtaken>>

\* (mistaken) a second connection of the client is not counted
RegisterOnce(k) ==
    /\ place[k] = "subscribed"
    /\ Len(events) + Cardinality(Unsent) < MaxEvents
    /\ count' = [count EXCEPT ![ClientOf[k]] = 1]
    /\ Goto(k, IF count[ClientOf[k]] = 0 THEN "joining" ELSE "streaming")
    /\ UNCHANGED <<events, pos, ghosts>>

\* (mistaken) the receiver is created only now
RegisterFirst(k) ==
    /\ place[k] = "subscribed"
    /\ Len(events) + Cardinality(Unsent) < MaxEvents
    /\ count' = [count EXCEPT ![ClientOf[k]] = @ + 1]
    /\ pos' = [pos EXCEPT ![k] = Len(events)]
    /\ Goto(k, IF count[ClientOf[k]] = 0 THEN "joining" ELSE "streaming")
    /\ UNCHANGED <<events, ghosts>>

\* PresenceGuard::register, under the lock
Register(k) ==
    /\ place[k] = "subscribed"
    /\ Len(events) + Cardinality(Unsent) < MaxEvents
    /\ count' = [count EXCEPT ![ClientOf[k]] = @ + 1]
    /\ Goto(k, IF count[ClientOf[k]] = 0 THEN "joining" ELSE "streaming")
    /\ UNCHANGED <<events, pos, ghosts>>

SendJoin(k) ==
    /\ place[k] = "joining"
    /\ Announce(ClientOf[k], "join")
    /\ Goto(k, "streaming")
    /\ overtaken' = IF Announcing(ClientOf[k], "leaving") = {} THEN overtaken \ {ClientOf[k]}
                    ELSE overtaken \cup {ClientOf[k]}
    /\ UNCHANGED <<count, pos, view, missed>>

\* (mistaken) also what was never registered is withdrawn
DeregisterUnregistered(k) ==
    /\ place[k] \in {"subscribed", "streaming"}
    /\ Len(events) + Cardinality(Unsent) < MaxEvents
    /\ count' = [count EXCEPT ![ClientOf[k]] = @ - 1]
    /\ Goto(k, IF count[ClientOf[k]] = 1 THEN "leaving" ELSE "off")
    /\ UNCHANGED <<events, pos, ghosts>>

\* Drop of the guard, under the lock; the entry goes when its count reaches 0.
Deregister(k) ==
    /\ place[k] = "streaming"
    /\ Len(events) + Cardinality(Unsent) < MaxEvents
    /\ count' = [count EXCEPT ![ClientOf[k]] = @ - 1]
    /\ Goto(k, IF count[ClientOf[k]] = 1 THEN "leaving" ELSE "off")
    /\ UNCHANGED <<events, pos, ghosts>>

SendLeave(k) ==
    /\ place[k] = "leaving"
    /\ Announce(ClientOf[k], "leave")
    /\ Goto(k, "off")
    /\ UNCHANGED <<count, pos, ghosts>>

\* publish; the number of receivers is answered and nothing is kept.
Publish(c) ==
    /\ Len(SelectSeq(events, LAMBDA e : e.kind = "message")) < MaxMessages
    /\ Len(events) + Cardinality(Unsent) < MaxEvents
    /\ Announce(c, "message")
    /\ UNCHANGED <<count, place, pos, ghosts>>

\* The stream yields nothing of its own client.
Seen(k, e) ==
    CASE e.client = ClientOf[k] \/ e.kind = "message" -> view[k]
      [] e.kind = "join" -> view[k] \cup {e.client}
      [] e.kind = "leave" -> view[k] \ {e.client}

Receive(k) ==
    /\ place[k] = "streaming" /\ pos[k] < Len(events)
    /\ pos' = [pos EXCEPT ![k] = @ + 1]
    /\ view' = [view EXCEPT ![k] = Seen(k, events[pos[k] + 1])]
    /\ UNCHANGED <<count, place, events, missed, overtaken>>

\* RecvError::Lagged: the missed events are dropped silently.
Miss(k) ==
    /\ MayMiss
    /\ place[k] = "streaming" /\ pos[k] < Len(events)
    /\ pos' = [pos EXCEPT ![k] = Len(events)]
    /\ missed' = missed \cup {k}
    /\ UNCHANGED <<count, place, events, view, overtaken>>

Next ==
    \/ \E c \in Clients : Publish(c)
    \/ \E k \in Conns :
        \/ Subscribe(k) \/ Register(k) \/ SendJoin(k)
        \/ Deregister(k) \/ SendLeave(k) \/ Receive(k) \/ Miss(k)

Spec == Init /\ [][Next]_vars

-----------------------------------------------------------------------------
\* Every variable has its type; in particular a count is never negative, which
\* a u32 could not be.
TypeOK ==
    /\ count \in [Clients -> Nat]
    /\ place \in [Conns -> Places]
    /\ events \in Seq(Event)
    /\ pos \in [Conns -> Nat]
    /\ view \in [Conns -> SUBSET Clients] /\ missed \subseteq Conns /\ overtaken \subseteq Clients

Registered(c) == {k \in Conns : ClientOf[k] = c /\ place[k] \in {"joining", "streaming"}}

\* A client is in the roster exactly as long as a connection of it is, however
\* registrations and drops interleave.
RosterIsLive == \A c \in Clients : count[c] = Cardinality(Registered(c))

\* Who has read everything, having started from the roster at its subscription,
\* takes exactly those other clients to be present who are, however the
\* connections of a client come and go; unless it lagged, or an announcement is
\* still to be sent, or the client joined anew before its leave was sent: that
\* leave then arrives last and hides it.
ViewIsRoster ==
    \A k \in Conns, c \in Clients :
        \/ place[k] # "streaming" \/ pos[k] < Len(events) \/ k \in missed
        \/ c = ClientOf[k] \/ c \in overtaken
        \/ Announcing(c, "joining") # {} \/ Announcing(c, "leaving") # {}
        \/ (c \in view[k]) = (c \in Present)
=============================================================================
