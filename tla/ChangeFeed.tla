----------------------------- MODULE ChangeFeed -----------------------------
(***************************************************************************)
(* The change feed, src/src/realtime.rs: subscribers over SSE that attach  *)
(* to a database's broadcast channel, catch up from _changelog when they   *)
(* bring a Last-Event-ID, and then follow the channel.                     *)
(*                                                                         *)
(* The handler reads _changelog with separate statements, outside a        *)
(* transaction, while the writer goes on; each read is an action.  The     *)
(* tokio broadcast channel is modelled by what its documentation promises: *)
(* a receiver that is more than ChanCap values behind is told so once and  *)
(* continues with the oldest value kept.                                   *)
(*                                                                         *)
(* The client is what an EventSource is: it remembers the id of the last   *)
(* change it got, reconnects with it, and reads the current state again on *)
(* a resync event or when it starts without an id.                         *)
(***************************************************************************)
EXTENDS FeedSource, FiniteSetsExt

CONSTANTS
    Subs,         \* subscribers
    Wanted,       \* classes in the collection a subscriber names
    Passing,      \* those its filter lets through
    ChanCap,      \* sse_channel_capacity
    MaxConnects,  \* bound: connections of a subscriber
    MaxResets     \* bound: restarts and rewinds of the database

ASSUME SubsAssumption ==
    /\ Wanted \in [Subs -> SUBSET Classes]
    /\ Passing \in [Subs -> SUBSET Classes]
    /\ \A s \in Subs : Passing[s] \subseteq Wanted[s]
ASSUME FeedBoundsAssumption ==
    ChanCap \in Nat \ {0} /\ MaxConnects \in Nat /\ MaxResets \in Nat

NoId == -1     \* no Last-Event-ID
Resync == 0    \* the resync event, in an outbox of sequence numbers

Stages == {"off", "attached", "got_max", "got_min", "live"}

VARIABLES
    stage,      \* where the handler or the stream of a subscriber is
    pos,        \* broadcasts 1 .. pos are behind the receiver
    resume,     \* the Last-Event-ID sent on connect
    maxSent,    \* max_sent
    outbox,     \* resync or replay still to be sent, in increasing order
    lastId,     \* client: id of the last change received
    connects,
    resets,
    stale,      \* ghost: lastId is the id of a change that was undone
    covered,    \* ghost: changes the client received or saw in a full read
    excused     \* ghost: changes the two known holes cost the client

conn == <<stage, pos, resume, maxSent, outbox>>
client == <<lastId, stale, covered, excused>>
counters == <<connects, resets>>
feedVars == <<source, conn, client, counters>>

Init ==
    /\ SourceInit
    /\ stage = [s \in Subs |-> "off"] /\ pos = [s \in Subs |-> 0]
    /\ resume = [s \in Subs |-> NoId] /\ maxSent = [s \in Subs |-> 0]
    /\ outbox = [s \in Subs |-> {}]
    /\ lastId = [s \in Subs |-> NoId] /\ stale = [s \in Subs |-> FALSE]
    /\ covered = [s \in Subs |-> {}] /\ excused = [s \in Subs |-> {}]
    /\ connects = [s \in Subs |-> 0] /\ resets = 0

\* The rows of _changelog
Rows == low + 1 .. Len(hist)

-----------------------------------------------------------------------------
(* The writer's side *)

\* A trim between the two reads of a resuming handler is the first hole.
Excuse(s) ==
    IF stage[s] = "got_min" THEN excused[s] \cup (resume[s] + 1 .. low') ELSE excused[s]

Write == CommitGroup /\ UNCHANGED <<conn, client, counters>>

Emit == EmitNext /\ UNCHANGED <<conn, client, counters>>

Drop ==
    /\ TrimLog
    /\ excused' = [s \in Subs |-> Excuse(s)]
    /\ UNCHANGED <<conn, lastId, stale, covered, counters>>

Closed ==
    /\ stage' = [s \in Subs |-> "off"]
    /\ outbox' = [s \in Subs |-> {}]
    /\ UNCHANGED <<pos, resume, maxSent>>

\* The server restarts with all that was committed.
Restart ==
    /\ resets < MaxResets /\ resets' = resets + 1
    /\ OpenAgain /\ Closed
    /\ UNCHANGED <<client, connects>>

\* Power loss takes the last commits (synchronous = NORMAL), or the database is
\* dropped and created anew under its name: sequence numbers are used again.
Rewind ==
    /\ resets < MaxResets /\ resets' = resets + 1
    /\ \E n \in {0} \cup (low + 1 .. Len(hist) - 1) :
          /\ n < Len(hist)
          /\ hist' = SubSeq(hist, 1, n)
          /\ low' = IF n = 0 THEN 0 ELSE low
          /\ sent' = n
          /\ covered' = [s \in Subs |-> covered[s] \cap 1 .. n]
          /\ excused' = [s \in Subs |-> excused[s] \cap 1 .. n]
          /\ stale' = [s \in Subs |-> stale[s] \/ lastId[s] > n]
    /\ Closed
    /\ UNCHANGED <<lastId, connects>>

-----------------------------------------------------------------------------
(* subscribe and build_resume_plan *)

\* The receiver is created before _changelog is read.
Attach(s) ==
    /\ stage[s] = "off" /\ connects[s] < MaxConnects
    /\ connects' = [connects EXCEPT ![s] = @ + 1]
    /\ stage' = [stage EXCEPT ![s] = "attached"]
    /\ pos' = [pos EXCEPT ![s] = sent]
    /\ resume' = [resume EXCEPT ![s] = lastId[s]]
    /\ UNCHANGED <<source, maxSent, outbox, client, resets>>

\* A page load: the client has forgotten everything it saw.
Forget(s) ==
    /\ stage[s] = "off" /\ lastId[s] # NoId
    /\ lastId' = [lastId EXCEPT ![s] = NoId]
    /\ covered' = [covered EXCEPT ![s] = {}]
    /\ excused' = [excused EXCEPT ![s] = {}]
    /\ stale' = [stale EXCEPT ![s] = FALSE]
    /\ UNCHANGED <<source, conn, counters>>

\* SELECT MAX(seq): all a fresh subscriber needs; it reads the state itself.
ReadMax(s) ==
    /\ stage[s] = "attached"
    /\ maxSent' = [maxSent EXCEPT ![s] = Len(hist)]
    /\ IF resume[s] = NoId
       THEN /\ stage' = [stage EXCEPT ![s] = "live"]
            /\ covered' = [covered EXCEPT ![s] = 1 .. Len(hist)]
       ELSE /\ stage' = [stage EXCEPT ![s] = "got_max"]
            /\ UNCHANGED covered
    /\ UNCHANGED <<source, pos, resume, outbox, lastId, stale, excused, counters>>

\* (mistaken) off by one
PredatesLate(id) == Rows # {} /\ id + 1 < low

\* SELECT MIN(seq): the oldest row kept is low + 1, if there is one.
Predates(id) == Rows # {} /\ id + 1 < low + 1

ReadMin(s) ==
    /\ stage[s] = "got_max"
    /\ IF Predates(resume[s])
       THEN /\ stage' = [stage EXCEPT ![s] = "live"]
            /\ outbox' = [outbox EXCEPT ![s] = {Resync}]
       ELSE /\ stage' = [stage EXCEPT ![s] = "got_min"]
            /\ UNCHANGED outbox
    /\ UNCHANGED <<source, pos, resume, maxSent, client, counters>>

\* SELECT ... WHERE seq > last AND collection = ... ORDER BY seq
ReplayRows(s) == {i \in Rows : i > resume[s] /\ hist[i] \in Wanted[s]}

\* An id the history has not reached, or reached anew, is the second hole.
ReadRows(s) ==
    /\ stage[s] = "got_min"
    /\ maxSent' = [maxSent EXCEPT ![s] = Max(ReplayRows(s) \cup {resume[s]})]
    /\ outbox' = [outbox EXCEPT ![s] = {i \in ReplayRows(s) : hist[i] \in Passing[s]}]
    /\ stage' = [stage EXCEPT ![s] = "live"]
    /\ excused' = [excused EXCEPT ![s] =
                      @ \cup (IF stale[s] THEN 1 .. resume[s] ELSE {})]
    /\ UNCHANGED <<source, pos, resume, lastId, stale, covered, counters>>

-----------------------------------------------------------------------------
(* event_stream *)

\* What the client does with a change and with a resync.
GetChange(s, i) ==
    /\ lastId' = [lastId EXCEPT ![s] = i]
    /\ stale' = [stale EXCEPT ![s] = FALSE]
    /\ covered' = [covered EXCEPT ![s] = @ \cup {i}]
    /\ UNCHANGED excused

GetResync(s) ==
    /\ covered' = [covered EXCEPT ![s] = @ \cup 1 .. Len(hist)]
    /\ UNCHANGED <<lastId, stale, excused>>

Deliver(s) ==
    /\ stage[s] = "live" /\ outbox[s] # {}
    /\ IF Min(outbox[s]) = Resync THEN GetResync(s) ELSE GetChange(s, Min(outbox[s]))
    /\ outbox' = [outbox EXCEPT ![s] = @ \ {Min(@)}]
    /\ UNCHANGED <<source, stage, pos, resume, maxSent, counters>>

Lagging(s) == sent - pos[s] > ChanCap

Receiving(s) == stage[s] = "live" /\ outbox[s] = {} /\ pos[s] < sent

Next1(s) == pos[s] + 1

\* (mistaken) no watermark
SkippedUnmarked(s, i) == hist[i] \notin Wanted[s]

Skipped(s, i) == hist[i] \notin Wanted[s] \/ i <= maxSent[s]

Skip(s) ==
    /\ Receiving(s) /\ ~Lagging(s)
    /\ Skipped(s, Next1(s))
    /\ pos' = [pos EXCEPT ![s] = Next1(s)]
    /\ UNCHANGED <<source, stage, resume, maxSent, outbox, client, counters>>

Follow(s) ==
    /\ Receiving(s) /\ ~Lagging(s)
    /\ ~Skipped(s, Next1(s))
    /\ pos' = [pos EXCEPT ![s] = Next1(s)]
    /\ maxSent' = [maxSent EXCEPT ![s] = Next1(s)]
    /\ IF hist[Next1(s)] \in Passing[s] THEN GetChange(s, Next1(s)) ELSE UNCHANGED client
    /\ UNCHANGED <<source, stage, resume, outbox, counters>>

\* (mistaken) the receiver stays where it is
LagInPlace(s) ==
    /\ Receiving(s) /\ Lagging(s)
    /\ GetResync(s)
    /\ UNCHANGED <<source, conn, counters>>

\* RecvError::Lagged
Lag(s) ==
    /\ Receiving(s) /\ Lagging(s)
    /\ pos' = [pos EXCEPT ![s] = sent - ChanCap]
    /\ GetResync(s)
    /\ UNCHANGED <<source, stage, resume, maxSent, outbox, counters>>

Disconnect(s) ==
    /\ stage[s] # "off"
    /\ stage' = [stage EXCEPT ![s] = "off"]
    /\ outbox' = [outbox EXCEPT ![s] = {}]
    /\ UNCHANGED <<source, pos, resume, maxSent, client, counters>>

Serve(s) ==
    ReadMax(s) \/ ReadMin(s) \/ ReadRows(s) \/ Deliver(s) \/ Skip(s) \/ Follow(s) \/ Lag(s)

Next ==
    \/ Write \/ Emit \/ Drop \/ Restart \/ Rewind
    \/ \E s \in Subs : Attach(s) \/ Forget(s) \/ Serve(s) \/ Disconnect(s)

Spec == Init /\ [][Next]_feedVars

\* A handler and its stream run until the connection ends, and the writer
\* broadcasts what it committed; nothing makes clients connect or write.
Fairness == WF_feedVars(Emit) /\ \A s \in Subs : WF_feedVars(Serve(s))

FairSpec == Spec /\ Fairness

-----------------------------------------------------------------------------
\* Every variable has its type: the rows of _changelog and the broadcasts lie
\* within the history, and the bounds of the instance hold.
TypeOK ==
    /\ hist \in Seq(Classes) /\ low \in 0 .. Len(hist) /\ sent \in 0 .. Len(hist)
    /\ stage \in [Subs -> Stages]
    /\ pos \in [Subs -> Nat] /\ maxSent \in [Subs -> Nat]
    /\ resume \in [Subs -> Nat \cup {NoId}] /\ lastId \in [Subs -> Nat \cup {NoId}]
    /\ outbox \in [Subs -> SUBSET Nat]
    /\ stale \in [Subs -> BOOLEAN]
    /\ covered \in [Subs -> SUBSET Nat] /\ excused \in [Subs -> SUBSET Nat]
    /\ connects \in [Subs -> 0 .. MaxConnects] /\ resets \in 0 .. MaxResets

Following(s) == stage[s] = "live" /\ outbox[s] = {}

\* The changes behind the receiver that the subscriber asked for.
Owed(s) == {i \in 1 .. pos[s] : hist[i] \in Passing[s]}

\* A subscriber that follows the channel has received every change it asked for,
\* or was told to read the state again after it: resume, attaching to a moving
\* channel, the watermark and lag leave no silent gap.  Two holes are excepted,
\* each exactly as large as its cause: rows trimmed between the two reads of the
\* resume plan, and ids from before a rewind of the history.
GapsExplained ==
    \A s \in Subs : Following(s) => Owed(s) \subseteq covered[s] \cup excused[s]

\* The ids a client receives increase, also from one connection to the next, so
\* no change is delivered twice or after a later one.  Only from an id whose
\* change was undone by a rewind may a client go back: the numbers are used anew.
OnceInOrder ==
    [][\A s \in Subs :
          lastId'[s] \notin {lastId[s], NoId} => stale[s] \/ lastId'[s] > lastId[s]]_feedVars

\* A subscriber whose connection stays up eventually accounts for everything
\* that was committed.
EventuallyAccounted ==
    \A s \in Subs :
        <>[](stage[s] = "live") =>
            <>[](/\ pos[s] = Len(hist)
                 /\ Owed(s) \subseteq covered[s] \cup excused[s])

\* The documented promise, without exceptions: what could not be replayed is
\* announced by a resync (docs/api.md:404).
NoSilentGap ==
    \A s \in Subs : Following(s) => Owed(s) \subseteq covered[s]
=============================================================================
