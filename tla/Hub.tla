-------------------------------- MODULE Hub --------------------------------
(***************************************************************************)
(* The WebSocket fan-out of internal/ws: the hub's event loop (hub.go),    *)
(* the goroutines of every connection (handler.go, replay.go), and the     *)
(* events table they share with the write handlers and the hourly GC.      *)
(*                                                                         *)
(* An event is known by the id its INSERT draws.  fanOutEvent inserts its  *)
(* row and then broadcasts it, whatever became of the row: ids are drawn   *)
(* in one order, and rows become visible and events broadcast in another.  *)
(*                                                                         *)
(* A connection has a reader (the HTTP handler's goroutine), a writer and  *)
(* a goroutine for every replay it asked for; they share the channel       *)
(* c.send, which only the hub closes, and the map c.subscriptions, which   *)
(* the reader writes and the hub reads.  A write to the map is a step with *)
(* a beginning and an end: a read in between is a data race, which the Go  *)
(* runtime may detect, and then it aborts the process.                     *)
(***************************************************************************)
EXTENDS Naturals, Sequences, FiniteSets

CONSTANTS
    Clients,        \* connections
    Users,
    UserOf,         \* UserOf[c]: the user whose token opened c
    Projects,
    SendCap,        \* capacity of c.send, 256
    BroadcastCap,   \* capacity of hub.broadcast, 256
    RegisterCap,    \* capacity of hub.register and of hub.unregister, 64
    ReplayLimit,    \* maxReplayEvents, 500
    NoSince,        \* a subscribe without since
    SinceIds,       \* the ids from which clients ask for a replay
    MaxEvents,      \* bound on the events
    MaxMessages,    \* bound on the messages a client sends
    MaxFailures,    \* bound on the rows that AppendEvent failed to insert
    MaxGCs          \* bound on the runs of the GC that delete something

ASSUME HubAssumption ==
    /\ UserOf \in [Clients -> Users]
    /\ {SendCap, BroadcastCap, RegisterCap, ReplayLimit} \subseteq Nat \ {0}
    /\ SinceIds \subseteq Nat /\ NoSince \notin Nat
    /\ {MaxEvents, MaxMessages, MaxFailures, MaxGCs} \subseteq Nat

VARIABLES
    \* the events, by id: fanOutEvent and the table
    log,        \* log[n]: the project of event n
    pub,        \* pub[n]: fanOutEvent is at "append" or "send", or is "done"
    row,        \* row[n]: "none", "visible" or "deleted"
    gcs,        \* runs of the GC that deleted something
    \* the hub
    register, unregister, broadcast,    \* its channels
    clients,    \* the map h.clients
    fan,        \* the event being fanned out, 0 if Run waits in its select
    todo,       \* the clients the fan-out has yet to visit
    \* the connections
    conn,       \* "none", "up" or "closed"
    rd,         \* where the reader stands
    inbox,      \* the messages received, the last one being handled
    wr,         \* the writer: "none", "run" or "gone"
    rp,         \* rp[c][k]: the replay goroutine started by message k
    rows,       \* rows[c][k]: the frames it has yet to send
    subs,       \* c.subscriptions
    sendq,      \* the contents of the channel c.send
    closed,     \* c.send has been closed
    \* the process
    fatal,      \* why the process aborted, or "no"
    \* history
    sent,       \* the events in the order of their broadcast
    due,        \* events the hub found c subscribed to, in order
    delivered,  \* live events written to the connection, in order
    replayed,   \* frames of replays written to the connection
    lost,       \* frames of replays that did not fit into c.send
    passed      \* events fanned out while c, its replay answered, was not registered

hubVars   == <<register, unregister, broadcast, clients, fan, todo>>
connVars  == <<conn, rd, inbox, wr, rp, rows, subs, sendq, closed>>
tableVars == <<log, pub, row, gcs>>
histVars  == <<sent, due, delivered, replayed, lost, passed>>
vars      == <<tableVars, hubVars, connVars, fatal, histVars>>

Event(n) == <<"event", n>>

Replays == 1..MaxMessages

\* The frames of replay k: it sends events, or tells the client to resync.
Replay(k, n) == <<"replay", k, n>>
Resync(k) == <<"resync", k>>
Frames == ({"event"} \X (1..MaxEvents))
          \cup ({"replay"} \X Replays \X (1..MaxEvents)) \cup ({"resync"} \X Replays)
          \cup ({"subscribed", "accessRevoked"} \X {0})

Messages ==
    [type : {"subscribe"}, project : Projects, since : SinceIds \cup {NoSince}]
    \cup [type : {"unsubscribe"}, project : Projects, since : {NoSince}]

\* The message the reader is handling.
msg(c) == inbox[c][Len(inbox[c])]

ReaderStates == {"none", "register", "read", "mapWrite", "ack", "leave", "gone"}

Running == fatal = "no"

\* The select around every send to c.send: send if there is room, else drop.
TrySend(q, f) == IF Len(q) < SendCap THEN Append(q, f) ELSE q
-----------------------------------------------------------------------------
Init ==
    /\ register = <<>> /\ unregister = <<>> /\ broadcast = <<>>
    /\ clients = {} /\ fan = 0 /\ todo = {}
    /\ conn = [c \in Clients |-> "none"]
    /\ rd = [c \in Clients |-> "none"]
    /\ inbox = [c \in Clients |-> <<>>]
    /\ wr = [c \in Clients |-> "none"]
    /\ rp = [c \in Clients |-> [k \in Replays |-> "none"]]
    /\ rows = [c \in Clients |-> [k \in Replays |-> <<>>]]
    /\ subs = [c \in Clients |-> {}]
    /\ sendq = [c \in Clients |-> <<>>]
    /\ closed = [c \in Clients |-> FALSE]
    /\ fatal = "no"
    /\ log = <<>> /\ pub = <<>> /\ row = <<>> /\ gcs = 0 /\ sent = <<>>
    /\ due = [c \in Clients |-> <<>>]
    /\ delivered = [c \in Clients |-> <<>>]
    /\ replayed = [c \in Clients |-> {}]
    /\ lost = [c \in Clients |-> {}]
    /\ passed = [c \in Clients |-> {}]
-----------------------------------------------------------------------------
(***************************************************************************)
(* fanOutEvent, called by the write handlers, and the events table         *)
(***************************************************************************)
\* AppendEvent: the INSERT runs and draws its id.
AppendEvent(p) ==
    /\ Len(log) < MaxEvents
    /\ log' = Append(log, p)
    /\ pub' = Append(pub, "append")
    /\ row' = Append(row, "none")
    /\ UNCHANGED <<gcs, hubVars, connVars, fatal, histVars>>

\* The INSERT commits, or fails, which is only logged; a call that fails may
\* have committed all the same.
Appended(n) ==
    /\ pub[n] = "append"
    /\ pub' = [pub EXCEPT ![n] = "send"]
    /\ \/ row' = [row EXCEPT ![n] = "visible"]
       \/ /\ Cardinality({i \in 1..Len(log) : pub[i] # "append" /\ row[i] = "none"})
               < MaxFailures
          /\ UNCHANGED row
    /\ UNCHANGED <<log, gcs, hubVars, connVars, fatal, histVars>>

\* Hub.Broadcast: blocks while the channel is full.
Broadcast(n) ==
    /\ pub[n] = "send" /\ Len(broadcast) < BroadcastCap
    /\ pub' = [pub EXCEPT ![n] = "done"]
    /\ broadcast' = Append(broadcast, n)
    /\ sent' = Append(sent, n)
    /\ UNCHANGED <<log, row, gcs, register, unregister, clients, fan, todo,
                   connVars, fatal, due, delivered, replayed, lost, passed>>

\* runGC: created_at follows the ids, and an INSERT ends (within the five
\* seconds of its context) long before its row is past the retention.
RunGC(n) ==
    /\ gcs < MaxGCs
    /\ row[n] = "visible" /\ \A i \in 1..n : pub[i] # "append"
    /\ gcs' = gcs + 1
    /\ row' = [i \in DOMAIN row |->
                 IF i <= n /\ row[i] = "visible" THEN "deleted" ELSE row[i]]
    /\ UNCHANGED <<log, pub, hubVars, connVars, fatal, histVars>>
-----------------------------------------------------------------------------
(***************************************************************************)
(* The hub                                                                 *)
(***************************************************************************)
\* case c := <-h.register
HubRegister ==
    /\ fan = 0 /\ register # <<>>
    /\ register' = Tail(register)
    /\ clients' = clients \cup {Head(register)}
    /\ UNCHANGED <<tableVars, unregister, broadcast, fan, todo, connVars, fatal,
                   histVars>>

\* Mutant: close(c.send) without the delete.
Drop_KeepsEntry(c) ==
    /\ closed' = [closed EXCEPT ![c] = TRUE]
    /\ UNCHANGED clients

\* delete(h.clients, c); close(c.send)
Drop(c) ==
    /\ clients' = clients \ {c}
    /\ closed' = [closed EXCEPT ![c] = TRUE]

\* Mutant: the fan-out has a goroutine of its own, and the loop goes on
\* unregistering clients that it has yet to visit.
HubUnregister_DuringFanOut ==
    /\ unregister # <<>>
    /\ unregister' = Tail(unregister)
    /\ \/ Head(unregister) \in clients /\ Drop(Head(unregister))
       \/ Head(unregister) \notin clients /\ UNCHANGED <<clients, closed>>
    /\ UNCHANGED <<tableVars, register, broadcast, fan, todo, conn, rd, inbox, wr,
                   rp, rows, subs, sendq, fatal, histVars>>

\* case c := <-h.unregister
HubUnregister ==
    /\ fan = 0 /\ unregister # <<>>
    /\ unregister' = Tail(unregister)
    /\ \/ Head(unregister) \in clients /\ Drop(Head(unregister))
       \/ Head(unregister) \notin clients /\ UNCHANGED <<clients, closed>>
    /\ UNCHANGED <<tableVars, register, broadcast, fan, todo, conn, rd, inbox, wr,
                   rp, rows, subs, sendq, fatal, histVars>>

\* case ev := <-h.broadcast: an event for no client is gone at once.
HubTake ==
    /\ fan = 0 /\ broadcast # <<>>
    /\ broadcast' = Tail(broadcast)
    /\ todo' = clients
    /\ fan' = IF clients = {} THEN 0 ELSE Head(broadcast)
    /\ passed' = [c \in Clients |->
          IF c \notin clients /\ \E k \in Replays : rp[c][k] \in {"send", "done"}
            THEN passed[c] \cup {Head(broadcast)} ELSE passed[c]]
    /\ UNCHANGED <<tableVars, register, unregister, clients, connVars, fatal,
                   sent, due, delivered, replayed, lost>>

\* The map is being written while the caller reads it.
Racing(c) == rd[c] = "mapWrite"

AfterWrite(c) ==
    IF msg(c).type = "subscribe" THEN subs[c] \cup {msg(c).project}
                                 ELSE subs[c] \ {msg(c).project}

\* What a read of c.subscriptions may find.
SubsSeen(c) == IF Racing(c) THEN {subs[c], AfterWrite(c)} ELSE {subs[c]}

\* Mutant: a frame that does not fit is dropped and the client kept.
Deliver_DropsFrame(c) ==
    /\ due' = [due EXCEPT ![c] = Append(@, fan)]
    /\ \/ /\ Len(sendq[c]) < SendCap
          /\ sendq' = [sendq EXCEPT ![c] = Append(@, Event(fan))]
       \/ Len(sendq[c]) = SendCap /\ UNCHANGED sendq
    /\ UNCHANGED <<clients, closed>>

\* Mutant: a plain send, which blocks while c.send is full.
Deliver_Blocks(c) ==
    /\ Len(sendq[c]) < SendCap
    /\ due' = [due EXCEPT ![c] = Append(@, fan)]
    /\ sendq' = [sendq EXCEPT ![c] = Append(@, Event(fan))]
    /\ UNCHANGED <<clients, closed>>

\* What the fan-out does with a subscribed client: a full channel means a slow
\* client, which is dropped.
Deliver(c) ==
    /\ due' = [due EXCEPT ![c] = Append(@, fan)]
    /\ \/ /\ Len(sendq[c]) < SendCap
          /\ sendq' = [sendq EXCEPT ![c] = Append(@, Event(fan))]
          /\ UNCHANGED <<clients, closed>>
       \/ Len(sendq[c]) = SendCap /\ Drop(c) /\ UNCHANGED sendq

\* One iteration of the loop over h.clients, in the order of the map.
HubVisit(c) ==
    /\ c \in todo
    /\ \E s \in SubsSeen(c) :
          \/ log[fan] \in s /\ Deliver(c)
          \/ log[fan] \notin s /\ UNCHANGED <<due, sendq, clients, closed>>
    /\ todo' = todo \ {c}
    /\ fan' = IF todo = {c} THEN 0 ELSE fan
    /\ UNCHANGED <<tableVars, register, unregister, broadcast, conn, rd, inbox,
                   wr, rp, rows, subs, fatal, sent, delivered, replayed, lost,
                   passed>>

\* "fatal error: concurrent map read and map write".  The read is that of the
\* fan-out, or that of BroadcastAccessRevoked, which may run at any time.
MapRace(c) ==
    /\ c \in clients /\ Racing(c)
    /\ fatal' = "mapRace"
    /\ UNCHANGED <<tableVars, hubVars, connVars, histVars>>

\* BroadcastAccessRevoked, called by the admin console when user u is removed
\* from project p.
AccessRevoked(u, p) ==
    /\ \E seen \in [clients -> SUBSET Projects] :
          /\ \A c \in clients : seen[c] \in SubsSeen(c)
          /\ sendq' = [c \in Clients |->
                IF c \in clients /\ p \in seen[c] /\ UserOf[c] = u
                  THEN TrySend(sendq[c], <<"accessRevoked", 0>>) ELSE sendq[c]]
    /\ UNCHANGED <<tableVars, hubVars, conn, rd, inbox, wr, rp, rows, subs,
                   closed, fatal, histVars>>
-----------------------------------------------------------------------------
(***************************************************************************)
(* The connections                                                         *)
(***************************************************************************)
\* Handler, up to the upgrade; an invalid token leaves no trace.
Connect(c) ==
    /\ rd[c] = "none"
    /\ rd' = [rd EXCEPT ![c] = "register"]
    /\ conn' = [conn EXCEPT ![c] = "up"]
    /\ UNCHANGED <<tableVars, hubVars, inbox, wr, rp, rows, subs, sendq, closed,
                   fatal, histVars>>

\* hub.register <- c; go writeLoop(c, hub); readLoop(c, hub)
Register(c) ==
    /\ rd[c] = "register" /\ Len(register) < RegisterCap
    /\ register' = Append(register, c)
    /\ rd' = [rd EXCEPT ![c] = "read"]
    /\ wr' = [wr EXCEPT ![c] = "run"]
    /\ UNCHANGED <<tableVars, unregister, broadcast, clients, fan, todo, conn,
                   inbox, rp, rows, subs, sendq, closed, fatal, histVars>>

\* The peer closes, or the network fails.
Hangup(c) ==
    /\ conn[c] = "up"
    /\ conn' = [conn EXCEPT ![c] = "closed"]
    /\ UNCHANGED <<tableVars, hubVars, rd, inbox, wr, rp, rows, subs, sendq,
                   closed, fatal, histVars>>

\* ReadMessage returns a subscribe or an unsubscribe; the write to the map
\* begins.  Anything else the client sends changes nothing.
ReadMessage(c, m) ==
    /\ rd[c] = "read" /\ conn[c] = "up" /\ Len(inbox[c]) < MaxMessages
    /\ inbox' = [inbox EXCEPT ![c] = Append(@, m)]
    /\ rd' = [rd EXCEPT ![c] = "mapWrite"]
    /\ UNCHANGED <<tableVars, hubVars, conn, wr, rp, rows, subs, sendq, closed,
                   fatal, histVars>>

\* The write to c.subscriptions ends.
WriteSubscription(c) ==
    /\ rd[c] = "mapWrite"
    /\ subs' = [subs EXCEPT ![c] = AfterWrite(c)]
    /\ rd' = [rd EXCEPT ![c] = IF msg(c).type = "subscribe" THEN "ack" ELSE "read"]
    /\ UNCHANGED <<tableVars, hubVars, conn, inbox, wr, rp, rows, sendq, closed,
                   fatal, histVars>>

\* The "subscribed" frame, then a replay goroutine if since was given.  A send
\* on the closed channel panics; net/http recovers the handler's panic, and
\* the deferred function runs.
Acknowledge(c) ==
    /\ rd[c] = "ack"
    /\ \/ /\ ~closed[c]
          /\ sendq' = [sendq EXCEPT ![c] = TrySend(@, <<"subscribed", 0>>)]
          /\ rd' = [rd EXCEPT ![c] = "read"]
          /\ rp' = [rp EXCEPT ![c][Len(inbox[c])] =
                      IF msg(c).since = NoSince THEN "none" ELSE "query"]
       \/ closed[c] /\ rd' = [rd EXCEPT ![c] = "leave"] /\ UNCHANGED <<sendq, rp>>
    /\ UNCHANGED <<tableVars, hubVars, conn, inbox, wr, rows, subs, closed, fatal,
                   histVars>>

\* ReadMessage returns an error.
ReadError(c) ==
    /\ rd[c] = "read" /\ conn[c] = "closed"
    /\ rd' = [rd EXCEPT ![c] = "leave"]
    /\ UNCHANGED <<tableVars, hubVars, conn, inbox, wr, rp, rows, subs, sendq,
                   closed, fatal, histVars>>

\* The deferred function of readLoop: hub.unregister <- c; c.conn.Close().
Leave(c) ==
    /\ rd[c] = "leave" /\ Len(unregister) < RegisterCap
    /\ unregister' = Append(unregister, c)
    /\ rd' = [rd EXCEPT ![c] = "gone"]
    /\ conn' = [conn EXCEPT ![c] = "closed"]
    /\ UNCHANGED <<tableVars, register, broadcast, clients, fan, todo, inbox, wr,
                   rp, rows, subs, sendq, closed, fatal, histVars>>

\* Mutant: writeLoop returns without closing the connection.
StopWriter_LeavesOpen(c) ==
    /\ wr' = [wr EXCEPT ![c] = "gone"]
    /\ UNCHANGED conn

\* writeLoop returns, and closes the connection.
StopWriter(c) ==
    /\ wr' = [wr EXCEPT ![c] = "gone"]
    /\ conn' = [conn EXCEPT ![c] = "closed"]

\* payload, ok := <-c.send with ok true: write it, or fail.
WriteFrame(c) ==
    LET f == Head(sendq[c]) IN
    /\ wr[c] = "run" /\ sendq[c] # <<>>
    /\ sendq' = [sendq EXCEPT ![c] = Tail(@)]
    /\ \/ /\ conn[c] = "up"
          /\ delivered' = [delivered EXCEPT ![c] =
                IF f[1] = "event" THEN Append(@, f[2]) ELSE @]
          /\ replayed' = [replayed EXCEPT ![c] =
                IF f[1] \in {"replay", "resync"} THEN @ \cup {f} ELSE @]
          /\ UNCHANGED <<wr, conn>>
       \/ StopWriter(c) /\ UNCHANGED <<delivered, replayed>>
    /\ UNCHANGED <<tableVars, hubVars, rd, inbox, rp, rows, subs, closed, fatal,
                   sent, due, lost, passed>>

\* The channel is closed and drained: a close frame, and the writer returns.
WriteClose(c) ==
    /\ wr[c] = "run" /\ closed[c] /\ sendq[c] = <<>>
    /\ StopWriter(c)
    /\ UNCHANGED <<tableVars, hubVars, rd, inbox, rp, rows, subs, sendq, closed,
                   fatal, histVars>>

\* A ping that cannot be written: always on a closed connection, after the
\* write deadline on a stalled one.
PingError(c) ==
    /\ wr[c] = "run"
    /\ StopWriter(c)
    /\ UNCHANGED <<tableVars, hubVars, rd, inbox, rp, rows, subs, sendq, closed,
                   fatal, histVars>>

\* ORDER BY id
InOrder(S) ==
    [i \in 1..Cardinality(S) |-> CHOOSE n \in S : Cardinality({m \in S : m <= n}) = i]

\* Mutant: since is taken for the first event that was missed, and one more
\* is left out.
Missed_OffByOne(c, k) ==
    {n \in 1..Len(log) : /\ row[n] = "visible"
                         /\ log[n] = inbox[c][k].project
                         /\ n > inbox[c][k].since + 1}

\* The rows the query selects: those with id > since.
Missed(c, k) ==
    {n \in 1..Len(log) : /\ row[n] = "visible"
                         /\ log[n] = inbox[c][k].project
                         /\ n > inbox[c][k].since}

\* What ReplayEvents sends: as many rows as the LIMIT mean a single
\* resyncRequired.
Answer(c, k) ==
    IF Cardinality(Missed(c, k)) >= ReplayLimit
      THEN <<Resync(k)>>
      ELSE [i \in 1..Cardinality(Missed(c, k)) |-> Replay(k, InOrder(Missed(c, k))[i])]

\* The query of ReplayEvents; an error ends the goroutine.
ReplayQuery(c, k) ==
    /\ rp[c][k] = "query"
    /\ \/ /\ rows' = [rows EXCEPT ![c][k] = Answer(c, k)]
          /\ rp' = [rp EXCEPT ![c][k] = IF rows'[c][k] = <<>> THEN "done" ELSE "send"]
       \/ rp' = [rp EXCEPT ![c][k] = "failed"] /\ UNCHANGED rows
    /\ UNCHANGED <<tableVars, hubVars, conn, rd, inbox, wr, subs, sendq, closed,
                   fatal, histVars>>

\* One non-blocking send of ReplayEvents; a frame that does not fit is dropped.
\* On a closed channel it panics, in a goroutine of its own that nothing
\* recovers: the process dies.
ReplaySend(c, k) ==
    /\ rp[c][k] = "send"
    /\ \/ /\ closed[c]
          /\ fatal' = "sendOnClosed"
          /\ UNCHANGED <<sendq, rows, rp, lost>>
       \/ /\ ~closed[c]
          /\ sendq' = [sendq EXCEPT ![c] = TrySend(@, Head(rows[c][k]))]
          /\ lost' = [lost EXCEPT ![c] =
                IF sendq'[c] = sendq[c] THEN @ \cup {Head(rows[c][k])} ELSE @]
          /\ rows' = [rows EXCEPT ![c][k] = Tail(@)]
          /\ rp' = [rp EXCEPT ![c][k] = IF Len(rows[c][k]) = 1 THEN "done" ELSE "send"]
          /\ UNCHANGED fatal
    /\ UNCHANGED <<tableVars, hubVars, conn, rd, inbox, wr, subs, closed, sent,
                   due, delivered, replayed, passed>>
-----------------------------------------------------------------------------
HubStep == HubRegister \/ HubUnregister \/ HubTake \/ \E c \in Clients : HubVisit(c)

ReaderStep(c) ==
    Register(c) \/ WriteSubscription(c) \/ Acknowledge(c) \/ ReadError(c) \/ Leave(c)

WriterStep(c) ==
    \/ WriteFrame(c)
    \/ WriteClose(c)
    \/ conn[c] = "closed" /\ PingError(c)

ReplayStep(c) == \E k \in Replays : ReplayQuery(c, k) \/ ReplaySend(c, k)

\* The rest of the world: clients, write handlers, the admin console, and the
\* faults of the network and of the unsynchronised map.
Environment ==
    \/ \E p \in Projects : AppendEvent(p)
    \/ \E n \in 1..Len(log) : Appended(n) \/ Broadcast(n) \/ RunGC(n)
    \/ \E u \in Users, p \in Projects : AccessRevoked(u, p)
    \/ \E c \in Clients : \/ Connect(c) \/ Hangup(c) \/ PingError(c) \/ MapRace(c)
                          \/ \E m \in Messages : ReadMessage(c, m)

Next ==
    /\ Running
    /\ \/ HubStep
       \/ \E c \in Clients : ReaderStep(c) \/ WriterStep(c) \/ ReplayStep(c)
       \/ Environment

\* Goroutines that can run do run.  A peer need not read: the write deadline
\* makes WriteFrame and PingError return all the same.
Fairness ==
    /\ WF_vars(Running /\ HubStep)
    /\ \A c \in Clients : /\ WF_vars(Running /\ ReaderStep(c))
                          /\ WF_vars(Running /\ WriterStep(c))
                          /\ WF_vars(Running /\ ReplayStep(c))

Spec == Init /\ [][Next]_vars

FairSpec == Spec /\ Fairness
-----------------------------------------------------------------------------
(***************************************************************************)
(* Properties                                                              *)
(***************************************************************************)
\* Every variable stays in its type; no channel exceeds its capacity, and the
\* fan-out only visits registered clients.
TypeOK ==
    /\ register \in Seq(Clients) /\ Len(register) <= RegisterCap
    /\ unregister \in Seq(Clients) /\ Len(unregister) <= RegisterCap
    /\ broadcast \in Seq(1..MaxEvents) /\ Len(broadcast) <= BroadcastCap
    /\ clients \subseteq Clients
    /\ fan \in 0..MaxEvents
    /\ todo \subseteq clients /\ (fan = 0 <=> todo = {})
    /\ conn \in [Clients -> {"none", "up", "closed"}]
    /\ rd \in [Clients -> ReaderStates]
    /\ inbox \in [Clients -> Seq(Messages)]
    /\ \A c \in Clients : Len(inbox[c]) <= MaxMessages
    /\ wr \in [Clients -> {"none", "run", "gone"}]
    /\ rp \in [Clients -> [Replays -> {"none", "query", "send", "done", "failed"}]]
    /\ rows \in [Clients -> [Replays -> Seq(Frames)]]
    /\ subs \in [Clients -> SUBSET Projects]
    /\ sendq \in [Clients -> Seq(Frames)]
    /\ \A c \in Clients : Len(sendq[c]) <= SendCap
    /\ closed \in [Clients -> BOOLEAN]
    /\ fatal \in {"no", "mapRace", "sendOnClosed"}
    /\ log \in Seq(Projects) /\ Len(log) <= MaxEvents
    /\ pub \in [1..Len(log) -> {"append", "send", "done"}]
    /\ row \in [1..Len(log) -> {"none", "visible", "deleted"}]
    /\ gcs \in 0..MaxGCs
    /\ sent \in Seq(1..MaxEvents)
    /\ due \in [Clients -> Seq(1..MaxEvents)]
    /\ delivered \in [Clients -> Seq(1..MaxEvents)]
    /\ replayed \in [Clients -> SUBSET Frames]
    /\ lost \in [Clients -> SUBSET Frames]
    /\ passed \in [Clients -> SUBSET (1..MaxEvents)]

\* The hub never sends on a closed channel and never closes one twice, though
\* it may drop a client as slow and be asked to unregister it later: while a
\* client is in h.clients its channel is open.
RegisteredIsOpen == \A c \in clients : ~closed[c]

\* The strengthening that makes RegisteredIsOpen inductive: a client is put on
\* hub.register once, before it is in the map and before its channel is closed.
RegistersOnce ==
    /\ \A c \in Clients : rd[c] \in {"none", "register"} =>
          /\ c \notin clients /\ ~closed[c]
          /\ \A i \in 1..Len(register) : register[i] # c
    /\ \A i \in 1..Len(register) :
          register[i] \notin clients /\ ~closed[register[i]]
    /\ \A i, j \in 1..Len(register) : register[i] = register[j] => i = j

\* A client receives a prefix of the events fanned out to it, in the order in
\* which they were broadcast: dropping slow clients, broken writes and
\* concurrent sends by the reader, the replays and the admin console never
\* make a gap, a repetition or a reordering in its live feed.
LiveFeedHasNoGap ==
    \A c \in Clients :
        /\ Len(delivered[c]) <= Len(due[c])
        /\ \A i \in 1..Len(delivered[c]) : delivered[c][i] = due[c][i]
        /\ \A i, j \in 1..Len(due[c]) : i < j =>
              \E x, y \in 1..Len(sent) :
                  x < y /\ sent[x] = due[c][i] /\ sent[y] = due[c][j]

\* The connection still stands on both sides.
Alive(c) ==
    /\ conn[c] = "up" /\ ~closed[c] /\ wr[c] = "run"
    /\ rd[c] \notin {"leave", "gone"}

\* Replays that were answered and whose subscription has not been ended since.
Answered(c) ==
    {k \in 1..Len(inbox[c]) :
        /\ rp[c][k] \in {"send", "done"}
        /\ \A j \in (k + 1)..Len(inbox[c]) :
              inbox[c][j].type = "unsubscribe" => inbox[c][j].project # inbox[c][k].project}

\* Frames c has been written or has waiting for it: in c.send, or with a
\* replay that has yet to send them.
Sent(c) ==
    {Event(delivered[c][i]) : i \in 1..Len(delivered[c])}
    \cup {sendq[c][i] : i \in 1..Len(sendq[c])} \cup replayed[c]
    \cup UNION {{rows[c][k][i] : i \in 1..Len(rows[c][k])} : k \in Replays}

\* The fan-out of event n has not come to c yet.
Coming(c, n) ==
    \/ pub[n] # "done"
    \/ \E i \in 1..Len(broadcast) : broadcast[i] = n
    \/ fan = n /\ c \in todo

\* Replay k of c accounts for the events in S: it told c to resync, or each of
\* them was sent to c, live or by the replay, or is coming.  Two things may
\* come in between: c.send was full when the replay came to send the frame
\* (lost), or the hub fanned the event out before it had registered c (passed).
Covers(c, k, S) ==
    \/ Resync(k) \in Sent(c) \cup lost[c]
    \/ \A n \in S :
          (log[n] = inbox[c][k].project /\ n > inbox[c][k].since) =>
              \/ {Event(n), Replay(k, n)} \cap Sent(c) # {}
              \/ Coming(c, n)
              \/ Replay(k, n) \in lost[c]
              \/ n \in passed[c]

\* A replay and the live feed leave no gap between them: however the query
\* falls between the draws of ids, the commits and the broadcasts, every later
\* event of the project that is in the table is sent by the replay or by the
\* live feed, or the replay tells the client to resync.  The code leaves two
\* ways to miss one all the same: the frame of the replay, a resync too, is
\* dropped when c.send is full, and an event that is fanned out after the query
\* but before the hub has registered the client reaches it neither way.
NothingSkipped ==
    \A c \in Clients : Alive(c) =>
        \A k \in Answered(c) :
            Covers(c, k, {n \in 1..Len(log) : row[n] = "visible"})

\* Slow or stuck clients never block the hub: the fan-out of every event that
\* is broadcast eventually ends, whatever the clients do.
EventsAreTaken ==
    \A n \in 1..MaxEvents :
        LET pending == fan = n \/ \E i \in 1..Len(broadcast) : broadcast[i] = n IN
        pending ~> (~pending \/ ~Running)

\* No goroutine outlives its connection: when it is closed, by the peer, by a
\* failed write or because the hub dropped a slow client, the reader and the
\* writer both return.
ClosedConnectionsEnd ==
    \A c \in Clients :
        (conn[c] = "closed" \/ closed[c]) ~>
            ((rd[c] = "gone" /\ wr[c] = "gone") \/ ~Running)
-----------------------------------------------------------------------------
(***************************************************************************)
(* What the comments say and the code does not do                          *)
(***************************************************************************)
\* hub.go: "Slow client: drop the frame and unregister."  Dropping a client
\* is meant to end its connection, not the process: the replay goroutine may
\* still be sending on the channel the hub closes.
DroppingIsHarmless == fatal # "sendOnClosed"

\* RemoteSync.md: "If the gap is too large (server has GC'd older events) the
\* server responds with a resyncRequired event".  ReplayEvents only looks at
\* the number of rows that are left.
GapIsReported ==
    \A c \in Clients : Alive(c) =>
        \A k \in Answered(c) :
            Covers(c, k, {n \in 1..Len(log) : row[n] \in {"visible", "deleted"}})
=============================================================================
