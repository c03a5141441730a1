----------------------------- MODULE HubProofs -----------------------------
(***************************************************************************)
(* For any number of connections and any channel capacities: the hub never *)
(* sends on a closed channel, a live feed has no gap and keeps the order   *)
(* of the broadcasts, and a replay and the live feed together skip nothing *)
(* that is in the table.                                                   *)
(***************************************************************************)
EXTENDS Hub, FiniteSetTheorems, TLAPS

\* The types of the variables that the argument is about.
HubTypes ==
    /\ register \in Seq(Clients) /\ unregister \in Seq(Clients)
    /\ broadcast \in Seq(Nat \ {0}) /\ log \in Seq(Projects)
    /\ clients \subseteq Clients /\ todo \subseteq clients
    /\ fan = 0 => todo = {}
    /\ rd \in [Clients -> ReaderStates]
    /\ closed \in [Clients -> BOOLEAN]

HubInv == HubTypes /\ RegisteredIsOpen /\ RegistersOnce

\* The variables above.
core == <<register, unregister, broadcast, log, clients, fan, todo, rd, closed>>

\* The hub starts without clients, and with no channel closed.
LEMMA InitHub == Init => HubInv
<1> SUFFICES ASSUME Init PROVE HubInv
  OBVIOUS
<1>1. HubTypes
  BY DEF Init, HubTypes, ReaderStates
<1>2. RegisteredIsOpen /\ RegistersOnce
  BY DEF Init, RegisteredIsOpen, RegistersOnce
<1> QED
  BY <1>1, <1>2 DEF HubInv

\* A step that changes none of these variables.
LEMMA CoreUnchanged == HubInv /\ UNCHANGED core => HubInv'
BY DEF HubInv, HubTypes, RegisteredIsOpen, RegistersOnce, core

\* A reader that moves on after it has registered.
LEMMA ReaderMoves ==
    ASSUME HubInv, NEW c \in Clients, NEW s \in ReaderStates \ {"none"},
           rd[c] = "none" \/ s # "register",
           rd' = [rd EXCEPT ![c] = s],
           rd[c] = "register" => s = "register",
           UNCHANGED <<register, broadcast, log, clients, fan, todo, closed>>,
           unregister' \in Seq(Clients)
    PROVE  HubInv'
<1>1. HubTypes'
  BY DEF HubInv, HubTypes
<1>2. RegisteredIsOpen'
  BY DEF HubInv, RegisteredIsOpen
<1>3. \A x \in Clients : rd'[x] \in {"none", "register"} => rd[x] \in {"none", "register"}
  BY DEF HubInv, HubTypes
<1>4. RegistersOnce'
  BY <1>3 DEF HubInv, RegistersOnce
<1> QED
  BY <1>1, <1>2, <1>4 DEF HubInv

\* Dropping a client that is in the map.
LEMMA DropKeeps ==
    ASSUME HubInv, NEW c \in clients, Drop(c),
           UNCHANGED <<register, broadcast, log, rd>>, unregister' \in Seq(Clients),
           todo' \subseteq todo \ {c}, fan' = 0 => todo' = {}
    PROVE  HubInv'
<1>1. HubTypes'
  BY DEF HubInv, HubTypes, Drop
<1>2. \A x \in Clients \ {c} : closed'[x] = closed[x]
  BY DEF HubInv, HubTypes, Drop
<1>3. RegisteredIsOpen'
  BY <1>2 DEF HubInv, HubTypes, RegisteredIsOpen, Drop
<1>4. \A i \in 1..Len(register) : register[i] \in Clients /\ register[i] # c
  BY DEF HubInv, HubTypes, RegistersOnce
<1>5. rd[c] \notin {"none", "register"}
  BY DEF HubInv, HubTypes, RegistersOnce
<1>6. RegistersOnce'
  BY <1>2, <1>4, <1>5 DEF HubInv, HubTypes, RegistersOnce, Drop
<1> QED
  BY <1>1, <1>3, <1>6 DEF HubInv

\* Every step of the hub, of a connection or of the environment.
LEMMA NextHub == HubInv /\ [Next]_vars => HubInv'
<1> SUFFICES ASSUME HubInv, [Next]_vars PROVE HubInv'
  OBVIOUS
<1> USE DEF tableVars, hubVars, connVars, histVars
<1>1. CASE HubRegister
  <2> DEFINE c == Head(register)
  <2>1. /\ register \in Seq(Clients) /\ register # <<>>
        /\ c = register[1] /\ c \in Clients /\ 1 \in 1..Len(register)
    BY <1>1 DEF HubRegister, HubInv, HubTypes
  <2>2. ~closed[c] /\ rd[c] \notin {"none", "register"}
    BY <2>1 DEF HubInv, RegistersOnce
  <2>3. /\ register' \in Seq(Clients)
        /\ Len(register') = Len(register) - 1
        /\ \A i \in 1..Len(register') :
              register'[i] = register[i + 1] /\ i + 1 \in 1..Len(register)
    BY <1>1, <2>1 DEF HubRegister
  <2>4. \A i \in 1..Len(register') : register'[i] # c
    BY <2>1, <2>3 DEF HubInv, RegistersOnce
  <2>5. /\ clients' = clients \cup {c}
        /\ UNCHANGED <<unregister, broadcast, log, fan, todo, rd, closed>>
    BY <1>1 DEF HubRegister
  <2> HIDE DEF c
  <2>6. HubTypes'
    BY <2>1, <2>3, <2>5 DEF HubInv, HubTypes
  <2>7. RegisteredIsOpen'
    BY <2>2, <2>5 DEF HubInv, RegisteredIsOpen
  <2>8. RegistersOnce'
    <3>1. \A x \in Clients : rd'[x] \in {"none", "register"} =>
             /\ x \notin clients' /\ ~closed'[x]
             /\ \A i \in 1..Len(register') : register'[i] # x
      BY <2>2, <2>3, <2>5 DEF HubInv, RegistersOnce
    <3>2. \A i \in 1..Len(register') :
             register'[i] \notin clients' /\ ~closed'[register'[i]]
      BY <2>3, <2>4, <2>5 DEF HubInv, RegistersOnce
    <3>3. \A i, j \in 1..Len(register') : register'[i] = register'[j] => i = j
      BY <2>1, <2>3 DEF HubInv, RegistersOnce
    <3> QED
      BY <3>1, <3>2, <3>3 DEF RegistersOnce
  <2> QED
    BY <2>6, <2>7, <2>8 DEF HubInv
<1>2. CASE HubUnregister
  <2>1. unregister' \in Seq(Clients)
    BY <1>2 DEF HubUnregister, HubInv, HubTypes
  <2>2. CASE Head(unregister) \in clients /\ Drop(Head(unregister))
    <3>1. todo = {} /\ fan = 0
      BY <1>2 DEF HubUnregister, HubInv, HubTypes
    <3> QED
      BY <1>2, <2>1, <2>2, <3>1, DropKeeps DEF HubUnregister
  <2>3. CASE UNCHANGED <<clients, closed>>
    BY <1>2, <2>1, <2>3 DEF HubUnregister, HubInv, HubTypes, RegisteredIsOpen, RegistersOnce
  <2> QED
    BY <1>2, <2>2, <2>3 DEF HubUnregister
<1>3. CASE HubTake
  <2>1. broadcast' \in Seq(Nat \ {0}) /\ Head(broadcast) # 0
    BY <1>3 DEF HubTake, HubInv, HubTypes
  <2> QED
    BY <1>3, <2>1
    DEF HubTake, HubInv, HubTypes, RegisteredIsOpen, RegistersOnce
<1>4. ASSUME NEW c \in Clients, HubVisit(c) PROVE HubInv'
  <2>1. c \in clients /\ fan # 0
    BY <1>4 DEF HubVisit, HubInv, HubTypes
  <2>2. /\ todo' = todo \ {c} /\ (fan' = 0 => todo' = {})
        /\ UNCHANGED <<register, unregister, broadcast, log, rd>>
    BY <1>4, <2>1 DEF HubVisit
  <2>3. CASE Drop(c)
    BY <2>1, <2>2, <2>3, DropKeeps DEF HubInv, HubTypes
  <2>4. CASE UNCHANGED <<clients, closed>>
    BY <2>2, <2>4 DEF HubInv, HubTypes, RegisteredIsOpen, RegistersOnce
  <2> QED
    BY <1>4, <2>3, <2>4 DEF HubVisit, Deliver
<1>5. ASSUME NEW c \in Clients, Register(c) PROVE HubInv'
  <2> DEFINE n == Len(register)
  <2>1. /\ register \in Seq(Clients) /\ n \in Nat
        /\ rd[c] = "register"
        /\ UNCHANGED <<unregister, broadcast, log, clients, fan, todo, closed>>
    BY <1>5 DEF Register, HubInv, HubTypes
  <2>2. c \notin clients /\ ~closed[c] /\ \A i \in 1..n : register[i] # c
    BY <2>1 DEF HubInv, RegistersOnce
  <2>3. /\ register' \in Seq(Clients) /\ Len(register') = n + 1
        /\ register'[n + 1] = c
        /\ \A i \in 1..n : register'[i] = register[i]
    BY <1>5, <2>1 DEF Register
  <2>4. /\ rd' \in [Clients -> ReaderStates] /\ rd'[c] = "read"
        /\ \A x \in Clients \ {c} : rd'[x] = rd[x]
    BY <1>5 DEF Register, HubInv, HubTypes, ReaderStates
  <2>5. \A i \in 1..Len(register') : i \in 1..n \/ i = n + 1
    BY <2>1, <2>3
  <2>6. HubTypes' /\ RegisteredIsOpen'
    BY <2>1, <2>3, <2>4 DEF HubInv, HubTypes, RegisteredIsOpen
  <2>7. RegistersOnce'
    <3>1. \A x \in Clients : rd'[x] \in {"none", "register"} =>
             /\ x \notin clients' /\ ~closed'[x]
             /\ \A i \in 1..Len(register') : register'[i] # x
      BY <2>1, <2>3, <2>4, <2>5 DEF HubInv, RegistersOnce
    <3>2. \A i \in 1..Len(register') :
             register'[i] \notin clients' /\ ~closed'[register'[i]]
      BY <2>1, <2>2, <2>3, <2>5 DEF HubInv, RegistersOnce
    <3>3. \A i, j \in 1..Len(register') : register'[i] = register'[j] => i = j
      BY <2>2, <2>3, <2>5 DEF HubInv, RegistersOnce
    <3> QED
      BY <3>1, <3>2, <3>3 DEF RegistersOnce
  <2> QED
    BY <2>6, <2>7 DEF HubInv
<1>6. ASSUME NEW c \in Clients, Connect(c) PROVE HubInv'
  BY <1>6, ReaderMoves DEF Connect, HubInv, HubTypes, ReaderStates
<1>7. ASSUME NEW c \in Clients, Leave(c) PROVE HubInv'
  <2>1. unregister' \in Seq(Clients)
    BY <1>7 DEF Leave, HubInv, HubTypes
  <2> QED
    BY <1>7, <2>1, ReaderMoves DEF Leave, ReaderStates
<1>8. ASSUME NEW c \in Clients, NEW m, ReadMessage(c, m) PROVE HubInv'
  BY <1>8, ReaderMoves DEF ReadMessage, HubInv, HubTypes, ReaderStates
<1>9. ASSUME NEW c \in Clients,
             WriteSubscription(c) \/ Acknowledge(c) \/ ReadError(c)
      PROVE  HubInv'
  <2>1. PICK s \in {"ack", "read", "leave"} : rd' = [rd EXCEPT ![c] = s]
    BY <1>9 DEF WriteSubscription, Acknowledge, ReadError
  <2>2. rd[c] \notin {"none", "register"}
    BY <1>9 DEF WriteSubscription, Acknowledge, ReadError
  <2>3. UNCHANGED <<register, unregister, broadcast, log, clients, fan, todo, closed>>
    BY <1>9 DEF WriteSubscription, Acknowledge, ReadError
  <2> QED
    BY <2>1, <2>2, <2>3, ReaderMoves DEF HubInv, HubTypes, ReaderStates
<1>10. ASSUME NEW c \in Clients,
              \/ WriterStep(c) \/ ReplayStep(c)
              \/ Hangup(c) \/ PingError(c) \/ MapRace(c)
       PROVE  HubInv'
  <2>1. UNCHANGED core
    BY <1>10 DEF WriterStep, ReplayStep, WriteFrame, WriteClose, PingError, StopWriter,
                 ReplayQuery, ReplaySend, Hangup, MapRace, core
  <2> QED
    BY <2>1, CoreUnchanged
<1>11. ASSUME NEW n \in 1..Len(log), Broadcast(n) PROVE HubInv'
  <2>1. broadcast' \in Seq(Nat \ {0})
    <3>1. n \in Nat \ {0}
      BY DEF HubInv, HubTypes
    <3> QED
      BY <1>11, <3>1 DEF Broadcast, HubInv, HubTypes
  <2> QED
    BY <1>11, <2>1
    DEF Broadcast, HubInv, HubTypes, RegisteredIsOpen, RegistersOnce
<1>12. ASSUME NEW u, NEW p, AccessRevoked(u, p) PROVE HubInv'
  <2>1. UNCHANGED core
    BY <1>12 DEF AccessRevoked, core
  <2> QED
    BY <2>1, CoreUnchanged
<1>13. CASE UNCHANGED vars
  <2>1. UNCHANGED core
    BY <1>13 DEF vars, core
  <2> QED
    BY <2>1, CoreUnchanged
<1>14. ASSUME NEW p \in Projects, AppendEvent(p) PROVE HubInv'
  <2>1. log' \in Seq(Projects)
    BY <1>14 DEF AppendEvent, HubInv, HubTypes
  <2> QED
    BY <1>14, <2>1
    DEF AppendEvent, HubInv, HubTypes, RegisteredIsOpen, RegistersOnce
<1>15. ASSUME NEW n \in 1..Len(log), Appended(n) \/ RunGC(n) PROVE HubInv'
  <2>1. UNCHANGED core
    BY <1>15 DEF Appended, RunGC, core
  <2> QED
    BY <2>1, CoreUnchanged
<1> QED
  BY <1>1, <1>2, <1>3, <1>4, <1>5, <1>6, <1>7, <1>8, <1>9, <1>10, <1>11, <1>12, <1>13,
     <1>14, <1>15
  DEF Next, HubStep, ReaderStep, Environment

\* While a client is in h.clients its channel is open: no sequence of slow
\* drops, registrations and unregistrations makes the hub send on a closed
\* channel or close one twice.
THEOREM RegisteredStaysOpen == Spec => []RegisteredIsOpen
<1>1. Init => HubInv
  BY InitHub
<1>2. HubInv /\ [Next]_vars => HubInv'
  BY NextHub
<1>3. HubInv => RegisteredIsOpen
  BY DEF HubInv
<1> QED
  BY <1>1, <1>2, <1>3, PTL DEF Spec
-----------------------------------------------------------------------------
(***************************************************************************)
(* Types                                                                   *)
(***************************************************************************)
\* The parts of TypeOK, and what else their induction needs: a reader that
\* handles a message has one, and a replay that sends has something to send.
ChanTypes ==
    /\ register \in Seq(Clients) /\ Len(register) <= RegisterCap
    /\ unregister \in Seq(Clients) /\ Len(unregister) <= RegisterCap
    /\ broadcast \in Seq(1..MaxEvents) /\ Len(broadcast) <= BroadcastCap
    /\ clients \subseteq Clients
    /\ fan \in 0..MaxEvents
    /\ todo \subseteq clients /\ (fan = 0 <=> todo = {})

TableTypes ==
    /\ log \in Seq(Projects) /\ Len(log) <= MaxEvents
    /\ pub \in [1..Len(log) -> {"append", "send", "done"}]
    /\ row \in [1..Len(log) -> {"none", "visible", "deleted"}]
    /\ gcs \in 0..MaxGCs
    /\ sent \in Seq(1..MaxEvents)

ConnTypes ==
    /\ conn \in [Clients -> {"none", "up", "closed"}]
    /\ wr \in [Clients -> {"none", "run", "gone"}]
    /\ closed \in [Clients -> BOOLEAN]
    /\ fatal \in {"no", "mapRace", "sendOnClosed"}

ReaderTypes ==
    /\ rd \in [Clients -> ReaderStates]
    /\ inbox \in [Clients -> Seq(Messages)]
    /\ \A c \in Clients : Len(inbox[c]) <= MaxMessages
    /\ subs \in [Clients -> SUBSET Projects]
    /\ \A c \in Clients : rd[c] \in {"mapWrite", "ack"} => inbox[c] # <<>>

ReplayFrames == ({"replay"} \X Replays \X (1..MaxEvents)) \cup ({"resync"} \X Replays)

ReplayTypes ==
    /\ rp \in [Clients -> [Replays -> {"none", "query", "send", "done", "failed"}]]
    /\ rows \in [Clients -> [Replays -> Seq(ReplayFrames)]]
    /\ \A c \in Clients : \A k \in Replays :
          /\ rp[c][k] = "send" => rows[c][k] # <<>>
          /\ rp[c][k] # "none" => k <= Len(inbox[c])

QueueTypes ==
    /\ sendq \in [Clients -> Seq(Frames)]
    /\ \A c \in Clients : Len(sendq[c]) <= SendCap

HistTypes ==
    /\ due \in [Clients -> Seq(1..MaxEvents)]
    /\ delivered \in [Clients -> Seq(1..MaxEvents)]
    /\ replayed \in [Clients -> SUBSET Frames]
    /\ lost \in [Clients -> SUBSET ReplayFrames]
    /\ passed \in [Clients -> SUBSET (1..MaxEvents)]

TypeInv ==
    /\ ChanTypes /\ TableTypes /\ ConnTypes /\ ReaderTypes /\ ReplayTypes
    /\ QueueTypes /\ HistTypes

\* Receiving from a channel.
LEMMA TailFacts ==
    ASSUME NEW S, NEW s \in Seq(S), s # <<>>
    PROVE  /\ Tail(s) \in Seq(S) /\ Head(s) \in S /\ Head(s) = s[1]
           /\ Len(s) \in Nat /\ Len(s) >= 1 /\ Len(Tail(s)) = Len(s) - 1
           /\ \A i \in 1..(Len(s) - 1) : Tail(s)[i] = s[i + 1]
OBVIOUS

\* Sending to a channel.
LEMMA AppendFacts ==
    ASSUME NEW S, NEW s \in Seq(S), NEW x \in S
    PROVE  /\ Append(s, x) \in Seq(S)
           /\ Len(s) \in Nat /\ Len(Append(s, x)) = Len(s) + 1
           /\ Append(s, x)[Len(s) + 1] = x
           /\ \A i \in 1..Len(s) : Append(s, x)[i] = s[i]
OBVIOUS

\* An empty channel holds nothing.
LEMMA EmptyLen == ASSUME NEW s, s = <<>> PROVE Len(s) = 0
OBVIOUS

\* A function on 1..n is a sequence.
LEMMA FunctionIsSeq ==
    ASSUME NEW S, NEW n \in Nat, NEW f \in [1..n -> S]
    PROVE  f \in Seq(S) /\ Len(f) = n
OBVIOUS

\* The parts say at least as much as the whole.
LEMMA TypesSuffice == TypeInv => TypeOK
<1> SUFFICES ASSUME TypeInv PROVE TypeOK
  OBVIOUS
<1>1. ReplayFrames \subseteq Frames
  BY DEF ReplayFrames, Frames
<1>2. ASSUME NEW c \in Clients, NEW k \in Replays PROVE rows[c][k] \in Seq(Frames)
  <2>1. rows[c][k] \in Seq(ReplayFrames)
    BY DEF TypeInv, ReplayTypes
  <2> QED
    BY <1>1, <2>1
<1>3. rows \in [Clients -> [Replays -> Seq(Frames)]]
  BY <1>2 DEF TypeInv, ReplayTypes
<1>4. ChanTypes /\ TableTypes /\ ConnTypes /\ ReaderTypes /\ QueueTypes /\ HistTypes
  BY DEF TypeInv
<1>5. rp \in [Clients -> [Replays -> {"none", "query", "send", "done", "failed"}]]
  BY DEF TypeInv, ReplayTypes
<1>6. lost \in [Clients -> SUBSET Frames]
  BY <1>1 DEF TypeInv, HistTypes
<1> QED
  BY <1>3, <1>4, <1>5, <1>6
  DEF TypeOK, ChanTypes, TableTypes, ConnTypes, ReaderTypes, QueueTypes, HistTypes

\* The variables start in their types.
LEMMA InitTypes == Init => TypeInv
<1> SUFFICES ASSUME Init PROVE TypeInv
  OBVIOUS
<1>1. ChanTypes
  BY HubAssumption DEF Init, ChanTypes
<1>2. TableTypes
  BY HubAssumption DEF Init, TableTypes
<1>3. ConnTypes /\ HistTypes
  BY DEF Init, ConnTypes, HistTypes
<1>4. ReaderTypes
  BY HubAssumption DEF Init, ReaderTypes, ReaderStates
<1>5. ReplayTypes
  BY DEF Init, ReplayTypes
<1>6. QueueTypes
  BY HubAssumption DEF Init, QueueTypes
<1> QED
  BY <1>1, <1>2, <1>3, <1>4, <1>5, <1>6 DEF TypeInv

\* The channels of the hub.
LEMMA ChanKeeps == ASSUME TypeInv, Next PROVE ChanTypes'
<1> USE DEF tableVars, hubVars, connVars, histVars
<1>0. ChanTypes
  BY DEF TypeInv
<1>1. CASE HubRegister
  <2>1. /\ register' \in Seq(Clients) /\ Len(register') <= RegisterCap
        /\ Head(register) \in Clients
    BY <1>0, <1>1, HubAssumption DEF HubRegister, ChanTypes
  <2> QED
    BY <1>0, <1>1, <2>1 DEF HubRegister, ChanTypes
<1>2. CASE HubUnregister
  <2>1. unregister' \in Seq(Clients) /\ Len(unregister') <= RegisterCap
    BY <1>0, <1>2, HubAssumption DEF HubUnregister, ChanTypes
  <2>2. todo = {}
    BY <1>0, <1>2 DEF HubUnregister, ChanTypes
  <2> QED
    BY <1>0, <1>2, <2>1, <2>2 DEF HubUnregister, ChanTypes, Drop
<1>3. CASE HubTake
  <2>1. /\ broadcast' \in Seq(1..MaxEvents) /\ Len(broadcast') <= BroadcastCap
        /\ Head(broadcast) \in 1..MaxEvents
    <3>1. broadcast \in Seq(1..MaxEvents) /\ broadcast # <<>> /\ broadcast' = Tail(broadcast)
      BY <1>0, <1>3 DEF HubTake, ChanTypes
    <3>2. Len(broadcast) <= BroadcastCap /\ BroadcastCap \in Nat
      BY <1>0, HubAssumption DEF ChanTypes
    <3>3. /\ Tail(broadcast) \in Seq(1..MaxEvents) /\ Head(broadcast) \in 1..MaxEvents
          /\ Len(broadcast) \in Nat /\ Len(Tail(broadcast)) = Len(broadcast) - 1
      BY <3>1, TailFacts
    <3> QED
      BY <3>1, <3>2, <3>3
  <2>2. /\ clients' = clients /\ todo' = clients
        /\ fan' = IF clients = {} THEN 0 ELSE Head(broadcast)
        /\ UNCHANGED <<register, unregister>>
    BY <1>3 DEF HubTake
  <2>3. fan' \in 0..MaxEvents /\ (fan' = 0 <=> todo' = {})
    BY <2>1, <2>2, HubAssumption
  <2> QED
    BY <1>0, <2>1, <2>2, <2>3 DEF ChanTypes
<1>4. ASSUME NEW c \in Clients, HubVisit(c) PROVE ChanTypes'
  <2>1. UNCHANGED <<register, unregister, broadcast>>
    BY <1>4 DEF HubVisit
  <2>2. fan # 0 /\ todo' = todo \ {c} /\ fan' = IF todo = {c} THEN 0 ELSE fan
    BY <1>0, <1>4 DEF HubVisit, ChanTypes
  <2>3. clients' \in {clients, clients \ {c}}
    BY <1>4 DEF HubVisit, Deliver, Drop
  <2>4. todo' = {} <=> todo = {c}
    BY <1>4, <2>2 DEF HubVisit
  <2> QED
    BY <1>0, <2>1, <2>2, <2>3, <2>4, HubAssumption DEF ChanTypes
<1>5. ASSUME NEW c \in Clients, Register(c) PROVE ChanTypes'
  <2>1. register' \in Seq(Clients) /\ Len(register') <= RegisterCap
    BY <1>0, <1>5, HubAssumption DEF Register, ChanTypes
  <2> QED
    BY <1>0, <1>5, <2>1 DEF Register, ChanTypes
<1>6. ASSUME NEW c \in Clients, Leave(c) PROVE ChanTypes'
  <2>1. unregister' \in Seq(Clients) /\ Len(unregister') <= RegisterCap
    BY <1>0, <1>6, HubAssumption DEF Leave, ChanTypes
  <2> QED
    BY <1>0, <1>6, <2>1 DEF Leave, ChanTypes
<1>7. ASSUME NEW n \in 1..Len(log), Broadcast(n) PROVE ChanTypes'
  <2>1. n \in 1..MaxEvents
    BY HubAssumption DEF TypeInv, TableTypes
  <2>2. broadcast' \in Seq(1..MaxEvents) /\ Len(broadcast') <= BroadcastCap
    BY <1>0, <1>7, <2>1, HubAssumption DEF Broadcast, ChanTypes
  <2> QED
    BY <1>0, <1>7, <2>2 DEF Broadcast, ChanTypes
<1>8. CASE UNCHANGED hubVars
  BY <1>0, <1>8 DEF ChanTypes
<1>9. ASSUME NEW c \in Clients,
             \/ WriteSubscription(c) \/ Acknowledge(c) \/ ReadError(c)
             \/ WriterStep(c) \/ ReplayStep(c)
             \/ Connect(c) \/ Hangup(c) \/ PingError(c) \/ MapRace(c)
             \/ \E m \in Messages : ReadMessage(c, m)
      PROVE  UNCHANGED hubVars
  BY <1>9 DEF WriteSubscription, Acknowledge, ReadError, WriterStep, WriteFrame, WriteClose,
              ReplayStep, ReplayQuery, ReplaySend, Connect, Hangup, PingError, MapRace,
              ReadMessage
<1>10. ASSUME NEW n \in 1..Len(log), Appended(n) \/ RunGC(n) PROVE UNCHANGED hubVars
  BY <1>10 DEF Appended, RunGC
<1>11. ASSUME NEW u, NEW p, AppendEvent(p) \/ AccessRevoked(u, p) PROVE UNCHANGED hubVars
  BY <1>11 DEF AppendEvent, AccessRevoked
<1> QED
  BY <1>1, <1>2, <1>3, <1>4, <1>5, <1>6, <1>7, <1>8, <1>9, <1>10, <1>11
  DEF Next, HubStep, ReaderStep, Environment

\* Who changes what.
LEMMA TableChanges ==
    ASSUME Next
    PROVE  \/ UNCHANGED <<log, pub, row, gcs, sent>>
           \/ \E p \in Projects : AppendEvent(p)
           \/ \E n \in 1..Len(log) : Appended(n) \/ Broadcast(n) \/ RunGC(n)
<1> USE DEF tableVars, hubVars, connVars, histVars
<1>1. HubStep => UNCHANGED <<log, pub, row, gcs, sent>>
  BY DEF HubStep, HubRegister, HubUnregister, HubTake, HubVisit
<1>2. ASSUME NEW c \in Clients, ReaderStep(c) \/ WriterStep(c) \/ ReplayStep(c)
      PROVE  UNCHANGED <<log, pub, row, gcs, sent>>
  BY <1>2 DEF ReaderStep, Register, WriteSubscription, Acknowledge, ReadError, Leave,
              WriterStep, WriteFrame, WriteClose, PingError, ReplayStep, ReplayQuery, ReplaySend
<1>3. ASSUME NEW c \in Clients,
             \/ Connect(c) \/ Hangup(c) \/ PingError(c) \/ MapRace(c)
             \/ \E m \in Messages : ReadMessage(c, m)
      PROVE  UNCHANGED <<log, pub, row, gcs, sent>>
  BY <1>3 DEF Connect, Hangup, PingError, MapRace, ReadMessage
<1>4. ASSUME NEW u, NEW p, AccessRevoked(u, p) PROVE UNCHANGED <<log, pub, row, gcs, sent>>
  BY <1>4 DEF AccessRevoked
<1> QED
  BY <1>1, <1>2, <1>3, <1>4 DEF Next, Environment

\* The events table.
LEMMA TableKeeps == ASSUME TypeInv, Next PROVE TableTypes'
<1> USE DEF tableVars, hubVars, connVars, histVars
<1>0. TableTypes
  BY DEF TypeInv
<1>1. ASSUME NEW p \in Projects, AppendEvent(p) PROVE TableTypes'
  <2>1. /\ log' \in Seq(Projects) /\ Len(log') = Len(log) + 1 /\ Len(log') <= MaxEvents
    BY <1>0, <1>1, HubAssumption DEF AppendEvent, TableTypes
  <2>2. /\ pub \in Seq({"append", "send", "done"}) /\ Len(pub) = Len(log)
        /\ row \in Seq({"none", "visible", "deleted"}) /\ Len(row) = Len(log)
        /\ Len(log) \in Nat
    <3>1. /\ pub \in [1..Len(log) -> {"append", "send", "done"}] /\ Len(log) \in Nat
          /\ row \in [1..Len(log) -> {"none", "visible", "deleted"}]
      BY <1>0 DEF TableTypes
    <3> QED
      BY <3>1, FunctionIsSeq
  <2>3. /\ pub' \in Seq({"append", "send", "done"}) /\ Len(pub') = Len(log')
        /\ row' \in Seq({"none", "visible", "deleted"}) /\ Len(row') = Len(log')
    BY <1>1, <2>1, <2>2 DEF AppendEvent
  <2>4. /\ pub' \in [1..Len(log') -> {"append", "send", "done"}]
        /\ row' \in [1..Len(log') -> {"none", "visible", "deleted"}]
    BY <2>3
  <2>5. UNCHANGED <<gcs, sent>>
    BY <1>1 DEF AppendEvent
  <2> QED
    BY <1>0, <2>1, <2>4, <2>5 DEF TableTypes
<1>2. ASSUME NEW n \in 1..Len(log), Appended(n) PROVE TableTypes'
  BY <1>0, <1>2 DEF Appended, TableTypes
<1>3. ASSUME NEW n \in 1..Len(log), Broadcast(n) PROVE TableTypes'
  <2>1. n \in 1..MaxEvents
    BY <1>0, HubAssumption DEF TableTypes
  <2>2. sent' \in Seq(1..MaxEvents)
    BY <1>0, <1>3, <2>1, AppendFacts DEF Broadcast, TableTypes
  <2> QED
    BY <1>0, <1>3, <2>2 DEF Broadcast, TableTypes
<1>4. ASSUME NEW n \in 1..Len(log), RunGC(n) PROVE TableTypes'
  BY <1>0, <1>4, HubAssumption DEF RunGC, TableTypes
<1>5. CASE UNCHANGED <<log, pub, row, gcs, sent>>
  BY <1>0, <1>5 DEF TableTypes
<1> QED
  BY <1>1, <1>2, <1>3, <1>4, <1>5, TableChanges

\* The connections and their writers.
LEMMA ConnKeeps == ASSUME TypeInv, Next PROVE ConnTypes'
<1> USE DEF tableVars, hubVars, connVars, histVars
<1>0. ConnTypes
  BY DEF TypeInv
<1>1. HubStep => ConnTypes'
  <2>1. ASSUME NEW c \in Clients, HubVisit(c) PROVE ConnTypes'
    BY <1>0, <2>1 DEF HubVisit, Deliver, Drop, ConnTypes
  <2> QED
    BY <1>0, <2>1 DEF HubStep, HubRegister, HubUnregister, HubTake, Drop, ConnTypes
<1>2. ASSUME NEW c \in Clients, ReaderStep(c) PROVE ConnTypes'
  BY <1>0, <1>2 DEF ReaderStep, Register, WriteSubscription, Acknowledge, ReadError, Leave,
                    ConnTypes
<1>3. ASSUME NEW c \in Clients, WriterStep(c) \/ PingError(c) PROVE ConnTypes'
  BY <1>0, <1>3 DEF WriterStep, WriteFrame, WriteClose, PingError, StopWriter, ConnTypes
<1>4. ASSUME NEW c \in Clients, ReplayStep(c) PROVE ConnTypes'
  BY <1>0, <1>4 DEF ReplayStep, ReplayQuery, ReplaySend, ConnTypes
<1>5. ASSUME NEW c \in Clients,
             Connect(c) \/ Hangup(c) \/ MapRace(c) \/ \E m \in Messages : ReadMessage(c, m)
      PROVE  ConnTypes'
  BY <1>0, <1>5 DEF Connect, Hangup, MapRace, ReadMessage, ConnTypes
<1>6. ASSUME NEW n \in 1..Len(log), Appended(n) \/ Broadcast(n) \/ RunGC(n) PROVE ConnTypes'
  BY <1>0, <1>6 DEF Appended, Broadcast, RunGC, ConnTypes
<1>7. ASSUME NEW u, NEW p, AppendEvent(p) \/ AccessRevoked(u, p) PROVE ConnTypes'
  BY <1>0, <1>7 DEF AppendEvent, AccessRevoked, ConnTypes
<1> QED
  BY <1>1, <1>2, <1>3, <1>4, <1>5, <1>6, <1>7 DEF Next, Environment

\* The readers and the subscriptions.
LEMMA ReaderKeeps == ASSUME TypeInv, Next PROVE ReaderTypes'
<1> USE DEF tableVars, hubVars, connVars, histVars
<1>0. ReaderTypes
  BY DEF TypeInv
<1>1. ASSUME NEW c \in Clients, NEW m \in Messages, ReadMessage(c, m) PROVE ReaderTypes'
  <2>1. /\ inbox[c] \in Seq(Messages) /\ Len(inbox[c]) < MaxMessages
        /\ inbox' = [inbox EXCEPT ![c] = Append(inbox[c], m)]
        /\ rd' = [rd EXCEPT ![c] = "mapWrite"] /\ subs' = subs
    BY <1>0, <1>1 DEF ReadMessage, ReaderTypes
  <2>2. /\ Append(inbox[c], m) \in Seq(Messages) /\ Append(inbox[c], m) # <<>>
        /\ Len(Append(inbox[c], m)) <= MaxMessages
    <3>1. MaxMessages \in Nat /\ Len(<<>>) = 0
      BY HubAssumption
    <3>2. /\ Append(inbox[c], m) \in Seq(Messages)
          /\ Len(inbox[c]) \in Nat /\ Len(Append(inbox[c], m)) = Len(inbox[c]) + 1
      BY <2>1, AppendFacts
    <3> QED
      BY <2>1, <3>1, <3>2
  <2>3. inbox' \in [Clients -> Seq(Messages)] /\ rd' \in [Clients -> ReaderStates]
    BY <1>0, <2>1, <2>2 DEF ReaderTypes, ReaderStates
  <2>4. /\ inbox'[c] = Append(inbox[c], m)
        /\ \A x \in Clients \ {c} : inbox'[x] = inbox[x] /\ rd'[x] = rd[x]
    BY <1>0, <2>1 DEF ReaderTypes
  <2> QED
    BY <1>0, <2>1, <2>2, <2>3, <2>4 DEF ReaderTypes
<1>2. ASSUME NEW c \in Clients, WriteSubscription(c) PROVE ReaderTypes'
  <2>1. inbox[c] \in Seq(Messages) /\ inbox[c] # <<>>
    BY <1>0, <1>2 DEF WriteSubscription, ReaderTypes
  <2>2. msg(c) \in Messages
    BY <2>1 DEF msg
  <2>3. AfterWrite(c) \subseteq Projects
    BY <1>0, <2>2 DEF AfterWrite, Messages, ReaderTypes
  <2>4. subs' \in [Clients -> SUBSET Projects] /\ inbox' = inbox
    BY <1>0, <1>2, <2>3 DEF WriteSubscription, ReaderTypes
  <2>5. PICK s \in {"ack", "read"} : rd' = [rd EXCEPT ![c] = s]
    BY <1>2 DEF WriteSubscription
  <2> QED
    BY <1>0, <2>1, <2>4, <2>5 DEF ReaderTypes, ReaderStates
<1>3. ASSUME NEW c \in Clients, NEW s \in {"register", "read", "leave", "gone"},
             rd' = [rd EXCEPT ![c] = s], UNCHANGED <<inbox, subs>>
      PROVE  ReaderTypes'
  BY <1>0, <1>3 DEF ReaderTypes, ReaderStates
<1>4. CASE UNCHANGED <<rd, inbox, subs>>
  BY <1>0, <1>4 DEF ReaderTypes
<1>5. ASSUME NEW c \in Clients, Connect(c) \/ Register(c) \/ Acknowledge(c) \/ ReadError(c) \/ Leave(c)
      PROVE  ReaderTypes'
  <2>1. \E s \in {"register", "read", "leave", "gone"} : rd' = [rd EXCEPT ![c] = s]
    BY <1>5 DEF Connect, Register, Acknowledge, ReadError, Leave
  <2>2. UNCHANGED <<inbox, subs>>
    BY <1>5 DEF Connect, Register, Acknowledge, ReadError, Leave
  <2> QED
    BY <1>3, <2>1, <2>2
<1>6. HubStep => UNCHANGED <<rd, inbox, subs>>
  BY DEF HubStep, HubRegister, HubUnregister, HubTake, HubVisit
<1>7. ASSUME NEW c \in Clients, WriterStep(c) \/ ReplayStep(c) \/ Hangup(c) \/ PingError(c) \/ MapRace(c)
      PROVE  UNCHANGED <<rd, inbox, subs>>
  BY <1>7 DEF WriterStep, WriteFrame, WriteClose, PingError, ReplayStep, ReplayQuery, ReplaySend,
              Hangup, MapRace
<1>8. ASSUME NEW n \in 1..Len(log), Appended(n) \/ Broadcast(n) \/ RunGC(n)
      PROVE  UNCHANGED <<rd, inbox, subs>>
  BY <1>8 DEF Appended, Broadcast, RunGC
<1>9. ASSUME NEW u, NEW p, AppendEvent(p) \/ AccessRevoked(u, p) PROVE UNCHANGED <<rd, inbox, subs>>
  BY <1>9 DEF AppendEvent, AccessRevoked
<1> QED
  BY <1>1, <1>2, <1>4, <1>5, <1>6, <1>7, <1>8, <1>9 DEF Next, ReaderStep, Environment

\* Putting a finite set of ids in order yields its elements, all of them.
LEMMA InOrderFacts ==
    ASSUME NEW L \in Nat, NEW S \in SUBSET (1..L)
    PROVE  /\ Cardinality(S) \in Nat
           /\ \A i \in 1..Cardinality(S) : InOrder(S)[i] \in S
           /\ \A n \in S : \E i \in 1..Cardinality(S) : InOrder(S)[i] = n
<1> DEFINE Upto(n) == {m \in S : m <= n}
           r == [n \in S |-> Cardinality(Upto(n))]
           N == Cardinality(S)
<1>1. IsFiniteSet(S) /\ N \in Nat
  <2>1. IsFiniteSet(1..L)
    BY FS_Interval
  <2> QED
    BY <2>1, FS_Subset, FS_CardinalityType
<1>2. ASSUME NEW n \in S
      PROVE  IsFiniteSet(Upto(n)) /\ Cardinality(Upto(n)) \in 1..N
  <2>1. Upto(n) \subseteq S /\ n \in Upto(n)
    BY <1>2
  <2>2. IsFiniteSet(Upto(n)) /\ Cardinality(Upto(n)) \in Nat /\ Cardinality(Upto(n)) <= N
    BY <1>1, <2>1, FS_Subset, FS_CardinalityType
  <2>3. Cardinality(Upto(n)) # 0
    BY <2>1, <2>2, FS_EmptySet
  <2> QED
    BY <1>1, <2>2, <2>3
<1>3. ASSUME NEW m \in S, NEW n \in S, m < n
      PROVE  Cardinality(Upto(m)) < Cardinality(Upto(n))
  <2>0. \A x \in S : x \in Int
    OBVIOUS
  <2>1. Upto(m) \subseteq Upto(n) /\ n \in Upto(n) /\ n \notin Upto(m)
    <3>1. m \in Int /\ n \in Int /\ n <= n /\ ~(n <= m)
      BY <1>3, <2>0
    <3>2. \A x \in S : x <= m => x <= n
      BY <1>3, <2>0, <3>1
    <3> QED
      BY <3>1, <3>2, Zenon
  <2>2. IsFiniteSet(Upto(n)) /\ Upto(m) # Upto(n)
    BY <1>2, <2>1
  <2> QED
    BY <2>1, <2>2, FS_Subset, FS_CardinalityType
<1>4. ASSUME NEW m \in S, NEW n \in S, Cardinality(Upto(m)) = Cardinality(Upto(n))
      PROVE  m = n
  <2>1. m \in Int /\ n \in Int
    OBVIOUS
  <2>2. ~(m < n) /\ ~(n < m)
    BY <1>2, <1>3, <1>4
  <2> QED
    BY <2>1, <2>2
<1>5. r \in Injection(S, 1..N)
  BY <1>2, <1>4 DEF Injection, IsInjective
<1>6. IsFiniteSet(1..N) /\ Cardinality(1..N) = N
  BY <1>1, FS_Interval
<1>7. r \in Surjection(S, 1..N)
  BY <1>5, <1>6, FS_Injection
<1>8. \A i \in 1..N : \E n \in S : Cardinality(Upto(n)) = i
  BY <1>7 DEF Surjection
<1>9. ASSUME NEW i \in 1..N
      PROVE  InOrder(S)[i] \in S /\ Cardinality(Upto(InOrder(S)[i])) = i
  <2>1. InOrder(S)[i] = CHOOSE n \in S : Cardinality(Upto(n)) = i
    BY DEF InOrder
  <2> QED
    BY <1>8, <2>1
<1>10. ASSUME NEW n \in S PROVE \E i \in 1..N : InOrder(S)[i] = n
  <2>1. Cardinality(Upto(n)) \in 1..N
    BY <1>2
  <2> QED
    BY <1>4, <1>9, <2>1
<1> QED
  BY <1>1, <1>9, <1>10

\* What a replay answers: a resync, or all it found.
LEMMA AnswerFacts ==
    ASSUME TypeInv, NEW c \in Clients, NEW k \in Replays, rp[c][k] # "none"
    PROVE  /\ Answer(c, k) \in Seq(ReplayFrames)
           /\ \/ /\ Len(Answer(c, k)) = 1
                 /\ Answer(c, k)[1] = Resync(k)
              \/ \A n \in Missed(c, k) :
                    \E i \in 1..Len(Answer(c, k)) : Answer(c, k)[i] = Replay(k, n)
<1> DEFINE S == Missed(c, k)
           N == Cardinality(S)
<1>1. Len(log) \in Nat /\ Len(log) <= MaxEvents /\ MaxEvents \in Nat
  BY HubAssumption DEF TypeInv, TableTypes
<1>2. S \subseteq 1..Len(log)
  BY DEF Missed
<1>5. /\ N \in Nat
      /\ \A i \in 1..N : InOrder(S)[i] \in S
      /\ \A n \in S : \E i \in 1..N : InOrder(S)[i] = n
  <2> HIDE DEF S
  <2>1. S \in SUBSET (1..Len(log))
    BY <1>2
  <2> QED
    BY <1>1, <2>1, InOrderFacts
<1>6. CASE N >= ReplayLimit
  <2>1. Answer(c, k) = <<Resync(k)>>
    BY <1>6 DEF Answer
  <2>2. Resync(k) \in ReplayFrames
    BY DEF Resync, ReplayFrames
  <2> QED
    BY <2>1, <2>2
<1>7. CASE ~(N >= ReplayLimit)
  <2>1. Answer(c, k) = [i \in 1..N |-> Replay(k, InOrder(S)[i])]
    BY <1>7 DEF Answer
  <2>2. ASSUME NEW i \in 1..N PROVE Replay(k, InOrder(S)[i]) \in ReplayFrames
    <3>1. InOrder(S)[i] \in 1..MaxEvents
      BY <1>1, <1>2, <1>5
    <3> QED
      BY <3>1 DEF Replay, ReplayFrames
  <2>3. [i \in 1..N |-> Replay(k, InOrder(S)[i])] \in [1..N -> ReplayFrames]
    BY <2>2
  <2>4. Answer(c, k) \in Seq(ReplayFrames) /\ Len(Answer(c, k)) = N
    BY <1>5, <2>1, <2>3, FunctionIsSeq
  <2>5. \A n \in S : \E i \in 1..N : Answer(c, k)[i] = Replay(k, n)
    BY <1>5, <2>1
  <2> QED
    BY <2>4, <2>5
<1> QED
  BY <1>6, <1>7

\* Who changes what: the replays, the channels to the writers, the histories.
LEMMA QueueChanges ==
    ASSUME Next
    PROVE  /\ \/ inbox' = inbox /\ rp' = rp /\ rows' = rows
              \/ \E c \in Clients : \/ \E m \in Messages : ReadMessage(c, m)
                                    \/ Acknowledge(c)
                                    \/ \E k \in Replays : ReplayQuery(c, k) \/ ReplaySend(c, k)
           /\ \/ sendq' = sendq
              \/ \E u \in Users, p \in Projects : AccessRevoked(u, p)
              \/ \E c \in Clients : \/ HubVisit(c) \/ WriteFrame(c) \/ Acknowledge(c)
                                    \/ \E k \in Replays : ReplaySend(c, k)
           /\ due' = due \/ \E c \in Clients : HubVisit(c)
           /\ \/ delivered' = delivered /\ replayed' = replayed
              \/ \E c \in Clients : WriteFrame(c)
           /\ lost' = lost \/ \E c \in Clients : \E k \in Replays : ReplaySend(c, k)
           /\ passed' = passed \/ HubTake
<1> DEFINE R == inbox' = inbox /\ rp' = rp /\ rows' = rows
           D == delivered' = delivered /\ replayed' = replayed
           S == sendq' = sendq
           U == due' = due
           L == lost' = lost
           P == passed' = passed
<1> USE DEF tableVars, hubVars, connVars, histVars
<1>1. HubRegister \/ HubUnregister => R /\ D /\ S /\ U /\ L /\ P
  BY DEF HubRegister, HubUnregister
<1>2. HubTake => R /\ D /\ S /\ U /\ L
  BY DEF HubTake
<1>3. ASSUME NEW c \in Clients, HubVisit(c) PROVE R /\ D /\ L /\ P
  BY <1>3 DEF HubVisit
<1>4. ASSUME NEW c \in Clients, WriteFrame(c) PROVE R /\ U /\ L /\ P
  BY <1>4 DEF WriteFrame
<1>5. ASSUME NEW c \in Clients,
             \/ Register(c) \/ WriteSubscription(c) \/ ReadError(c) \/ Leave(c)
             \/ WriteClose(c) \/ PingError(c) \/ Connect(c) \/ Hangup(c) \/ MapRace(c)
      PROVE  R /\ D /\ S /\ U /\ L /\ P
  BY <1>5 DEF Register, WriteSubscription, ReadError, Leave, WriteClose, PingError, Connect,
              Hangup, MapRace
<1>6. ASSUME NEW c \in Clients, Acknowledge(c) PROVE D /\ U /\ L /\ P
  BY <1>6 DEF Acknowledge
<1>7. ASSUME NEW c \in Clients, NEW m \in Messages, ReadMessage(c, m)
      PROVE  D /\ S /\ U /\ L /\ P
  BY <1>7 DEF ReadMessage
<1>8. ASSUME NEW c \in Clients, NEW k \in Replays, ReplayQuery(c, k)
      PROVE  D /\ S /\ U /\ L /\ P
  BY <1>8 DEF ReplayQuery
<1>9. ASSUME NEW c \in Clients, NEW k \in Replays, ReplaySend(c, k) PROVE D /\ U /\ P
  BY <1>9 DEF ReplaySend
<1>10. ASSUME NEW n \in 1..Len(log), Appended(n) \/ Broadcast(n) \/ RunGC(n)
       PROVE  R /\ D /\ S /\ U /\ L /\ P
  BY <1>10 DEF Appended, Broadcast, RunGC
<1>11. ASSUME NEW p \in Projects, AppendEvent(p) PROVE R /\ D /\ S /\ U /\ L /\ P
  BY <1>11 DEF AppendEvent
<1>12. ASSUME NEW u \in Users, NEW p \in Projects, AccessRevoked(u, p)
       PROVE  R /\ D /\ U /\ L /\ P
  BY <1>12 DEF AccessRevoked
<1> HIDE DEF R, D, S, U, L, P
<1>13. /\ R \/ \E c \in Clients : \/ \E m \in Messages : ReadMessage(c, m)
                                 \/ Acknowledge(c)
                                 \/ \E k \in Replays : ReplayQuery(c, k) \/ ReplaySend(c, k)
       /\ \/ S
          \/ \E u \in Users, p \in Projects : AccessRevoked(u, p)
          \/ \E c \in Clients : \/ HubVisit(c) \/ WriteFrame(c) \/ Acknowledge(c)
                                \/ \E k \in Replays : ReplaySend(c, k)
       /\ U \/ \E c \in Clients : HubVisit(c)
       /\ D \/ \E c \in Clients : WriteFrame(c)
       /\ L \/ \E c \in Clients : \E k \in Replays : ReplaySend(c, k)
       /\ P \/ HubTake
  BY <1>1, <1>2, <1>3, <1>4, <1>5, <1>6, <1>7, <1>8, <1>9, <1>10, <1>11, <1>12
  DEF Next, HubStep, ReaderStep, WriterStep, ReplayStep, Environment
<1> QED
  BY <1>13 DEF R, D, S, U, L, P

\* The replays.
LEMMA ReplayKeeps == ASSUME TypeInv, Next PROVE ReplayTypes'
<1>0. ReplayTypes /\ ReaderTypes
  BY DEF TypeInv
<1>1. ASSUME NEW c \in Clients, NEW m \in Messages, ReadMessage(c, m) PROVE ReplayTypes'
  <2>1. /\ rp' = rp /\ rows' = rows /\ inbox[c] \in Seq(Messages)
        /\ inbox' = [inbox EXCEPT ![c] = Append(inbox[c], m)]
    BY <1>0, <1>1 DEF ReadMessage, ReaderTypes
  <2>2. /\ \A x \in Clients \ {c} : inbox'[x] = inbox[x]
        /\ inbox'[c] = Append(inbox[c], m)
    BY <1>0, <2>1 DEF ReaderTypes
  <2>3. Len(inbox[c]) \in Nat /\ Len(inbox'[c]) = Len(inbox[c]) + 1
    BY <2>1, <2>2, AppendFacts
  <2>4. ASSUME NEW x \in Clients, NEW k \in Replays, k <= Len(inbox[x])
        PROVE  k <= Len(inbox'[x])
    <3>1. k \in Int
      BY DEF Replays
    <3> QED
      BY <2>2, <2>3, <2>4, <3>1
  <2> QED
    BY <1>0, <2>1, <2>4 DEF ReplayTypes
<1>2. ASSUME NEW c \in Clients, Acknowledge(c) PROVE ReplayTypes'
  <2>1. rows' = rows /\ inbox' = inbox
    BY <1>2 DEF Acknowledge, tableVars, hubVars
  <2>2. CASE rp' = rp
    BY <1>0, <2>1, <2>2 DEF ReplayTypes
  <2>3. CASE rp' = [rp EXCEPT ![c][Len(inbox[c])] =
                      IF msg(c).since = NoSince THEN "none" ELSE "query"]
    <3>1. Len(inbox[c]) \in Replays
      BY <1>0, <1>2, HubAssumption DEF Acknowledge, ReaderTypes, Replays
    <3>2. Len(inbox[c]) <= Len(inbox[c])
      BY <3>1 DEF Replays
    <3> QED
      BY <1>0, <2>1, <2>3, <3>1, <3>2 DEF ReplayTypes
  <2> QED
    BY <1>2, <2>2, <2>3 DEF Acknowledge
<1>3. ASSUME NEW c \in Clients, NEW k \in Replays, ReplayQuery(c, k) PROVE ReplayTypes'
  <2>0. inbox' = inbox /\ rp[c][k] = "query"
    BY <1>3 DEF ReplayQuery
  <2>1. CASE rp' = [rp EXCEPT ![c][k] = "failed"] /\ UNCHANGED rows
    BY <1>0, <2>0, <2>1 DEF ReplayTypes
  <2>2. CASE /\ rows' = [rows EXCEPT ![c][k] = Answer(c, k)]
             /\ rp' = [rp EXCEPT ![c][k] = IF rows'[c][k] = <<>> THEN "done" ELSE "send"]
    <3>1. Answer(c, k) \in Seq(ReplayFrames)
      BY <2>0, AnswerFacts
    <3>2. rows' \in [Clients -> [Replays -> Seq(ReplayFrames)]] /\ rows'[c][k] = Answer(c, k)
      BY <1>0, <2>2, <3>1 DEF ReplayTypes
    <3> QED
      BY <1>0, <2>0, <2>2, <3>2 DEF ReplayTypes
  <2> QED
    BY <1>3, <2>1, <2>2 DEF ReplayQuery
<1>4. ASSUME NEW c \in Clients, NEW k \in Replays, ReplaySend(c, k) PROVE ReplayTypes'
  <2>0. inbox' = inbox /\ rp[c][k] = "send"
    BY <1>4 DEF ReplaySend, connVars
  <2>1. CASE UNCHANGED <<rows, rp>>
    BY <1>0, <2>0, <2>1 DEF ReplayTypes
  <2>2. CASE /\ rows' = [rows EXCEPT ![c][k] = Tail(@)]
             /\ rp' = [rp EXCEPT ![c][k] = IF Len(rows[c][k]) = 1 THEN "done" ELSE "send"]
    <3>1. rows[c][k] \in Seq(ReplayFrames) /\ rows[c][k] # <<>>
      BY <1>0, <2>0 DEF ReplayTypes
    <3>2. /\ Tail(rows[c][k]) \in Seq(ReplayFrames)
          /\ Len(rows[c][k]) \in Nat /\ Len(Tail(rows[c][k])) = Len(rows[c][k]) - 1
      BY <3>1, TailFacts
    <3>3. ASSUME Tail(rows[c][k]) = <<>> PROVE Len(rows[c][k]) = 1
      <4>1. Len(Tail(rows[c][k])) = 0
        BY <3>3, EmptyLen
      <4> QED
        BY <3>2, <4>1
    <3>4. /\ rows' \in [Clients -> [Replays -> Seq(ReplayFrames)]]
          /\ rows'[c][k] = Tail(rows[c][k])
      BY <1>0, <2>2, <3>2 DEF ReplayTypes
    <3> QED
      BY <1>0, <2>0, <2>2, <3>3, <3>4 DEF ReplayTypes
  <2> QED
    BY <1>4, <2>1, <2>2 DEF ReplaySend
<1>5. CASE UNCHANGED <<inbox, rp, rows>>
  BY <1>0, <1>5 DEF ReplayTypes
<1> QED
  BY <1>1, <1>2, <1>3, <1>4, <1>5, QueueChanges

\* A send that drops what does not fit.
LEMMA TrySendFacts ==
    ASSUME NEW q \in Seq(Frames), Len(q) <= SendCap, NEW f \in Frames
    PROVE  TrySend(q, f) \in Seq(Frames) /\ Len(TrySend(q, f)) <= SendCap
<1>1. SendCap \in Nat
  BY HubAssumption
<1>2. /\ Append(q, f) \in Seq(Frames)
      /\ Len(q) \in Nat /\ Len(Append(q, f)) = Len(q) + 1
  BY AppendFacts
<1> QED
  BY <1>1, <1>2 DEF TrySend

\* The channels to the writers.
LEMMA QueueKeeps == ASSUME TypeInv, Next PROVE QueueTypes'
<1>0. QueueTypes /\ SendCap \in Nat
  BY HubAssumption DEF TypeInv
<1>1. ASSUME NEW c \in Clients, NEW q \in Seq(Frames), Len(q) <= SendCap,
             sendq' = [sendq EXCEPT ![c] = q]
      PROVE  QueueTypes'
  BY <1>0, <1>1 DEF QueueTypes
<1>2. CASE sendq' = sendq
  BY <1>0, <1>2 DEF QueueTypes
<1>3. ASSUME NEW c \in Clients, HubVisit(c) PROVE QueueTypes'
  <2>1. CASE /\ Len(sendq[c]) < SendCap
             /\ sendq' = [sendq EXCEPT ![c] = Append(@, Event(fan))]
    <3>1. Event(fan) \in Frames
      <4>1. fan \in 1..MaxEvents
        BY <1>3 DEF TypeInv, ChanTypes, HubVisit
      <4> QED
        BY <4>1 DEF Event, Frames
    <3>2. sendq[c] \in Seq(Frames)
      BY <1>0 DEF QueueTypes
    <3>3. /\ Append(sendq[c], Event(fan)) \in Seq(Frames)
          /\ Len(sendq[c]) \in Nat /\ Len(Append(sendq[c], Event(fan))) = Len(sendq[c]) + 1
      BY <3>1, <3>2, AppendFacts
    <3>4. Len(Append(sendq[c], Event(fan))) <= SendCap
      BY <1>0, <2>1, <3>3
    <3> QED
      BY <1>1, <2>1, <3>3, <3>4
  <2> QED
    BY <1>2, <1>3, <2>1 DEF HubVisit, Deliver
<1>4. ASSUME NEW c \in Clients, WriteFrame(c) PROVE QueueTypes'
  <2>1. sendq[c] \in Seq(Frames) /\ sendq[c] # <<>> /\ Len(sendq[c]) <= SendCap
    BY <1>0, <1>4 DEF WriteFrame, QueueTypes
  <2>2. /\ Tail(sendq[c]) \in Seq(Frames)
        /\ Len(sendq[c]) \in Nat /\ Len(Tail(sendq[c])) = Len(sendq[c]) - 1
    BY <2>1, TailFacts
  <2>3. sendq' = [sendq EXCEPT ![c] = Tail(sendq[c])]
    BY <1>4 DEF WriteFrame
  <2> DEFINE q == Tail(sendq[c])
  <2>4. q \in Seq(Frames) /\ Len(q) <= SendCap /\ sendq' = [sendq EXCEPT ![c] = q]
    BY <1>0, <2>1, <2>2, <2>3
  <2> HIDE DEF q
  <2> QED
    BY <1>1, <2>4
<1>5. ASSUME NEW c \in Clients, NEW f \in Frames, sendq' = [sendq EXCEPT ![c] = TrySend(@, f)]
      PROVE  QueueTypes'
  <2>1. sendq[c] \in Seq(Frames) /\ Len(sendq[c]) <= SendCap
    BY <1>0 DEF QueueTypes
  <2>2. TrySend(sendq[c], f) \in Seq(Frames) /\ Len(TrySend(sendq[c], f)) <= SendCap
    BY <2>1, TrySendFacts
  <2> QED
    BY <1>1, <1>5, <2>2
<1>6. ASSUME NEW c \in Clients, Acknowledge(c) PROVE QueueTypes'
  <2>1. <<"subscribed", 0>> \in Frames
    BY DEF Frames
  <2> QED
    BY <1>2, <1>5, <1>6, <2>1 DEF Acknowledge
<1>7. ASSUME NEW c \in Clients, NEW k \in Replays, ReplaySend(c, k) PROVE QueueTypes'
  <2>1. rows[c][k] \in Seq(ReplayFrames) /\ rows[c][k] # <<>>
    BY <1>7 DEF TypeInv, ReplayTypes, ReplaySend
  <2>2. Head(rows[c][k]) \in ReplayFrames
    BY <2>1, TailFacts
  <2>3. Head(rows[c][k]) \in Frames
    BY <2>2 DEF ReplayFrames, Frames
  <2> QED
    BY <1>2, <1>5, <1>7, <2>3 DEF ReplaySend
<1>8. ASSUME NEW u \in Users, NEW p \in Projects, AccessRevoked(u, p) PROVE QueueTypes'
  <2>1. <<"accessRevoked", 0>> \in Frames
    BY DEF Frames
  <2>2. \A c \in Clients : sendq'[c] \in {sendq[c], TrySend(sendq[c], <<"accessRevoked", 0>>)}
    BY <1>8 DEF AccessRevoked
  <2>3. sendq' = [c \in Clients |-> sendq'[c]]
    BY <1>8 DEF AccessRevoked
  <2>4. ASSUME NEW c \in Clients PROVE sendq'[c] \in Seq(Frames) /\ Len(sendq'[c]) <= SendCap
    <3>1. sendq[c] \in Seq(Frames) /\ Len(sendq[c]) <= SendCap
      BY <1>0 DEF QueueTypes
    <3>2. /\ TrySend(sendq[c], <<"accessRevoked", 0>>) \in Seq(Frames)
          /\ Len(TrySend(sendq[c], <<"accessRevoked", 0>>)) <= SendCap
      BY <2>1, <3>1, TrySendFacts
    <3> QED
      BY <2>2, <3>1, <3>2
  <2> QED
    BY <2>3, <2>4 DEF QueueTypes
<1> QED
  BY <1>2, <1>3, <1>4, <1>6, <1>7, <1>8, QueueChanges

\* The histories.
LEMMA HistKeeps == ASSUME TypeInv, Next PROVE HistTypes'
<1>0. HistTypes
  BY DEF TypeInv
<1>1. due' \in [Clients -> Seq(1..MaxEvents)]
  <2>1. CASE due' = due
    BY <1>0, <2>1 DEF HistTypes
  <2>2. ASSUME NEW c \in Clients, HubVisit(c) PROVE due' \in [Clients -> Seq(1..MaxEvents)]
    <3>1. fan \in 1..MaxEvents
      BY <2>2 DEF TypeInv, ChanTypes, HubVisit
    <3>2. due[c] \in Seq(1..MaxEvents)
      BY <1>0 DEF HistTypes
    <3>3. Append(due[c], fan) \in Seq(1..MaxEvents)
      BY <3>1, <3>2, AppendFacts
    <3> QED
      BY <1>0, <2>1, <2>2, <3>3 DEF HistTypes, HubVisit, Deliver
  <2> QED
    BY <2>1, <2>2, QueueChanges
<1>2. delivered' \in [Clients -> Seq(1..MaxEvents)] /\ replayed' \in [Clients -> SUBSET Frames]
  <2>1. CASE delivered' = delivered /\ replayed' = replayed
    BY <1>0, <2>1 DEF HistTypes
  <2>2. ASSUME NEW c \in Clients, WriteFrame(c)
        PROVE  delivered' \in [Clients -> Seq(1..MaxEvents)] /\ replayed' \in [Clients -> SUBSET Frames]
    <3> DEFINE f == Head(sendq[c])
    <3>1. f \in Frames
      BY <2>2, TailFacts DEF TypeInv, QueueTypes, WriteFrame
    <3>2. f[1] = "event" => f[2] \in 1..MaxEvents
      BY <3>1 DEF Frames
    <3>3. delivered[c] \in Seq(1..MaxEvents)
      BY <1>0 DEF HistTypes
    <3>4. f[1] = "event" => Append(delivered[c], f[2]) \in Seq(1..MaxEvents)
      BY <3>2, <3>3, AppendFacts
    <3>5. CASE /\ delivered' = [delivered EXCEPT ![c] =
                     IF f[1] = "event" THEN Append(@, f[2]) ELSE @]
               /\ replayed' = [replayed EXCEPT ![c] =
                     IF f[1] \in {"replay", "resync"} THEN @ \cup {f} ELSE @]
      <4> HIDE DEF f
      <4> QED
        BY <1>0, <3>1, <3>3, <3>4, <3>5 DEF HistTypes
    <3> QED
      BY <2>1, <2>2, <3>5 DEF WriteFrame
  <2> QED
    BY <2>1, <2>2, QueueChanges
<1>3. lost' \in [Clients -> SUBSET ReplayFrames]
  <2>1. CASE lost' = lost
    BY <1>0, <2>1 DEF HistTypes
  <2>2. ASSUME NEW c \in Clients, NEW k \in Replays, ReplaySend(c, k)
        PROVE  lost' \in [Clients -> SUBSET ReplayFrames]
    <3>1. rows[c][k] \in Seq(ReplayFrames) /\ rows[c][k] # <<>>
      BY <2>2 DEF TypeInv, ReplayTypes, ReplaySend
    <3>2. Head(rows[c][k]) \in ReplayFrames
      BY <3>1, TailFacts
    <3> DEFINE h == Head(rows[c][k])
               b == sendq'[c] = sendq[c]
    <3>3. lost' = lost \/ lost' = [lost EXCEPT ![c] = IF b THEN @ \cup {h} ELSE @]
      BY <2>2 DEF ReplaySend
    <3>4. lost \in [Clients -> SUBSET ReplayFrames] /\ h \in ReplayFrames
      BY <1>0, <3>2 DEF HistTypes
    <3> HIDE DEF h, b
    <3> QED
      BY <3>3, <3>4
  <2> QED
    BY <2>1, <2>2, QueueChanges
<1>4. passed' \in [Clients -> SUBSET (1..MaxEvents)]
  <2>1. CASE passed' = passed
    BY <1>0, <2>1 DEF HistTypes
  <2>2. CASE HubTake
    <3>1. Head(broadcast) \in 1..MaxEvents
      BY <2>2, TailFacts DEF TypeInv, ChanTypes, HubTake
    <3> QED
      BY <1>0, <2>2, <3>1 DEF HubTake, HistTypes
  <2> QED
    BY <2>1, <2>2, QueueChanges
<1> QED
  BY <1>1, <1>2, <1>3, <1>4 DEF HistTypes

\* Every step keeps the types.
LEMMA NextTypes == TypeInv /\ [Next]_vars => TypeInv'
<1> SUFFICES ASSUME TypeInv, [Next]_vars PROVE TypeInv'
  OBVIOUS
<1>1. CASE Next
  BY <1>1, ChanKeeps, TableKeeps, ConnKeeps, ReaderKeeps, ReplayKeeps, QueueKeeps, HistKeeps
  DEF TypeInv
<1>2. CASE UNCHANGED vars
  BY <1>2
  DEF TypeInv, ChanTypes, TableTypes, ConnTypes, ReaderTypes, ReplayTypes, QueueTypes, HistTypes,
      vars, tableVars, hubVars, connVars, histVars
<1> QED
  BY <1>1, <1>2

\* Every variable stays in its type, and no channel exceeds its capacity,
\* whatever the number of connections, replays and events.
THEOREM TypeCorrect == Spec => []TypeOK
BY InitTypes, NextTypes, TypesSuffice, PTL DEF Spec
-----------------------------------------------------------------------------
(***************************************************************************)
(* The live feed of a client: what is delivered, what waits in its channel *)
(* and what the hub found due.                                             *)
(***************************************************************************)
\* The events delivered are the first of those that were due.
Prefix(d, u) == Len(d) <= Len(u) /\ \A i \in 1..Len(d) : d[i] = u[i]

\* The events waiting in the channel q are those due after the delivered ones,
\* in order; pos[i] is how many of the due ones are delivered or among the
\* first i frames of the channel.
Matches(q, d, u, pos) ==
    /\ pos \in [0..Len(q) -> Nat] /\ pos[0] = Len(d)
    /\ \A i \in 1..Len(q) :
          /\ q[i][1] = "event" => /\ pos[i] = pos[i - 1] + 1 /\ pos[i] <= Len(u)
                                  /\ q[i][2] = u[pos[i]]
          /\ q[i][1] # "event" => pos[i] = pos[i - 1]

\* Of what is due, the channel holds the next few, or all.
HoldsNext(q, d, u) == \E pos : Matches(q, d, u, pos)
HoldsAll(q, d, u)  == \E pos : Matches(q, d, u, pos) /\ pos[Len(q)] = Len(u)

\* A frame that is not an event is sent to the channel.
LEMMA MatchFrame ==
    ASSUME NEW q \in Seq(Frames), NEW d, NEW u, NEW pos, Matches(q, d, u, pos),
           NEW f \in Frames, f[1] # "event"
    PROVE  /\ HoldsNext(Append(q, f), d, u)
           /\ pos[Len(q)] = Len(u) => HoldsAll(Append(q, f), d, u)
<1> DEFINE t == Append(q, f)
           n == Len(q)
           p == [i \in 0..(n + 1) |-> IF i = n + 1 THEN pos[n] ELSE pos[i]]
<1>1. /\ n \in Nat /\ Len(t) = n + 1 /\ t[n + 1] = f /\ \A i \in 1..n : t[i] = q[i]
  BY AppendFacts
<1>2. pos \in [0..n -> Nat] /\ pos[0] = Len(d)
  BY DEF Matches
<1>3. /\ p \in [0..(n + 1) -> Nat] /\ p[0] = Len(d) /\ p[n + 1] = pos[n]
      /\ \A i \in 0..n : p[i] = pos[i]
  BY <1>1, <1>2
<1> HIDE DEF p, t
<1>4. ASSUME NEW i \in 1..(n + 1)
      PROVE  /\ t[i][1] = "event" => /\ p[i] = p[i - 1] + 1 /\ p[i] <= Len(u)
                                     /\ t[i][2] = u[p[i]]
             /\ t[i][1] # "event" => p[i] = p[i - 1]
  <2>1. CASE i = n + 1
    BY <1>1, <1>3, <2>1
  <2>2. CASE i # n + 1
    <3>1. i \in 1..n /\ i \in 0..n /\ i - 1 \in 0..n
      BY <1>1, <2>2
    <3>2. t[i] = q[i] /\ p[i] = pos[i] /\ p[i - 1] = pos[i - 1]
      BY <1>1, <1>3, <3>1
    <3> QED
      BY <3>1, <3>2 DEF Matches
  <2> QED
    BY <2>1, <2>2
<1>5. Matches(t, d, u, p) /\ p[Len(t)] = pos[Len(q)]
  BY <1>1, <1>3, <1>4 DEF Matches
<1>6. HoldsNext(t, d, u) /\ (pos[n] = Len(u) => HoldsAll(t, d, u))
  BY <1>5 DEF HoldsNext, HoldsAll
<1> QED
  BY <1>6 DEF t

\* An event becomes due.
LEMMA MatchDue ==
    ASSUME NEW q \in Seq(Frames), NEW d, NEW S, NEW u \in Seq(S), NEW e \in S,
           NEW pos, Matches(q, d, u, pos)
    PROVE  Matches(q, d, Append(u, e), pos)
<1>1. /\ Len(u) \in Nat /\ Len(Append(u, e)) = Len(u) + 1
      /\ \A i \in 1..Len(u) : Append(u, e)[i] = u[i]
  BY AppendFacts
<1> DEFINE v == Append(u, e)
<1> HIDE DEF v
<1>2. /\ Len(u) \in Nat /\ Len(v) = Len(u) + 1 /\ \A i \in 1..Len(u) : v[i] = u[i]
  BY <1>1 DEF v
<1>3. ASSUME NEW i \in 1..Len(q), q[i][1] = "event"
      PROVE  pos[i] = pos[i - 1] + 1 /\ pos[i] <= Len(v) /\ q[i][2] = v[pos[i]]
  <2>1. /\ pos[i] = pos[i - 1] + 1 /\ pos[i] <= Len(u) /\ q[i][2] = u[pos[i]]
        /\ pos[i - 1] \in Nat
    <3>1. Len(q) \in Nat /\ i - 1 \in 0..Len(q)
      OBVIOUS
    <3> QED
      BY <1>3, <3>1 DEF Matches
  <2>2. pos[i] \in 1..Len(u)
    BY <1>2, <2>1
  <2> QED
    BY <1>2, <2>1, <2>2
<1>4. Matches(q, d, v, pos)
  BY <1>3 DEF Matches
<1> QED
  BY <1>4 DEF v

\* An event becomes due and is sent to the channel.
LEMMA MatchEvent ==
    ASSUME NEW q \in Seq(Frames), NEW d, NEW u \in Seq(1..MaxEvents), NEW e \in 1..MaxEvents,
           HoldsAll(q, d, u)
    PROVE  HoldsAll(Append(q, Event(e)), d, Append(u, e))
<1>a. PICK pos : Matches(q, d, u, pos) /\ pos[Len(q)] = Len(u)
  BY DEF HoldsAll
<1> DEFINE t == Append(q, Event(e))
           v == Append(u, e)
           n == Len(q)
           p == [i \in 0..(n + 1) |-> IF i = n + 1 THEN pos[n] + 1 ELSE pos[i]]
<1>0. Matches(q, d, v, pos)
  BY <1>a, MatchDue
<1>1. /\ n \in Nat /\ Len(t) = n + 1 /\ t[n + 1] = Event(e) /\ \A i \in 1..n : t[i] = q[i]
  <2>1. Event(e) \in Frames
    BY DEF Event, Frames
  <2> QED
    BY <2>1, AppendFacts
<1>2. Len(u) \in Nat /\ Len(v) = Len(u) + 1 /\ v[Len(u) + 1] = e
  BY AppendFacts
<1> HIDE DEF v
<1>3. pos \in [0..n -> Nat] /\ pos[0] = Len(d)
  BY <1>a DEF Matches
<1>4. /\ p \in [0..(n + 1) -> Nat] /\ p[0] = Len(d) /\ p[n + 1] = pos[n] + 1
      /\ \A i \in 0..n : p[i] = pos[i]
  BY <1>1, <1>3
<1> HIDE DEF p, t
<1>5. ASSUME NEW i \in 1..(n + 1)
      PROVE  /\ t[i][1] = "event" => /\ p[i] = p[i - 1] + 1 /\ p[i] <= Len(v)
                                     /\ t[i][2] = v[p[i]]
             /\ t[i][1] # "event" => p[i] = p[i - 1]
  <2>1. CASE i = n + 1
    <3>0. i - 1 = n /\ n \in 0..n
      BY <1>1, <2>1
    <3>1. p[i] = Len(u) + 1 /\ p[i - 1] = Len(u)
      BY <1>a, <1>4, <2>1, <3>0
    <3>2. t[i][1] = "event" /\ t[i][2] = e
      BY <1>1, <2>1 DEF Event
    <3> QED
      BY <1>2, <3>1, <3>2
  <2>2. CASE i # n + 1
    <3>1. i \in 1..n /\ i \in 0..n /\ i - 1 \in 0..n
      BY <1>1, <2>2
    <3>2. t[i] = q[i] /\ p[i] = pos[i] /\ p[i - 1] = pos[i - 1]
      BY <1>1, <1>4, <3>1
    <3> QED
      BY <1>0, <3>1, <3>2 DEF Matches
  <2> QED
    BY <2>1, <2>2
<1>6. Matches(t, d, v, p) /\ p[Len(t)] = Len(v)
  BY <1>a, <1>1, <1>2, <1>4, <1>5 DEF Matches
<1>7. HoldsAll(t, d, v)
  BY <1>6 DEF HoldsAll
<1> QED
  BY <1>7 DEF t, v

\* The writer receives a frame and writes it.
LEMMA MatchWrite ==
    ASSUME NEW q \in Seq(Frames), q # <<>>, NEW d \in Seq(1..MaxEvents), NEW u, NEW pos,
           Matches(q, d, u, pos), Prefix(d, u), Len(u) \in Nat,
           NEW f, f = Head(q),
           NEW e, f[1] = "event" => e = Append(d, f[2]), f[1] # "event" => e = d
    PROVE  /\ Prefix(e, u) /\ HoldsNext(Tail(q), e, u)
           /\ pos[Len(q)] = Len(u) => HoldsAll(Tail(q), e, u)
<1> DEFINE t == Tail(q)
           n == Len(q)
           p == [i \in 0..(n - 1) |-> pos[i + 1]]
<1>1. /\ n \in Nat /\ n >= 1 /\ Len(t) = n - 1 /\ Head(q) = q[1] /\ q[1] \in Frames
      /\ \A i \in 1..(n - 1) : t[i] = q[i + 1]
  BY TailFacts
<1>2. pos \in [0..n -> Nat] /\ pos[0] = Len(d)
  BY DEF Matches
<1>3. Prefix(e, u) /\ Len(e) = pos[1]
  <2>0. 1 \in 1..n /\ 1 - 1 = 0
    BY <1>1
  <2>1. CASE q[1][1] = "event"
    <3>1. pos[1] = Len(d) + 1 /\ pos[1] <= Len(u) /\ q[1][2] = u[pos[1]]
      BY <1>2, <2>0, <2>1 DEF Matches
    <3>2. q[1][2] \in 1..MaxEvents
      BY <1>1, <2>1 DEF Frames
    <3>3. e = Append(d, q[1][2])
      BY <1>1, <2>1
    <3>4. /\ Len(d) \in Nat /\ Len(e) = Len(d) + 1 /\ e[Len(d) + 1] = q[1][2]
          /\ \A i \in 1..Len(d) : e[i] = d[i]
      BY <3>2, <3>3, AppendFacts
    <3>5. \A i \in 1..Len(e) : i \in 1..Len(d) \/ i = Len(d) + 1
      BY <3>4
    <3>6. \A i \in 1..Len(e) : e[i] = u[i]
      BY <3>1, <3>4, <3>5 DEF Prefix
    <3> QED
      BY <3>1, <3>4, <3>6 DEF Prefix
  <2>2. CASE q[1][1] # "event"
    BY <1>1, <1>2, <2>0, <2>2 DEF Matches
  <2> QED
    BY <2>1, <2>2
<1>4. /\ p \in [0..(n - 1) -> Nat] /\ p[0] = Len(e) /\ p[n - 1] = pos[n]
      /\ \A i \in 0..(n - 1) : p[i] = pos[i + 1]
  <2>1. \A i \in 0..(n - 1) : i + 1 \in 0..n
    BY <1>1
  <2> QED
    BY <1>1, <1>2, <1>3, <2>1
<1> HIDE DEF p, t
<1>5. ASSUME NEW i \in 1..(n - 1)
      PROVE  /\ t[i][1] = "event" => /\ p[i] = p[i - 1] + 1 /\ p[i] <= Len(u)
                                     /\ t[i][2] = u[p[i]]
             /\ t[i][1] # "event" => p[i] = p[i - 1]
  <2>1. /\ i + 1 \in 1..n /\ i \in 0..(n - 1) /\ i - 1 \in 0..(n - 1)
        /\ (i - 1) + 1 = i /\ (i + 1) - 1 = i
    BY <1>1
  <2>2. t[i] = q[i + 1] /\ p[i] = pos[i + 1] /\ p[i - 1] = pos[i]
    BY <1>1, <1>4, <2>1
  <2> QED
    BY <2>1, <2>2 DEF Matches
<1>6. Matches(t, e, u, p) /\ p[Len(t)] = pos[Len(q)]
  BY <1>1, <1>4, <1>5 DEF Matches
<1>7. HoldsNext(t, e, u) /\ (pos[n] = Len(u) => HoldsAll(t, e, u))
  BY <1>6 DEF HoldsNext, HoldsAll
<1> QED
  BY <1>3, <1>7 DEF t

\* While the writer runs, the channel matches what is due; while the channel is
\* open, it holds all of it.
Fed(c) ==
    /\ Prefix(delivered[c], due[c])
    /\ wr[c] # "gone" => /\ HoldsNext(sendq[c], delivered[c], due[c])
                         /\ ~closed[c] => HoldsAll(sendq[c], delivered[c], due[c])

FeedInv ==
    /\ \A c \in Clients : Fed(c)
    /\ \A c \in Clients : rd[c] \in {"none", "register"} => wr[c] = "none"

\* Writers do not come back, and closed channels are not opened again.
Forward(c) ==
    /\ wr[c] = "gone" => wr'[c] = "gone"
    /\ closed[c] => closed'[c]

\* No step starts a writer again or opens a channel again.
LEMMA GoesForward ==
    ASSUME TypeInv, FeedInv, Next
    PROVE  \A x \in Clients : /\ Forward(x)
                              /\ rd'[x] \in {"none", "register"} => wr'[x] = "none"
<1> USE DEF tableVars, hubVars, connVars, histVars
<1>0. /\ ConnTypes /\ ReaderTypes
      /\ \A x \in Clients : rd[x] \in {"none", "register"} => wr[x] = "none"
  BY DEF TypeInv, FeedInv
<1> DEFINE K == UNCHANGED <<wr, closed, rd>>
           G == \A x \in Clients : /\ Forward(x)
                                   /\ rd'[x] \in {"none", "register"} => wr'[x] = "none"
<1>1. K => G
  BY <1>0 DEF Forward
<1>2. ASSUME NEW c \in Clients, closed' = [closed EXCEPT ![c] = TRUE], UNCHANGED <<wr, rd>> PROVE G
  BY <1>0, <1>2 DEF Forward, ConnTypes
<1>3. ASSUME HubUnregister \/ \E c \in Clients : HubVisit(c) PROVE G
  <2>1. UNCHANGED <<wr, rd>>
    BY <1>3 DEF HubUnregister, HubVisit
  <2>2. CASE HubUnregister
    <3>1. unregister \in Seq(Clients) /\ unregister # <<>>
      BY <2>2 DEF TypeInv, ChanTypes, HubUnregister
    <3>2. Head(unregister) \in Clients
      BY <3>1, TailFacts
    <3> QED
      BY <1>1, <1>2, <2>1, <2>2, <3>2 DEF HubUnregister, Drop
  <2>3. ASSUME NEW c \in Clients, HubVisit(c) PROVE G
    BY <1>1, <1>2, <2>1, <2>3 DEF HubVisit, Deliver, Drop
  <2> QED
    BY <1>3, <2>2, <2>3
<1>4. ASSUME NEW c \in Clients, wr' = [wr EXCEPT ![c] = "gone"], rd[c] \notin {"none", "register"},
             UNCHANGED <<closed, rd>>
      PROVE  G
  BY <1>0, <1>4 DEF Forward, ConnTypes
<1>5. ASSUME NEW c \in Clients, WriterStep(c) \/ PingError(c) PROVE G
  <2>1. wr[c] = "run" /\ UNCHANGED <<closed, rd>>
    BY <1>5 DEF WriterStep, WriteFrame, WriteClose, PingError
  <2>2. rd[c] \notin {"none", "register"}
    BY <1>0, <2>1
  <2>3. wr' = wr \/ wr' = [wr EXCEPT ![c] = "gone"]
    BY <1>5 DEF WriterStep, WriteFrame, WriteClose, PingError, StopWriter
  <2> QED
    BY <1>1, <1>4, <2>1, <2>2, <2>3
<1>6. ASSUME NEW c \in Clients, Register(c) PROVE G
  BY <1>0, <1>6 DEF Register, Forward, ConnTypes, ReaderTypes
<1>7. ASSUME NEW c \in Clients, NEW t \in ReaderStates, rd' = [rd EXCEPT ![c] = t],
             t = "register" => rd[c] = "none", t # "none", UNCHANGED <<wr, closed>>
      PROVE  G
  BY <1>0, <1>7 DEF Forward, ReaderTypes
<1>8. ASSUME NEW c \in Clients,
             \/ Connect(c) \/ WriteSubscription(c) \/ Acknowledge(c) \/ ReadError(c) \/ Leave(c)
             \/ \E m \in Messages : ReadMessage(c, m)
      PROVE  G
  <2>1. \E t \in ReaderStates \ {"none"} :
            rd' = [rd EXCEPT ![c] = t] /\ (t = "register" => rd[c] = "none")
    BY <1>8 DEF Connect, WriteSubscription, Acknowledge, ReadError, Leave, ReadMessage, ReaderStates
  <2>2. UNCHANGED <<wr, closed>>
    BY <1>8 DEF Connect, WriteSubscription, Acknowledge, ReadError, Leave, ReadMessage
  <2> QED
    BY <1>7, <2>1, <2>2
<1>9. HubRegister \/ HubTake => K
  BY DEF HubRegister, HubTake
<1>10. ASSUME NEW c \in Clients, ReplayStep(c) \/ Hangup(c) \/ MapRace(c)
       PROVE  K
  BY <1>10 DEF ReplayStep, ReplayQuery, ReplaySend, Hangup, MapRace
<1>11. ASSUME NEW n \in 1..Len(log), Appended(n) \/ Broadcast(n) \/ RunGC(n)
       PROVE  K
  BY <1>11 DEF Appended, Broadcast, RunGC
<1>12. ASSUME NEW u, NEW p, AppendEvent(p) \/ AccessRevoked(u, p) PROVE K
  BY <1>12 DEF AppendEvent, AccessRevoked
<1> HIDE DEF G, K
<1>13. HubStep => G
  BY <1>1, <1>3, <1>9 DEF HubStep
<1>14. ASSUME NEW c \in Clients, ReaderStep(c) \/ WriterStep(c) \/ ReplayStep(c) PROVE G
  BY <1>1, <1>5, <1>6, <1>8, <1>10, <1>14 DEF ReaderStep
<1>15. Environment => G
  BY <1>1, <1>5, <1>8, <1>10, <1>11, <1>12 DEF Environment
<1>16. G
  BY <1>13, <1>14, <1>15 DEF Next
<1> QED
  BY <1>16 DEF G

\* A client that the step leaves alone.
LEMMA FedStays ==
    ASSUME NEW x \in Clients, Fed(x), Forward(x),
           sendq'[x] = sendq[x], delivered'[x] = delivered[x], due'[x] = due[x]
    PROVE  Fed(x)'
BY DEF Fed, Forward

\* A client that is sent a frame other than an event, if it fits.
LEMMA FedFrame ==
    ASSUME TypeInv, NEW x \in Clients, Fed(x), Forward(x), NEW f \in Frames, f[1] # "event",
           sendq'[x] = Append(sendq[x], f), delivered'[x] = delivered[x], due'[x] = due[x]
    PROVE  Fed(x)'
<1>1. sendq[x] \in Seq(Frames)
  BY DEF TypeInv, QueueTypes
<1>2. HoldsNext(sendq[x], delivered[x], due[x]) => HoldsNext(Append(sendq[x], f), delivered[x], due[x])
  BY <1>1, MatchFrame DEF HoldsNext
<1>3. HoldsAll(sendq[x], delivered[x], due[x]) => HoldsAll(Append(sendq[x], f), delivered[x], due[x])
  BY <1>1, MatchFrame DEF HoldsAll
<1> QED
  BY <1>2, <1>3 DEF Fed, Forward

\* The fan-out comes to a client.
LEMMA FedVisit ==
    ASSUME TypeInv, RegisteredIsOpen, NEW c \in Clients, HubVisit(c), Fed(c), Forward(c)
    PROVE  Fed(c)'
<1>1. /\ sendq[c] \in Seq(Frames) /\ due[c] \in Seq(1..MaxEvents)
      /\ fan \in 1..MaxEvents /\ c \in clients
  BY DEF TypeInv, QueueTypes, HistTypes, ChanTypes, HubVisit
<1>2. ~closed[c] /\ delivered' = delivered /\ wr' = wr
  BY <1>1 DEF RegisteredIsOpen, HubVisit
<1>3. CASE UNCHANGED <<due, sendq>>
  BY <1>2, <1>3, FedStays
<1>4. CASE due' = [due EXCEPT ![c] = Append(@, fan)]
  <2>1. due'[c] = Append(due[c], fan)
    BY <1>4 DEF TypeInv, HistTypes
  <2>2. Prefix(delivered[c], due[c])' 
    <3>1. /\ Len(due[c]) \in Nat /\ Len(due'[c]) = Len(due[c]) + 1
          /\ \A i \in 1..Len(due[c]) : due'[c][i] = due[c][i]
      BY <1>1, <2>1, AppendFacts
    <3>2. Len(delivered[c]) \in Nat
      BY DEF TypeInv, HistTypes
    <3> QED
      BY <1>2, <3>1, <3>2 DEF Fed, Prefix
  <2>3. ASSUME wr[c] # "gone", sendq' = [sendq EXCEPT ![c] = Append(@, Event(fan))]
        PROVE  Fed(c)'
    <3>1. sendq'[c] = Append(sendq[c], Event(fan))
      BY <2>3 DEF TypeInv, QueueTypes
    <3>2. HoldsAll(sendq[c], delivered[c], due[c])
      BY <1>2, <2>3 DEF Fed
    <3>3. HoldsAll(Append(sendq[c], Event(fan)), delivered[c], Append(due[c], fan))
      BY <1>1, <3>2, MatchEvent
    <3>4. HoldsAll(sendq'[c], delivered'[c], due'[c])
      BY <1>2, <2>1, <3>1, <3>3
    <3>5. HoldsNext(sendq'[c], delivered'[c], due'[c])
      BY <3>4 DEF HoldsNext, HoldsAll
    <3> QED
      BY <2>2, <3>4, <3>5 DEF Fed
  <2>4. ASSUME wr[c] # "gone", Drop(c), sendq' = sendq PROVE Fed(c)'
    <3>1. PICK pos : Matches(sendq[c], delivered[c], due[c], pos)
      BY <2>4 DEF Fed, HoldsNext
    <3>2. Matches(sendq[c], delivered[c], Append(due[c], fan), pos)
      BY <1>1, <3>1, MatchDue
    <3>3. closed'[c]
      BY <2>4 DEF Drop, TypeInv, ConnTypes
    <3>4. HoldsNext(sendq'[c], delivered'[c], due'[c])
      BY <1>2, <2>1, <2>4, <3>2 DEF HoldsNext
    <3> QED
      BY <2>2, <3>3, <3>4 DEF Fed
  <2>5. \/ sendq' = [sendq EXCEPT ![c] = Append(@, Event(fan))]
        \/ Drop(c) /\ sendq' = sendq
        \/ UNCHANGED <<due, sendq>>
    BY DEF HubVisit, Deliver
  <2> QED
    BY <1>2, <1>3, <2>2, <2>3, <2>4, <2>5 DEF Fed
<1> QED
  BY <1>3, <1>4 DEF HubVisit, Deliver

\* The writer takes a frame, and writes it or stops.
LEMMA FedWrite ==
    ASSUME TypeInv, NEW c \in Clients, WriteFrame(c), Fed(c), Forward(c)
    PROVE  Fed(c)'
<1> DEFINE f == Head(sendq[c])
<1>1. /\ sendq[c] \in Seq(Frames) /\ sendq[c] # <<>> /\ delivered[c] \in Seq(1..MaxEvents)
      /\ Len(due[c]) \in Nat /\ due' = due /\ closed' = closed /\ wr[c] = "run"
      /\ sendq'[c] = Tail(sendq[c])
  BY DEF TypeInv, QueueTypes, HistTypes, WriteFrame, connVars
<1>2. CASE StopWriter(c) /\ delivered' = delivered
  <2>1. wr'[c] = "gone"
    BY <1>2 DEF StopWriter, TypeInv, ConnTypes
  <2> QED
    BY <1>1, <1>2, <2>1 DEF Fed
<1>3. CASE delivered' = [delivered EXCEPT ![c] = IF f[1] = "event" THEN Append(@, f[2]) ELSE @]
  <2>1. /\ f[1] = "event" => delivered'[c] = Append(delivered[c], f[2])
        /\ f[1] # "event" => delivered'[c] = delivered[c]
    BY <1>3 DEF TypeInv, HistTypes
  <2>2. /\ Prefix(delivered[c], due[c])
        /\ HoldsNext(sendq[c], delivered[c], due[c])
        /\ ~closed[c] => HoldsAll(sendq[c], delivered[c], due[c])
    BY <1>1 DEF Fed
  <2> HIDE DEF f
  <2>3. f = Head(sendq[c])
    BY DEF f
  <2>4. ASSUME NEW pos, Matches(sendq[c], delivered[c], due[c], pos)
        PROVE  /\ Prefix(delivered'[c], due[c])
               /\ HoldsNext(Tail(sendq[c]), delivered'[c], due[c])
               /\ pos[Len(sendq[c])] = Len(due[c]) => HoldsAll(Tail(sendq[c]), delivered'[c], due[c])
    BY <1>1, <2>1, <2>2, <2>3, <2>4, MatchWrite
  <2>5. Prefix(delivered'[c], due[c]) /\ HoldsNext(Tail(sendq[c]), delivered'[c], due[c])
    BY <2>2, <2>4 DEF HoldsNext
  <2>6. ~closed[c] => HoldsAll(Tail(sendq[c]), delivered'[c], due[c])
    BY <2>2, <2>4 DEF HoldsAll
  <2> QED
    BY <1>1, <2>5, <2>6 DEF Fed
<1> QED
  BY <1>2, <1>3 DEF WriteFrame

\* Whoever takes a step, every client stays fed in order.
LEMMA NextFeed ==
    ASSUME TypeInv, RegisteredIsOpen, FeedInv, Next
    PROVE  FeedInv'
<1>0. /\ \A x \in Clients : Fed(x) /\ Forward(x)
      /\ \A x \in Clients : rd'[x] \in {"none", "register"} => wr'[x] = "none"
  BY GoesForward DEF FeedInv
<1> DEFINE F == \A x \in Clients : Fed(x)'
<1>1. CASE sendq' = sendq /\ due' = due /\ delivered' = delivered
  BY <1>0, <1>1, FedStays DEF FeedInv
<1>2. ASSUME NEW c \in Clients, HubVisit(c) PROVE F
  <2>1. /\ Fed(c)' /\ delivered' = delivered
    BY <1>0, <1>2, FedVisit DEF HubVisit
  <2>2. \A x \in Clients \ {c} : sendq'[x] = sendq[x] /\ due'[x] = due[x]
    BY <1>2 DEF HubVisit, Deliver, TypeInv, QueueTypes, HistTypes
  <2> QED
    BY <1>0, <2>1, <2>2, FedStays
<1>3. ASSUME NEW c \in Clients, WriteFrame(c) PROVE F
  <2>1. Fed(c)' /\ due' = due
    BY <1>0, <1>3, FedWrite DEF WriteFrame
  <2>2. \A x \in Clients \ {c} : sendq'[x] = sendq[x] /\ delivered'[x] = delivered[x]
    BY <1>3 DEF WriteFrame, TypeInv, QueueTypes, HistTypes
  <2> QED
    BY <1>0, <2>1, <2>2, FedStays
<1>4. ASSUME NEW f \in Frames, f[1] # "event", due' = due, delivered' = delivered,
             \A x \in Clients : sendq'[x] \in {sendq[x], TrySend(sendq[x], f)}
      PROVE  F
  <2>1. ASSUME NEW x \in Clients PROVE Fed(x)'
    <3>1. sendq'[x] = sendq[x] \/ sendq'[x] = Append(sendq[x], f)
      BY <1>4 DEF TrySend
    <3> QED
      BY <1>0, <1>4, <3>1, FedStays, FedFrame
  <2> QED
    BY <2>1
<1>5. ASSUME NEW c \in Clients, Acknowledge(c) PROVE F
  <2>1. <<"subscribed", 0>> \in Frames /\ <<"subscribed", 0>>[1] # "event"
    BY DEF Frames
  <2>2. \A x \in Clients : sendq'[x] \in {sendq[x], TrySend(sendq[x], <<"subscribed", 0>>)}
    BY <1>5 DEF Acknowledge, TypeInv, QueueTypes
  <2>3. due' = due /\ delivered' = delivered
    BY <1>5 DEF Acknowledge, histVars
  <2> QED
    BY <1>4, <2>1, <2>2, <2>3
<1>6. ASSUME NEW c \in Clients, NEW k \in Replays, ReplaySend(c, k) PROVE F
  <2> DEFINE f == Head(rows[c][k])
  <2>1. rows[c][k] \in Seq(ReplayFrames) /\ rows[c][k] # <<>>
    BY <1>6 DEF TypeInv, ReplayTypes, ReplaySend
  <2>2. f \in ReplayFrames
    BY <2>1, TailFacts
  <2>3. f \in Frames /\ f[1] # "event"
    BY <2>2 DEF ReplayFrames, Frames
  <2>4. \A x \in Clients : sendq'[x] \in {sendq[x], TrySend(sendq[x], f)}
    BY <1>6 DEF ReplaySend, TypeInv, QueueTypes
  <2>5. due' = due /\ delivered' = delivered
    BY <1>6 DEF ReplaySend
  <2> HIDE DEF f
  <2> QED
    BY <1>4, <2>3, <2>4, <2>5
<1>7. ASSUME NEW u \in Users, NEW p \in Projects, AccessRevoked(u, p) PROVE F
  <2>1. <<"accessRevoked", 0>> \in Frames /\ <<"accessRevoked", 0>>[1] # "event"
    BY DEF Frames
  <2>2. \A x \in Clients : sendq'[x] \in {sendq[x], TrySend(sendq[x], <<"accessRevoked", 0>>)}
    BY <1>7 DEF AccessRevoked
  <2>3. due' = due /\ delivered' = delivered
    BY <1>7 DEF AccessRevoked, histVars
  <2> QED
    BY <1>4, <2>1, <2>2, <2>3
<1>8. F => FeedInv'
  BY <1>0 DEF FeedInv
<1> HIDE DEF F
<1> QED
  BY <1>1, <1>2, <1>3, <1>5, <1>6, <1>7, <1>8, QueueChanges
-----------------------------------------------------------------------------
(***************************************************************************)
(* The order of the live feed: events are due in the order of broadcast.   *)
(***************************************************************************)
\* How many events the hub has received of those broadcast.
Taken == Len(sent) - Len(broadcast)

\* The channel hub.broadcast holds the events broadcast last, and the one being
\* fanned out was the last to be received.
ChannelInv ==
    /\ Taken \in Nat
    /\ \A i \in 1..Len(broadcast) : broadcast[i] = sent[Taken + i]
    /\ fan # 0 => Taken >= 1 /\ fan = sent[Taken]

\* What was due to c had been received, and before the event that has yet to
\* come to it.
Earlier(c, e) == \E x \in 1..Taken : sent[x] = e /\ (c \in todo => x < Taken)

Ordered(u) ==
    \A i, j \in 1..Len(u) : i < j =>
        \E x, y \in 1..Len(sent) : x < y /\ sent[x] = u[i] /\ sent[y] = u[j]

OrderInv ==
    /\ ChannelInv
    /\ \A c \in Clients : /\ \A i \in 1..Len(due[c]) : Earlier(c, due[c][i])
                          /\ Ordered(due[c])

\* An event is broadcast: nothing that was received moves.
LEMMA OrderBroadcast ==
    ASSUME TypeInv, OrderInv, NEW n \in 1..Len(log), Broadcast(n)
    PROVE  OrderInv'
<1>1. /\ sent \in Seq(1..MaxEvents) /\ broadcast \in Seq(1..MaxEvents) /\ n \in 1..MaxEvents
      /\ sent' = Append(sent, n) /\ broadcast' = Append(broadcast, n)
      /\ fan' = fan /\ todo' = todo /\ due' = due
  <2>1. n \in 1..MaxEvents
    BY HubAssumption DEF TypeInv, TableTypes
  <2> QED
    BY <2>1 DEF TypeInv, TableTypes, ChanTypes, Broadcast
<1>2. /\ Len(sent) \in Nat /\ Len(sent') = Len(sent) + 1 /\ sent'[Len(sent) + 1] = n
      /\ \A i \in 1..Len(sent) : sent'[i] = sent[i]
  BY <1>1, AppendFacts
<1>3. /\ Len(broadcast) \in Nat /\ Len(broadcast') = Len(broadcast) + 1
      /\ broadcast'[Len(broadcast) + 1] = n
      /\ \A i \in 1..Len(broadcast) : broadcast'[i] = broadcast[i]
  BY <1>1, AppendFacts
<1>4. /\ Taken' = Taken /\ Taken \in Nat /\ Taken + Len(broadcast) = Len(sent)
  BY <1>2, <1>3 DEF Taken, OrderInv, ChannelInv
<1>5. \A x \in 1..Taken : x \in 1..Len(sent) /\ sent'[x] = sent[x]
  BY <1>2, <1>3, <1>4
<1>6. ChannelInv'
  <2>1. ASSUME NEW i \in 1..Len(broadcast') PROVE broadcast'[i] = sent'[Taken + i]
    <3>1. CASE i = Len(broadcast) + 1
      BY <1>2, <1>3, <1>4, <3>1
    <3>2. CASE i # Len(broadcast) + 1
      <4>1. i \in 1..Len(broadcast) /\ Taken + i \in 1..Len(sent)
        BY <1>3, <1>4, <3>2
      <4> QED
        BY <1>2, <1>3, <4>1 DEF OrderInv, ChannelInv
    <3> QED
      BY <3>1, <3>2
  <2>2. fan # 0 => Taken >= 1 /\ fan = sent'[Taken]
    <3>1. fan # 0 => Taken >= 1 /\ fan = sent[Taken]
      BY DEF OrderInv, ChannelInv
    <3>2. Taken >= 1 => Taken \in 1..Taken
      BY <1>4
    <3> QED
      BY <1>5, <3>1, <3>2
  <2> QED
    BY <1>1, <1>4, <2>1, <2>2 DEF ChannelInv
<1>7. \A c \in Clients : \A e : Earlier(c, e) => Earlier(c, e)'
  BY <1>1, <1>4, <1>5 DEF Earlier
<1>8. \A u : Ordered(u) => Ordered(u)'
  <2>1. \A x \in 1..Len(sent) : x \in 1..Len(sent') /\ sent'[x] = sent[x]
    BY <1>2
  <2> QED
    BY <2>1 DEF Ordered
<1> QED
  BY <1>1, <1>6, <1>7, <1>8 DEF OrderInv

\* The hub receives an event: it comes after all that were due.
LEMMA OrderTake ==
    ASSUME TypeInv, OrderInv, HubTake
    PROVE  OrderInv'
<1>1. /\ sent \in Seq(1..MaxEvents) /\ broadcast \in Seq(1..MaxEvents) /\ broadcast # <<>>
      /\ broadcast' = Tail(broadcast) /\ sent' = sent /\ due' = due
      /\ fan' = 0 \/ fan' = Head(broadcast)
  BY DEF TypeInv, TableTypes, ChanTypes, HubTake, tableVars, connVars
<1>2. /\ Len(broadcast) \in Nat /\ Len(broadcast) >= 1 /\ Len(broadcast') = Len(broadcast) - 1
      /\ Head(broadcast) = broadcast[1]
      /\ \A i \in 1..(Len(broadcast) - 1) : broadcast'[i] = broadcast[i + 1]
  BY <1>1, TailFacts
<1>3. Len(sent) \in Nat /\ Taken \in Nat /\ Taken' = Taken + 1
  BY <1>1, <1>2 DEF Taken, OrderInv, ChannelInv
<1>4. ChannelInv'
  <2>1. ASSUME NEW i \in 1..Len(broadcast') PROVE broadcast'[i] = sent[Taken' + i]
    <3>1. i + 1 \in 1..Len(broadcast) /\ Taken' + i = Taken + (i + 1) /\ i \in 1..(Len(broadcast) - 1)
      BY <1>2, <1>3
    <3> QED
      BY <1>2, <3>1 DEF OrderInv, ChannelInv
  <2>2. 1 \in 1..Len(broadcast) /\ Taken' = Taken + 1
    BY <1>2, <1>3
  <2>3. fan' # 0 => Taken' >= 1 /\ fan' = sent[Taken']
    BY <1>1, <1>2, <1>3, <2>2 DEF OrderInv, ChannelInv
  <2> QED
    BY <1>1, <1>3, <2>1, <2>3 DEF ChannelInv
<1>5. \A c \in Clients : \A e : Earlier(c, e) => Earlier(c, e)'
  <2>1. \A x \in 1..Taken : x \in 1..Taken' /\ x < Taken'
    BY <1>3
  <2> QED
    BY <1>1, <2>1 DEF Earlier
<1> QED
  BY <1>1, <1>4, <1>5 DEF OrderInv, Ordered

\* The fan-out comes to a client: the event is the last of those due to it.
LEMMA OrderVisit ==
    ASSUME TypeInv, OrderInv, NEW c \in Clients, HubVisit(c)
    PROVE  OrderInv'
<1>1. /\ sent' = sent /\ broadcast' = broadcast /\ todo' = todo \ {c} /\ c \in todo
      /\ fan \in 1..MaxEvents /\ fan' \in {0, fan} /\ Taken' = Taken
  BY DEF TypeInv, ChanTypes, HubVisit, Taken, tableVars
<1>2. Taken \in Nat /\ Taken >= 1 /\ fan = sent[Taken] /\ Taken \in 1..Taken
  BY <1>1 DEF OrderInv, ChannelInv
<1>3. ChannelInv'
  BY <1>1 DEF OrderInv, ChannelInv
<1> DEFINE Past(x, e) == \E y \in 1..Taken : sent[y] = e /\ (x \in todo \ {c} => y < Taken)
<1>4. \A x \in Clients : \A e : Earlier(x, e) => Past(x, e)
  BY DEF Earlier
<1>5. Past(c, fan)
  BY <1>2
<1>6. due \in [Clients -> Seq(1..MaxEvents)] /\ Len(sent) \in Nat /\ Taken <= Len(sent)
  <2>1. Len(sent) \in Nat /\ Len(broadcast) \in Nat
    BY DEF TypeInv, TableTypes, ChanTypes
  <2> QED
    BY <2>1 DEF TypeInv, HistTypes, Taken
<1>7. ASSUME \A x \in Clients : /\ \A i \in 1..Len(due'[x]) : Past(x, due'[x][i])
                                /\ Ordered(due'[x])
      PROVE  OrderInv'
  <2>1. \A x \in Clients : /\ \A i \in 1..Len(due'[x]) :
                                \E y \in 1..Taken' : sent'[y] = due'[x][i] /\ (x \in todo' => y < Taken')
                           /\ \A i, j \in 1..Len(due'[x]) : i < j =>
                                \E y, z \in 1..Len(sent') : y < z /\ sent'[y] = due'[x][i] /\ sent'[z] = due'[x][j]
    BY <1>1, <1>7 DEF Ordered
  <2> QED
    BY <1>3, <2>1 DEF OrderInv, Earlier, Ordered
<1>8. CASE due' = due
  <2>1. \A x \in Clients : (\A i \in 1..Len(due[x]) : Past(x, due[x][i])) /\ Ordered(due[x])
    BY <1>4 DEF OrderInv
  <2> QED
    BY <1>7, <1>8, <2>1
<1>9. CASE due' = [due EXCEPT ![c] = Append(@, fan)]
  <2> DEFINE u == due[c]
             v == due'[c]
  <2>1. v = Append(u, fan) /\ \A x \in Clients \ {c} : due'[x] = due[x]
    BY <1>6, <1>9
  <2>2. /\ Len(u) \in Nat /\ Len(v) = Len(u) + 1 /\ v[Len(u) + 1] = fan
        /\ \A i \in 1..Len(u) : v[i] = u[i]
    BY <1>1, <1>6, <2>1, AppendFacts
  <2>3. /\ \A i \in 1..Len(u) : Earlier(c, u[i])
        /\ Ordered(u)
    BY DEF OrderInv
  <2> HIDE DEF u, v
  <2>4. \A i \in 1..Len(v) : i \in 1..Len(u) \/ i = Len(u) + 1
    BY <2>2
  <2> HIDE DEF Past
  <2>5. \A i \in 1..Len(v) : Past(c, v[i])
    BY <1>4, <1>5, <2>2, <2>3, <2>4
  <2>6. ASSUME NEW i \in 1..Len(v), NEW j \in 1..Len(v), i < j
        PROVE  \E x, y \in 1..Len(sent) : x < y /\ sent[x] = v[i] /\ sent[y] = v[j]
    <3>1. i \in 1..Len(u)
      BY <2>2, <2>6
    <3>2. CASE j \in 1..Len(u)
      <4>1. \E x, y \in 1..Len(sent) : x < y /\ sent[x] = u[i] /\ sent[y] = u[j]
        BY <2>3, <2>6, <3>1, <3>2 DEF Ordered
      <4>2. v[i] = u[i] /\ v[j] = u[j]
        BY <2>2, <3>1, <3>2
      <4> QED
        BY <4>1, <4>2
    <3>3. CASE j = Len(u) + 1
      <4>1. PICK x \in 1..Taken : sent[x] = u[i] /\ x < Taken
        BY <1>1, <2>3, <3>1 DEF Earlier
      <4>2. x \in 1..Len(sent) /\ Taken \in 1..Len(sent)
        BY <1>2, <1>6
      <4> QED
        BY <1>2, <2>2, <3>1, <3>3, <4>1, <4>2
    <3> QED
      BY <2>4, <3>2, <3>3
  <2>7. Ordered(v)
    BY <2>6 DEF Ordered
  <2>8. ASSUME NEW x \in Clients \ {c}
        PROVE  (\A i \in 1..Len(due'[x]) : Past(x, due'[x][i])) /\ Ordered(due'[x])
    BY <1>4, <2>1 DEF OrderInv
  <2>9. (\A i \in 1..Len(due'[c]) : Past(c, due'[c][i])) /\ Ordered(due'[c])
    BY <2>5, <2>7 DEF v
  <2> QED
    BY <1>7, <2>8, <2>9
<1> QED
  BY <1>8, <1>9 DEF HubVisit, Deliver

\* No other step concerns the order.
LEMMA NextOrder ==
    ASSUME TypeInv, OrderInv, Next
    PROVE  OrderInv'
<1> USE DEF tableVars, hubVars, connVars, histVars
<1> DEFINE K == sent' = sent /\ broadcast' = broadcast /\ fan' = fan /\ todo' = todo /\ due' = due
<1>1. K => OrderInv'
  BY DEF OrderInv, ChannelInv, Earlier, Ordered, Taken
<1>2. HubRegister \/ HubUnregister => K
  BY DEF HubRegister, HubUnregister
<1>3. ASSUME NEW c \in Clients, ReaderStep(c) \/ WriterStep(c) \/ ReplayStep(c) PROVE K
  BY <1>3 DEF ReaderStep, Register, WriteSubscription, Acknowledge, ReadError, Leave,
              WriterStep, WriteFrame, WriteClose, PingError, ReplayStep, ReplayQuery, ReplaySend
<1>4. ASSUME NEW c \in Clients,
             \/ Connect(c) \/ Hangup(c) \/ PingError(c) \/ MapRace(c)
             \/ \E m \in Messages : ReadMessage(c, m)
      PROVE  K
  BY <1>4 DEF Connect, Hangup, PingError, MapRace, ReadMessage
<1>5. ASSUME NEW n \in 1..Len(log), Appended(n) \/ RunGC(n) PROVE K
  BY <1>5 DEF Appended, RunGC
<1>6. ASSUME NEW u, NEW p, AppendEvent(p) \/ AccessRevoked(u, p) PROVE K
  BY <1>6 DEF AppendEvent, AccessRevoked
<1> HIDE DEF K
<1>7. HubStep => OrderInv'
  BY <1>1, <1>2, OrderTake, OrderVisit DEF HubStep
<1>8. Environment => OrderInv'
  BY <1>1, <1>4, <1>5, <1>6, OrderBroadcast DEF Environment
<1> QED
  BY <1>1, <1>3, <1>7, <1>8 DEF Next
-----------------------------------------------------------------------------
\* The inductive invariant of the live feed.
LiveInv == TypeInv /\ HubInv /\ FeedInv /\ OrderInv

\* Nobody is due anything at the start.
LEMMA InitLive == Init => LiveInv
<1> SUFFICES ASSUME Init PROVE FeedInv /\ OrderInv
  BY InitTypes, InitHub DEF LiveInv
<1>1. ASSUME NEW c \in Clients PROVE Fed(c)
  <2>1. sendq[c] = <<>> /\ delivered[c] = <<>> /\ due[c] = <<>>
    BY DEF Init
  <2>2. Matches(<<>>, <<>>, <<>>, [i \in 0..0 |-> 0]) /\ [i \in 0..0 |-> 0][Len(<<>>)] = Len(<<>>)
    BY DEF Matches
  <2> QED
    BY <2>1, <2>2 DEF Fed, HoldsNext, HoldsAll, Prefix
<1>2. FeedInv
  BY <1>1 DEF FeedInv, Init
<1>3. OrderInv
  BY DEF Init, OrderInv, ChannelInv, Taken, Ordered
<1> QED
  BY <1>2, <1>3

\* The invariant of the live feed holds throughout.
THEOREM LiveCorrect == Spec => []LiveInv
<1>1. ASSUME LiveInv, [Next]_vars PROVE LiveInv'
  <2>1. CASE Next
    BY <1>1, <2>1, NextTypes, NextHub, NextFeed, NextOrder DEF LiveInv, HubInv
  <2>2. CASE UNCHANGED vars
    <3>1. TypeInv' /\ HubInv'
      BY <1>1, NextTypes, NextHub DEF LiveInv
    <3>2. FeedInv' /\ OrderInv'
      BY <1>1, <2>2
      DEF LiveInv, FeedInv, Fed, OrderInv, ChannelInv, Earlier, Ordered, Taken,
          vars, tableVars, hubVars, connVars, histVars
    <3> QED
      BY <3>1, <3>2 DEF LiveInv
  <2> QED
    BY <1>1, <2>1, <2>2
<1> QED
  BY <1>1, InitLive, PTL DEF Spec

\* However slow clients are dropped, writes break and others send on the same
\* channel, a client receives a prefix of the events fanned out to it, in the
\* order of their broadcast.
THEOREM FeedsHaveNoGap == Spec => []LiveFeedHasNoGap
<1>1. LiveInv => LiveFeedHasNoGap
  BY DEF LiveInv, FeedInv, Fed, Prefix, OrderInv, Ordered, LiveFeedHasNoGap
<1> QED
  BY <1>1, LiveCorrect, PTL
-----------------------------------------------------------------------------
(***************************************************************************)
(* Replays: nothing is skipped                                             *)
(***************************************************************************)
\* Message k of c subscribed to a project and no later one ended it.
Kept(c, k) ==
    /\ inbox[c][k].type = "subscribe"
    /\ \A j \in (k + 1)..Len(inbox[c]) :
          inbox[c][j].type = "unsubscribe" => inbox[c][j].project # inbox[c][k].project

\* What the reader has done with the messages: a subscription that was not
\* ended is in the map, and only an acknowledged one has a replay.
ReaderInv(c) ==
    /\ rd[c] \in {"none", "register"} => inbox[c] = <<>>
    /\ rd[c] = "ack" => msg(c).type = "subscribe"
    /\ \A k \in Replays :
          /\ rp[c][k] # "none" => /\ inbox[c][k].type = "subscribe"
                                  /\ k < Len(inbox[c]) \/ rd[c] \notin {"mapWrite", "ack"}
          /\ rp[c][k] \in {"none", "query"} => rows[c][k] = <<>>
    /\ \A k \in 1..Len(inbox[c]) :
          Kept(c, k) /\ (k < Len(inbox[c]) \/ rd[c] # "mapWrite") => inbox[c][k].project \in subs[c]

\* A client that the step leaves alone.
LEMMA ReaderStays ==
    ASSUME NEW x \in Clients, ReaderInv(x),
           rd'[x] = rd[x], inbox'[x] = inbox[x], subs'[x] = subs[x], rp'[x] = rp[x],
           rows'[x] = rows[x]
    PROVE  ReaderInv(x)'
BY DEF ReaderInv, Kept, msg

\* The reader moves on without a message.
LEMMA ReaderMovesOn ==
    ASSUME NEW x \in Clients, ReaderInv(x),
           rd'[x] = "leave" \/ rd'[x] = "gone" \/ rd'[x] = "read" \/ rd'[x] = "register",
           rd[x] # "mapWrite", rd'[x] = "register" => rd[x] = "none",
           inbox'[x] = inbox[x], subs'[x] = subs[x], rp'[x] = rp[x], rows'[x] = rows[x]
    PROVE  ReaderInv(x)'
BY DEF ReaderInv, Kept, msg

\* A message arrives.
LEMMA ReaderReads ==
    ASSUME TypeInv, NEW c \in Clients, NEW m \in Messages, ReadMessage(c, m), ReaderInv(c)
    PROVE  ReaderInv(c)'
<1> DEFINE q == inbox[c]
           r == inbox'[c]
<1>1. /\ rd[c] = "read" /\ rd'[c] = "mapWrite" /\ q \in Seq(Messages) /\ r = Append(q, m)
      /\ subs' = subs /\ rp' = rp /\ rows' = rows
  BY DEF ReadMessage, TypeInv, ReaderTypes
<1>2. /\ Len(q) \in Nat /\ Len(r) = Len(q) + 1 /\ \A i \in 1..Len(q) : r[i] = q[i]
  BY <1>1, AppendFacts
<1>3. \A k \in Replays : rp[c][k] # "none" => k \in 1..Len(q)
  BY HubAssumption DEF TypeInv, ReplayTypes, Replays
<1> HIDE DEF q, r
<1>4. \A k \in 1..Len(q) : k \in Int /\ k < Len(r) /\ r[k] = q[k]
  BY <1>2
<1>5. \A k \in Replays :
          rp'[c][k] # "none" => r[k].type = "subscribe" /\ k < Len(r)
  BY <1>1, <1>3, <1>4 DEF ReaderInv, q
<1>6. ASSUME NEW k \in 1..Len(r), Kept(c, k)', k < Len(r) PROVE r[k].project \in subs'[c]
  <2>1. k \in 1..Len(q)
    BY <1>2, <1>6
  <2>2. \A j \in (k + 1)..Len(q) : j \in (k + 1)..Len(r) /\ r[j] = q[j]
    BY <1>2, <2>1
  <2>3. Kept(c, k)
    BY <1>4, <1>6, <2>1, <2>2 DEF Kept, q, r
  <2> QED
    BY <1>1, <1>4, <2>1, <2>3 DEF ReaderInv, q
<1> QED
  BY <1>1, <1>5, <1>6 DEF ReaderInv, r

\* The map is written.
LEMMA ReaderWrites ==
    ASSUME TypeInv, NEW c \in Clients, WriteSubscription(c), ReaderInv(c)
    PROVE  ReaderInv(c)'
<1> DEFINE q == inbox[c]
           m == q[Len(q)]
<1>1. /\ rd[c] = "mapWrite" /\ inbox' = inbox /\ rp' = rp /\ rows' = rows
      /\ rd'[c] = IF m.type = "subscribe" THEN "ack" ELSE "read"
      /\ subs'[c] = IF m.type = "subscribe" THEN subs[c] \cup {m.project} ELSE subs[c] \ {m.project}
  BY DEF WriteSubscription, TypeInv, ReaderTypes, msg, AfterWrite
<1>2. q \in Seq(Messages) /\ q # <<>> /\ Len(q) \in Nat /\ Len(q) >= 1 /\ m \in Messages
  <2>1. q \in Seq(Messages) /\ q # <<>>
    BY <1>1 DEF TypeInv, ReaderTypes
  <2>2. Len(q) \in Nat /\ Len(q) >= 1
    BY <2>1, TailFacts
  <2> QED
    BY <2>1, <2>2
<1>3. m.type = "subscribe" \/ m.type = "unsubscribe"
  BY <1>2 DEF Messages
<1>4. \A k \in Replays : rp[c][k] # "none" => q[k].type = "subscribe" /\ k < Len(q)
  BY <1>1 DEF ReaderInv
<1>5. ASSUME NEW k \in 1..Len(q), Kept(c, k) PROVE q[k].project \in subs'[c]
  <2>1. CASE k = Len(q)
    BY <1>1, <1>5, <2>1 DEF Kept
  <2>2. CASE k < Len(q)
    <3>1. q[k].project \in subs[c]
      BY <1>5, <2>2 DEF ReaderInv
    <3>2. Len(q) \in (k + 1)..Len(q)
      BY <1>2, <2>2
    <3>3. m.type = "unsubscribe" => m.project # q[k].project
      BY <1>5, <3>2 DEF Kept
    <3> QED
      BY <1>1, <1>3, <3>1, <3>3
  <2> QED
    BY <1>2, <2>1, <2>2
<1>6. \A k : Kept(c, k)' <=> Kept(c, k)
  BY <1>1 DEF Kept
<1> QED
  BY <1>1, <1>4, <1>5, <1>6 DEF ReaderInv, msg

\* The reader acknowledges a subscription.
LEMMA ReaderAcknowledges ==
    ASSUME TypeInv, NEW c \in Clients, Acknowledge(c), ReaderInv(c)
    PROVE  ReaderInv(c)'
<1>1. rd[c] = "ack" /\ inbox' = inbox /\ rows' = rows /\ subs' = subs /\ rd'[c] \in {"read", "leave"}
  BY DEF Acknowledge, TypeInv, ReaderTypes
<1>2. CASE rp' = rp
  BY <1>1, <1>2, ReaderMovesOn
<1>3. CASE rp' = [rp EXCEPT ![c][Len(inbox[c])] =
                    IF msg(c).since = NoSince THEN "none" ELSE "query"]
  <2> DEFINE L == Len(inbox[c])
  <2>1. L \in Replays /\ ~(L < L)
    BY <1>1, HubAssumption DEF TypeInv, ReaderTypes, Replays
  <2>2. /\ rp'[c][L] \in {"none", "query"}
        /\ \A k \in Replays \ {L} : rp'[c][k] = rp[c][k]
    BY <1>3, <2>1 DEF TypeInv, ReplayTypes
  <2>3. rp[c][L] = "none"
    BY <1>1, <2>1 DEF ReaderInv
  <2>4. inbox[c][L].type = "subscribe" /\ rows[c][L] = <<>>
    BY <1>1, <2>1, <2>3 DEF ReaderInv, msg
  <2>5. \A k : Kept(c, k)' <=> Kept(c, k)
    BY <1>1 DEF Kept
  <2> HIDE DEF L
  <2>6. \A k \in Replays : /\ rp'[c][k] # "none" => inbox[c][k].type = "subscribe"
                           /\ rp'[c][k] \in {"none", "query"} => rows[c][k] = <<>>
    BY <2>2, <2>4 DEF ReaderInv
  <2> QED
    BY <1>1, <2>5, <2>6 DEF ReaderInv
<1> QED
  BY <1>2, <1>3 DEF Acknowledge

\* A replay goes on.
LEMMA ReaderReplays ==
    ASSUME TypeInv, NEW c \in Clients, NEW k \in Replays, ReplayQuery(c, k) \/ ReplaySend(c, k),
           ReaderInv(c)
    PROVE  ReaderInv(c)'
<1>1. /\ rd' = rd /\ inbox' = inbox /\ subs' = subs
      /\ rp[c][k] \in {"query", "send"}
      /\ rp' = rp \/ \E t \in {"send", "done", "failed"} : rp' = [rp EXCEPT ![c][k] = t]
      /\ \A j \in Replays \ {k} : rows'[c][j] = rows[c][j]
      /\ rp'[c][k] = "query" => FALSE
  BY DEF ReplayQuery, ReplaySend, TypeInv, ReplayTypes
<1>2. /\ \A j \in Replays \ {k} : rp'[c][j] = rp[c][j]
      /\ rp'[c][k] \in {"send", "done", "failed"}
  BY <1>1 DEF TypeInv, ReplayTypes
<1>3. \A j : Kept(c, j)' <=> Kept(c, j)
  BY <1>1 DEF Kept
<1> QED
  BY <1>1, <1>2, <1>3 DEF ReaderInv, msg

\* Who changes what: the readers.
LEMMA ReaderChanges ==
    ASSUME Next
    PROVE  \/ rd' = rd /\ inbox' = inbox /\ subs' = subs /\ rp' = rp /\ rows' = rows
           \/ \E c \in Clients : \/ Connect(c) \/ Register(c) \/ ReadError(c) \/ Leave(c)
                                 \/ WriteSubscription(c) \/ Acknowledge(c)
                                 \/ \E m \in Messages : ReadMessage(c, m)
                                 \/ \E k \in Replays : ReplayQuery(c, k) \/ ReplaySend(c, k)
<1> DEFINE K == rd' = rd /\ inbox' = inbox /\ subs' = subs /\ rp' = rp /\ rows' = rows
<1> USE DEF tableVars, hubVars, connVars, histVars
<1>1. HubRegister \/ HubUnregister \/ HubTake => K
  BY DEF HubRegister, HubUnregister, HubTake
<1>2. ASSUME NEW c \in Clients,
             HubVisit(c) \/ WriterStep(c) \/ Hangup(c) \/ PingError(c) \/ MapRace(c)
      PROVE  K
  BY <1>2 DEF HubVisit, WriterStep, WriteFrame, WriteClose, PingError, Hangup, MapRace
<1>3. ASSUME NEW n \in 1..Len(log), Appended(n) \/ Broadcast(n) \/ RunGC(n) PROVE K
  BY <1>3 DEF Appended, Broadcast, RunGC
<1>4. ASSUME NEW u, NEW p, AppendEvent(p) \/ AccessRevoked(u, p) PROVE K
  BY <1>4 DEF AppendEvent, AccessRevoked
<1> HIDE DEF K
<1>5. \/ K
      \/ \E c \in Clients : \/ Connect(c) \/ Register(c) \/ ReadError(c) \/ Leave(c)
                            \/ WriteSubscription(c) \/ Acknowledge(c)
                            \/ \E m \in Messages : ReadMessage(c, m)
                            \/ \E k \in Replays : ReplayQuery(c, k) \/ ReplaySend(c, k)
  BY <1>1, <1>2, <1>3, <1>4 DEF Next, HubStep, ReaderStep, ReplayStep, Environment
<1> QED
  BY <1>5 DEF K

\* Every step keeps the readers in order.
LEMMA NextReader ==
    ASSUME TypeInv, \A x \in Clients : ReaderInv(x), Next
    PROVE  \A x \in Clients : ReaderInv(x)'
<1> DEFINE G == \A x \in Clients : ReaderInv(x)'
           Same(x) == /\ rd'[x] = rd[x] /\ inbox'[x] = inbox[x] /\ subs'[x] = subs[x]
                      /\ rp'[x] = rp[x] /\ rows'[x] = rows[x]
<1> USE DEF tableVars, hubVars, connVars, histVars
<1>1. ASSUME NEW c \in Clients, ReaderInv(c)', \A x \in Clients \ {c} : Same(x) PROVE G
  BY <1>1, ReaderStays
<1>2. ASSUME NEW c \in Clients, Connect(c) \/ Register(c) \/ ReadError(c) \/ Leave(c) PROVE G
  <2>1. /\ rd'[c] \in {"leave", "gone", "read", "register"} /\ rd[c] # "mapWrite"
        /\ rd'[c] = "register" => rd[c] = "none"
        /\ inbox' = inbox /\ subs' = subs /\ rp' = rp /\ rows' = rows
        /\ \A x \in Clients \ {c} : rd'[x] = rd[x]
    BY <1>2 DEF Connect, Register, ReadError, Leave, TypeInv, ReaderTypes
  <2>2. ReaderInv(c)'
    BY <2>1, ReaderMovesOn
  <2> QED
    BY <1>1, <2>1, <2>2
<1>3. ASSUME NEW c \in Clients, WriteSubscription(c) PROVE G
  <2>1. \A x \in Clients \ {c} : Same(x)
    BY <1>3 DEF WriteSubscription, TypeInv, ReaderTypes
  <2> QED
    BY <1>1, <1>3, <2>1, ReaderWrites
<1>4. ASSUME NEW c \in Clients, Acknowledge(c) PROVE G
  <2>1. \A x \in Clients \ {c} : Same(x)
    BY <1>4 DEF Acknowledge, TypeInv, ReaderTypes, ReplayTypes
  <2> QED
    BY <1>1, <1>4, <2>1, ReaderAcknowledges
<1>5. ASSUME NEW c \in Clients, NEW m \in Messages, ReadMessage(c, m) PROVE G
  <2>1. \A x \in Clients \ {c} : Same(x)
    BY <1>5 DEF ReadMessage, TypeInv, ReaderTypes
  <2> QED
    BY <1>1, <1>5, <2>1, ReaderReads
<1>6. ASSUME NEW c \in Clients, NEW k \in Replays, ReplayQuery(c, k) \/ ReplaySend(c, k) PROVE G
  <2>1. \A x \in Clients \ {c} : Same(x)
    BY <1>6 DEF ReplayQuery, ReplaySend, TypeInv, ReaderTypes, ReplayTypes
  <2> QED
    BY <1>1, <1>6, <2>1, ReaderReplays
<1>7. ASSUME rd' = rd, inbox' = inbox, subs' = subs, rp' = rp, rows' = rows PROVE G
  BY <1>7, ReaderStays
<1> HIDE DEF G
<1>8. G
  BY <1>2, <1>3, <1>4, <1>5, <1>6, <1>7, ReaderChanges
<1> QED
  BY <1>8 DEF G

\* The fan-out finds a client subscribed to the project of a replay it asked
\* for, even while the map is being written.
LEMMA SeesProject ==
    ASSUME TypeInv, NEW c \in Clients, ReaderInv(c), NEW k \in Answered(c), NEW s \in SubsSeen(c)
    PROVE  inbox[c][k].project \in s
<1>1. /\ k \in 1..Len(inbox[c]) /\ rp[c][k] # "none" /\ k \in Replays
      /\ inbox[c] \in Seq(Messages)
  BY HubAssumption DEF Answered, TypeInv, ReaderTypes, Replays
<1>2. Len(inbox[c]) \in Nat
  BY <1>1
<1>3. /\ inbox[c][k].type = "subscribe"
      /\ k < Len(inbox[c]) \/ rd[c] \notin {"mapWrite", "ack"}
  BY <1>1 DEF ReaderInv
<1>4. Kept(c, k)
  BY <1>3 DEF Answered, Kept
<1>5. inbox[c][k].project \in subs[c]
  BY <1>1, <1>3, <1>4 DEF ReaderInv
<1>6. CASE Racing(c)
  <2>1. k < Len(inbox[c])
    BY <1>3, <1>6 DEF Racing
  <2>2. Len(inbox[c]) \in (k + 1)..Len(inbox[c]) /\ Len(inbox[c]) \in 1..Len(inbox[c])
    BY <1>1, <1>2, <2>1
  <2>3. msg(c).type = "unsubscribe" => msg(c).project # inbox[c][k].project
    BY <1>4, <2>2 DEF Kept, msg
  <2>4. msg(c).type = "subscribe" \/ msg(c).type = "unsubscribe"
    BY <1>1, <2>2 DEF msg, Messages
  <2>5. inbox[c][k].project \in AfterWrite(c)
    BY <1>5, <2>3, <2>4 DEF AfterWrite
  <2> QED
    BY <1>5, <1>6, <2>5 DEF SubsSeen
<1>7. CASE ~Racing(c)
  BY <1>5, <1>7 DEF SubsSeen
<1> QED
  BY <1>6, <1>7
-----------------------------------------------------------------------------
\* f is one of the elements of q.
In(q, f) == \E i \in 1..Len(q) : q[i] = f

\* The elements of a channel after a send.
LEMMA InAppend ==
    ASSUME NEW S, NEW q \in Seq(S), NEW x \in S, NEW f
    PROVE  In(Append(q, x), f) <=> (In(q, f) \/ f = x)
<1> DEFINE r == Append(q, x)
<1>1. Len(q) \in Nat /\ Len(r) = Len(q) + 1 /\ r[Len(q) + 1] = x /\ \A i \in 1..Len(q) : r[i] = q[i]
  BY AppendFacts
<1> HIDE DEF r
<1>2. /\ Len(q) + 1 \in 1..Len(r)
      /\ \A i \in 1..Len(q) : i \in 1..Len(r)
      /\ \A i \in 1..Len(r) : i \in 1..Len(q) \/ i = Len(q) + 1
  BY <1>1
<1>3. In(r, f) <=> (In(q, f) \/ f = x)
  BY <1>1, <1>2 DEF In
<1> QED
  BY <1>3 DEF r

\* The elements of a channel before a receive.
LEMMA InTail ==
    ASSUME NEW S, NEW q \in Seq(S), q # <<>>, NEW f, In(q, f)
    PROVE  f = Head(q) \/ In(Tail(q), f)
<1> DEFINE r == Tail(q)
<1>1. /\ Len(q) \in Nat /\ Len(r) = Len(q) - 1 /\ Head(q) = q[1]
      /\ \A i \in 1..(Len(q) - 1) : r[i] = q[i + 1]
  BY TailFacts
<1> HIDE DEF r
<1>2. PICK i \in 1..Len(q) : q[i] = f
  BY DEF In
<1>3. CASE i = 1
  BY <1>1, <1>2, <1>3
<1>4. CASE i # 1
  <2>1. i - 1 \in 1..Len(r) /\ (i - 1) + 1 = i /\ i - 1 \in 1..(Len(q) - 1)
    BY <1>1, <1>2, <1>4
  <2>2. r[i - 1] = f
    BY <1>1, <1>2, <2>1
  <2> QED
    BY <2>1, <2>2 DEF In, r
<1> QED
  BY <1>3, <1>4

\* The elements of a channel after a send that may be dropped.
LEMMA InTrySend ==
    ASSUME NEW q \in Seq(Frames), NEW x \in Frames, NEW f
    PROVE  /\ In(q, f) => In(TrySend(q, x), f)
           /\ In(TrySend(q, x), x) \/ TrySend(q, x) = q
<1> QED
  BY InAppend DEF TrySend

\* f was sent to c, or dropped by the replay that came to send it.
Has(c, f) ==
    \/ \E n : f = Event(n) /\ In(delivered[c], n)
    \/ In(sendq[c], f) \/ f \in replayed[c] \/ f \in lost[c]
    \/ \E k \in Replays : In(rows[c][k], f)

\* Has says what Sent says, and what was dropped.
LEMMA HasIsSent ==
    ASSUME NEW c \in Clients, NEW f
    PROVE  f \in Sent(c) \cup lost[c] <=> Has(c, f)
<1>1. f \in {Event(delivered[c][i]) : i \in 1..Len(delivered[c])}
        <=> \E n : f = Event(n) /\ In(delivered[c], n)
  BY DEF In
<1>2. f \in {sendq[c][i] : i \in 1..Len(sendq[c])} <=> In(sendq[c], f)
  BY DEF In
<1>3. f \in UNION {{rows[c][k][i] : i \in 1..Len(rows[c][k])} : k \in Replays}
        <=> \E k \in Replays : In(rows[c][k], f)
  BY DEF In
<1> QED
  BY <1>1, <1>2, <1>3 DEF Has, Sent

\* The frames that replays and the fan-out send.
EventFrames == ({"event"} \X (1..MaxEvents)) \cup ReplayFrames

\* The writer moves a frame from the channel to the connection.
LEMMA HasWrite ==
    ASSUME TypeInv, NEW c \in Clients, WriteFrame(c), wr'[c] # "gone",
           NEW f \in EventFrames, Has(c, f)
    PROVE  Has(c, f)'
<1> DEFINE h == Head(sendq[c])
           q == Tail(sendq[c])
<1>1. /\ sendq[c] \in Seq(Frames) /\ sendq[c] # <<>> /\ delivered[c] \in Seq(1..MaxEvents)
      /\ sendq'[c] = q /\ rows' = rows /\ lost' = lost
  BY DEF TypeInv, QueueTypes, HistTypes, WriteFrame
<1>2. /\ delivered'[c] = IF h[1] = "event" THEN Append(delivered[c], h[2]) ELSE delivered[c]
      /\ replayed'[c] = IF h[1] \in {"replay", "resync"} THEN replayed[c] \cup {h} ELSE replayed[c]
  BY DEF TypeInv, HistTypes, ConnTypes, WriteFrame, StopWriter
<1>3. h \in Frames
  BY <1>1, TailFacts
<1>4. In(sendq[c], f) => f = h \/ In(q, f)
  BY <1>1, InTail
<1> HIDE DEF h, q
<1>5. h[1] = "event" => h[2] \in 1..MaxEvents /\ h = Event(h[2])
  BY <1>3 DEF Frames, Event
<1>6. /\ \A n : In(delivered[c], n) => In(delivered'[c], n)
      /\ h[1] = "event" => In(delivered'[c], h[2])
  <2>1. CASE h[1] = "event"
    <3> DEFINE d == delivered[c]
               e == h[2]
    <3>1. d \in Seq(1..MaxEvents) /\ e \in 1..MaxEvents
      BY <1>1, <1>5, <2>1
    <3>2. delivered'[c] = Append(d, e)
      BY <1>2, <2>1
    <3> HIDE DEF d, e
    <3>3. \A n : In(Append(d, e), n) <=> (In(d, n) \/ n = e)
      BY <3>1, InAppend
    <3> QED
      BY <3>2, <3>3 DEF d, e
  <2>2. CASE h[1] # "event"
    BY <1>2, <2>2
  <2> QED
    BY <2>1, <2>2
<1>7. f = h => Has(c, f)'
  <2>1. f[1] \in {"event", "replay", "resync"}
    BY DEF EventFrames, ReplayFrames
  <2> QED
    BY <1>2, <1>5, <1>6, <2>1 DEF Has
<1>8. replayed[c] \subseteq replayed'[c]
  BY <1>2
<1> QED
  BY <1>1, <1>4, <1>6, <1>7, <1>8 DEF Has

\* A replay sends a frame, or drops it.
LEMMA HasReplay ==
    ASSUME TypeInv, NEW c \in Clients, NEW k \in Replays, ReplaySend(c, k), NEW f, Has(c, f)
    PROVE  Has(c, f)'
<1> DEFINE h == Head(rows[c][k])
           q == Tail(rows[c][k])
<1>1. /\ rows[c][k] \in Seq(ReplayFrames) /\ rows[c][k] # <<>> /\ sendq[c] \in Seq(Frames)
      /\ delivered' = delivered /\ replayed' = replayed
  BY DEF TypeInv, ReplayTypes, QueueTypes, ReplaySend
<1>2. CASE sendq' = sendq /\ rows' = rows /\ lost' = lost
  BY <1>1, <1>2 DEF Has
<1>3. CASE /\ sendq' = [sendq EXCEPT ![c] = TrySend(@, h)]
           /\ lost' = [lost EXCEPT ![c] = IF sendq'[c] = sendq[c] THEN @ \cup {h} ELSE @]
           /\ rows' = [rows EXCEPT ![c][k] = q]
  <2>1. /\ sendq'[c] = TrySend(sendq[c], h) /\ lost[c] \subseteq lost'[c]
        /\ sendq'[c] = sendq[c] => h \in lost'[c]
        /\ rows'[c][k] = q /\ \A j \in Replays \ {k} : rows'[c][j] = rows[c][j]
    BY <1>3 DEF TypeInv, QueueTypes, HistTypes, ReplayTypes
  <2>2. h \in Frames
    <3>1. h \in ReplayFrames
      BY <1>1, TailFacts
    <3> QED
      BY <3>1 DEF ReplayFrames, Frames
  <2>3. In(rows[c][k], f) => f = h \/ In(q, f)
    BY <1>1, InTail
  <2> HIDE DEF h, q
  <2>4. /\ In(sendq[c], f) => In(sendq'[c], f)
        /\ In(sendq'[c], h) \/ h \in lost'[c]
    BY <1>1, <2>1, <2>2, InTrySend
  <2>5. \A j \in Replays : In(rows[c][j], f) => f = h \/ In(rows'[c][j], f)
    BY <2>1, <2>3
  <2> QED
    BY <1>1, <2>1, <2>4, <2>5 DEF Has
<1> QED
  BY <1>2, <1>3 DEF ReplaySend

\* What was sent to a client whose writer runs is not forgotten.
LEMMA HasGrows ==
    ASSUME TypeInv, NEW c \in Clients, ReaderInv(c), Next, wr'[c] # "gone",
           NEW f \in EventFrames, Has(c, f)
    PROVE  Has(c, f)'
<1>1. CASE /\ delivered'[c] = delivered[c] /\ replayed'[c] = replayed[c] /\ lost'[c] = lost[c]
           /\ In(sendq[c], f) => In(sendq'[c], f)
           /\ \A k \in Replays : In(rows[c][k], f) => In(rows'[c][k], f)
  BY <1>1 DEF Has
<1>2. CASE \E x \in Clients : WriteFrame(x)
  <2>1. PICK x \in Clients : WriteFrame(x)
    BY <1>2
  <2>2. CASE x # c
    <3>1. /\ delivered'[c] = delivered[c] /\ replayed'[c] = replayed[c] /\ lost' = lost
          /\ sendq'[c] = sendq[c] /\ rows' = rows
      BY <2>1, <2>2 DEF WriteFrame, TypeInv, QueueTypes, HistTypes
    <3> QED
      BY <1>1, <3>1
  <2> QED
    BY <2>1, <2>2, HasWrite
<1>3. CASE \E x \in Clients : \E k \in Replays : ReplaySend(x, k)
  <2>1. PICK x \in Clients, k \in Replays : ReplaySend(x, k)
    BY <1>3
  <2>2. CASE x # c
    <3>1. /\ delivered' = delivered /\ replayed' = replayed /\ lost'[c] = lost[c]
          /\ sendq'[c] = sendq[c] /\ rows'[c] = rows[c]
      BY <2>1, <2>2 DEF ReplaySend, TypeInv, QueueTypes, HistTypes, ReplayTypes
    <3> QED
      BY <1>1, <3>1
  <2> QED
    BY <2>1, <2>2, HasReplay
<1>4. ASSUME delivered' = delivered, replayed' = replayed, lost' = lost
      PROVE  /\ In(sendq[c], f) => In(sendq'[c], f) \/ Has(c, f)'
             /\ \A k \in Replays : In(rows[c][k], f) => In(rows'[c][k], f) \/ Has(c, f)'
  <2>1. sendq[c] \in Seq(Frames)
    BY DEF TypeInv, QueueTypes
  <2>2. In(sendq[c], f) => In(sendq'[c], f) \/ Has(c, f)'
    <3>1. ASSUME NEW x \in Clients, HubVisit(x) PROVE In(sendq[c], f) => In(sendq'[c], f)
      <4>1. fan \in 1..MaxEvents
        BY <3>1 DEF TypeInv, ChanTypes, HubVisit
      <4>2. Event(fan) \in Frames
        BY <4>1 DEF Event, Frames
      <4>3. sendq'[c] = sendq[c] \/ sendq'[c] = Append(sendq[c], Event(fan))
        BY <3>1 DEF HubVisit, Deliver, TypeInv, QueueTypes
      <4> DEFINE e == Event(fan)
      <4> HIDE DEF e
      <4>4. In(Append(sendq[c], e), f) <=> (In(sendq[c], f) \/ f = e)
        BY <2>1, <4>2, InAppend DEF e
      <4> QED
        BY <4>3, <4>4 DEF e
    <3>2. ASSUME NEW u \in Users, NEW p \in Projects, AccessRevoked(u, p)
          PROVE  In(sendq[c], f) => In(sendq'[c], f)
      <4>1. sendq'[c] \in {sendq[c], TrySend(sendq[c], <<"accessRevoked", 0>>)}
        BY <3>2 DEF AccessRevoked
      <4>2. <<"accessRevoked", 0>> \in Frames
        BY DEF Frames
      <4> QED
        BY <2>1, <4>1, <4>2, InTrySend
    <3>3. ASSUME NEW x \in Clients, Acknowledge(x) PROVE In(sendq[c], f) => In(sendq'[c], f)
      <4>1. sendq'[c] \in {sendq[c], TrySend(sendq[c], <<"subscribed", 0>>)}
        BY <3>3 DEF Acknowledge, TypeInv, QueueTypes
      <4>2. <<"subscribed", 0>> \in Frames
        BY DEF Frames
      <4> QED
        BY <2>1, <4>1, <4>2, InTrySend
    <3> QED
      BY <1>2, <1>3, <3>1, <3>2, <3>3, QueueChanges
  <2>3. \A k \in Replays : In(rows[c][k], f) => In(rows'[c][k], f) \/ Has(c, f)'
    <3>1. ASSUME NEW x \in Clients, Acknowledge(x) \/ \E m \in Messages : ReadMessage(x, m)
          PROVE  rows' = rows
      BY <3>1 DEF Acknowledge, ReadMessage
    <3>2. ASSUME NEW x \in Clients, NEW j \in Replays, ReplayQuery(x, j), NEW k \in Replays,
                 In(rows[c][k], f)
          PROVE  In(rows'[c][k], f)
      <4>1. CASE x = c /\ k = j
        <5>1. rows[c][k] = <<>>
          BY <3>2, <4>1 DEF ReplayQuery, ReaderInv
        <5>2. Len(rows[c][k]) = 0
          BY <5>1, EmptyLen
        <5> QED
          BY <3>2, <5>2 DEF In
      <4>2. CASE ~(x = c /\ k = j)
        <5>1. rows'[c][k] = rows[c][k]
          BY <3>2, <4>2 DEF ReplayQuery, TypeInv, ReplayTypes
        <5> QED
          BY <3>2, <5>1
      <4> QED
        BY <4>1, <4>2
    <3> QED
      BY <1>3, <3>1, <3>2, QueueChanges
  <2> QED
    BY <2>2, <2>3
<1>5. CASE delivered' = delivered /\ replayed' = replayed /\ lost' = lost
  BY <1>1, <1>4, <1>5
<1> QED
  BY <1>2, <1>3, <1>5, QueueChanges
-----------------------------------------------------------------------------
\* A connection that stands has just been opened, its writer just been
\* started, or stood before.
LEMMA NoRevival ==
    ASSUME TypeInv, Next, NEW c \in Clients
    PROVE  /\ conn'[c] = "up" => conn[c] = "up" \/ Connect(c)
           /\ wr'[c] = "run" => wr[c] = "run" \/ Register(c)
           /\ rd[c] \in {"leave", "gone"} => rd'[c] \in {"leave", "gone"}
<1> DEFINE G == /\ conn'[c] = "up" => conn[c] = "up" \/ Connect(c)
                /\ wr'[c] = "run" => wr[c] = "run" \/ Register(c)
                /\ rd[c] \in {"leave", "gone"} => rd'[c] \in {"leave", "gone"}
           K == conn' = conn /\ wr' = wr /\ rd' = rd
<1> USE DEF tableVars, hubVars, connVars, histVars
<1>0. ConnTypes /\ ReaderTypes
  BY DEF TypeInv
<1>1. K => G
  OBVIOUS
<1>2. HubRegister \/ HubUnregister \/ HubTake => K
  BY DEF HubRegister, HubUnregister, HubTake
<1>3. ASSUME NEW x \in Clients, HubVisit(x) \/ ReplayStep(x) \/ MapRace(x) PROVE K
  BY <1>3 DEF HubVisit, ReplayStep, ReplayQuery, ReplaySend, MapRace
<1>4. ASSUME NEW n \in 1..Len(log), Appended(n) \/ Broadcast(n) \/ RunGC(n) PROVE K
  BY <1>4 DEF Appended, Broadcast, RunGC
<1>5. ASSUME NEW u, NEW p, AppendEvent(p) \/ AccessRevoked(u, p) PROVE K
  BY <1>5 DEF AppendEvent, AccessRevoked
<1>6. ASSUME NEW x \in Clients, Connect(x) \/ Register(x) PROVE G
  BY <1>0, <1>6 DEF Connect, Register, ConnTypes, ReaderTypes
<1>7. ASSUME NEW x \in Clients,
             \/ WriteSubscription(x) \/ Acknowledge(x) \/ ReadError(x) \/ Leave(x) \/ Hangup(x)
             \/ \E m \in Messages : ReadMessage(x, m)
      PROVE  G
  <2>1. wr' = wr /\ (conn' = conn \/ conn' = [conn EXCEPT ![x] = "closed"])
    BY <1>7 DEF WriteSubscription, Acknowledge, ReadError, Leave, Hangup, ReadMessage
  <2>2. rd' = rd \/ \E t : rd' = [rd EXCEPT ![x] = t] /\ (rd[x] \in {"leave", "gone"} => t = "gone")
    BY <1>7 DEF WriteSubscription, Acknowledge, ReadError, Leave, Hangup, ReadMessage
  <2> QED
    BY <1>0, <2>1, <2>2 DEF ConnTypes, ReaderTypes
<1>8. ASSUME NEW x \in Clients, WriterStep(x) \/ PingError(x) PROVE G
  <2>1. /\ rd' = rd
        /\ \/ wr' = wr /\ conn' = conn
           \/ wr' = [wr EXCEPT ![x] = "gone"] /\ conn' = [conn EXCEPT ![x] = "closed"]
    BY <1>8 DEF WriterStep, WriteFrame, WriteClose, PingError, StopWriter
  <2> QED
    BY <1>0, <2>1 DEF ConnTypes
<1> HIDE DEF G, K
<1>9. G
  BY <1>1, <1>2, <1>3, <1>4, <1>5, <1>6, <1>7, <1>8 DEF Next, HubStep, ReaderStep, Environment
<1> QED
  BY <1>9 DEF G

\* A client that comes to life has no replays yet.
LEMMA AliveBack ==
    ASSUME TypeInv, FeedInv, NEW c \in Clients, ReaderInv(c), Next, Alive(c)'
    PROVE  Alive(c) \/ Answered(c)' = {}
<1>1. /\ conn'[c] = "up" /\ ~closed'[c] /\ wr'[c] = "run" /\ rd'[c] \notin {"leave", "gone"}
  BY DEF Alive
<1>2. closed[c] => closed'[c]
  BY GoesForward DEF Forward
<1>3. ~Connect(c)
  <2>1. SUFFICES ASSUME Connect(c) PROVE FALSE
    OBVIOUS
  <2>2. rd[c] = "none" /\ wr' = wr
    BY <2>1 DEF Connect
  <2>3. wr[c] = "none"
    BY <2>2 DEF FeedInv
  <2> QED
    BY <1>1, <2>2, <2>3
<1>4. CASE Register(c)
  <2>1. inbox' = inbox /\ inbox[c] = <<>>
    BY <1>4 DEF Register, ReaderInv
  <2>2. Len(inbox'[c]) = 0
    BY <2>1, EmptyLen
  <2> QED
    BY <2>2 DEF Answered
<1>5. CASE ~Register(c)
  BY <1>1, <1>2, <1>3, <1>5, NoRevival DEF Alive
<1> QED
  BY <1>4, <1>5

\* A replay that is answered was answered before, or its query has just run.
LEMMA AnsweredBack ==
    ASSUME TypeInv, Next, NEW c \in Clients, NEW k \in Answered(c)'
    PROVE  \/ k \in Answered(c) /\ inbox'[c][k] = inbox[c][k]
           \/ /\ k \in Replays /\ rp[c][k] = "query" /\ rows'[c][k] = Answer(c, k)
              /\ inbox' = inbox /\ log' = log /\ row' = row /\ pub' = pub
<1> DEFINE G == \/ k \in Answered(c) /\ inbox'[c][k] = inbox[c][k]
                \/ /\ k \in Replays /\ rp[c][k] = "query" /\ rows'[c][k] = Answer(c, k)
                   /\ inbox' = inbox /\ log' = log /\ row' = row /\ pub' = pub
<1>1. /\ k \in 1..Len(inbox'[c]) /\ rp'[c][k] \in {"send", "done"}
      /\ \A j \in (k + 1)..Len(inbox'[c]) :
            inbox'[c][j].type = "unsubscribe" => inbox'[c][j].project # inbox'[c][k].project
  BY DEF Answered
<1>2. k \in Replays
  <2>1. ReaderTypes'
    BY ReaderKeeps
  <2>2. inbox'[c] \in Seq(Messages) /\ Len(inbox'[c]) <= MaxMessages /\ MaxMessages \in Nat
    BY <2>1, HubAssumption DEF ReaderTypes
  <2>3. Len(inbox'[c]) \in Nat
    BY <2>2
  <2> QED
    BY <1>1, <2>2, <2>3 DEF Replays
<1>3. ASSUME inbox'[c] = inbox[c], rp[c][k] \in {"send", "done"} PROVE G
  BY <1>1, <1>3 DEF Answered
<1>4. ASSUME inbox' = inbox, rp' = rp PROVE G
  BY <1>1, <1>3, <1>4
<1>5. ASSUME NEW x \in Clients, NEW m \in Messages, ReadMessage(x, m) PROVE G
  <2>1. rp' = rp
    BY <1>5 DEF ReadMessage
  <2>2. CASE x # c
    <3>1. inbox'[c] = inbox[c]
      BY <1>5, <2>2 DEF ReadMessage, TypeInv, ReaderTypes
    <3> QED
      BY <1>1, <1>3, <2>1, <3>1
  <2>3. CASE x = c
    <3> DEFINE q == inbox[c]
               r == inbox'[c]
    <3>1. q \in Seq(Messages) /\ r = Append(q, m)
      BY <1>5, <2>3 DEF ReadMessage, TypeInv, ReaderTypes
    <3>2. Len(q) \in Nat /\ Len(r) = Len(q) + 1 /\ \A i \in 1..Len(q) : r[i] = q[i]
      BY <3>1, AppendFacts
    <3>3. k <= Len(q)
      BY <1>1, <1>2, <2>1 DEF TypeInv, ReplayTypes
    <3> HIDE DEF q, r
    <3>4. /\ k \in 1..Len(q) /\ r[k] = q[k]
          /\ \A j \in (k + 1)..Len(q) : j \in (k + 1)..Len(r) /\ r[j] = q[j]
      BY <1>1, <3>2, <3>3 DEF r
    <3>5. \A j \in (k + 1)..Len(q) : q[j].type = "unsubscribe" => q[j].project # q[k].project
      BY <1>1, <3>4 DEF r
    <3> QED
      BY <1>1, <2>1, <3>4, <3>5 DEF Answered, q, r
  <2> QED
    BY <2>2, <2>3
<1>6. ASSUME NEW x \in Clients, Acknowledge(x) PROVE G
  <2>1. inbox' = inbox
    BY <1>6 DEF Acknowledge
  <2>2. rp[c][k] = rp'[c][k]
    <3>1. CASE rp' = rp
      BY <3>1
    <3>2. CASE rp' = [rp EXCEPT ![x][Len(inbox[x])] =
                        IF msg(x).since = NoSince THEN "none" ELSE "query"]
      BY <1>1, <1>2, <3>2 DEF TypeInv, ReplayTypes
    <3> QED
      BY <1>6, <3>1, <3>2 DEF Acknowledge
  <2> QED
    BY <1>1, <1>3, <2>1, <2>2
<1>7. ASSUME NEW x \in Clients, NEW j \in Replays, ReplayQuery(x, j) PROVE G
  <2>1. inbox' = inbox /\ log' = log /\ row' = row /\ pub' = pub /\ rp[x][j] = "query"
    BY <1>7 DEF ReplayQuery, tableVars
  <2>2. CASE x = c /\ j = k
    <3>1. ~(rp' = [rp EXCEPT ![x][j] = "failed"])
      BY <1>1, <1>2, <2>2 DEF TypeInv, ReplayTypes
    <3>2. rows' = [rows EXCEPT ![x][j] = Answer(x, j)]
      BY <1>7, <3>1 DEF ReplayQuery
    <3>3. rows'[c][k] = Answer(c, k)
      BY <2>2, <3>2 DEF TypeInv, ReplayTypes
    <3> QED
      BY <1>2, <2>1, <2>2, <3>3
  <2>3. CASE ~(x = c /\ j = k)
    <3>1. rp'[c][k] = rp[c][k]
      BY <1>2, <1>7, <2>3 DEF ReplayQuery, TypeInv, ReplayTypes
    <3> QED
      BY <1>1, <1>3, <2>1, <3>1
  <2> QED
    BY <2>2, <2>3
<1>8. ASSUME NEW x \in Clients, NEW j \in Replays, ReplaySend(x, j) PROVE G
  <2>1. inbox' = inbox /\ rp[x][j] = "send"
    BY <1>8 DEF ReplaySend
  <2>2. rp[c][k] \in {"send", "done"}
    <3>1. CASE rp' = rp
      BY <1>1, <3>1
    <3>2. CASE rp' = [rp EXCEPT ![x][j] = IF Len(rows[x][j]) = 1 THEN "done" ELSE "send"]
      BY <1>1, <1>2, <2>1, <3>2 DEF TypeInv, ReplayTypes
    <3> QED
      BY <1>8, <3>1, <3>2 DEF ReplaySend
  <2> QED
    BY <1>3, <2>1, <2>2
<1> HIDE DEF G
<1>9. G
  BY <1>4, <1>5, <1>6, <1>7, <1>8, QueueChanges
<1> QED
  BY <1>9 DEF G
-----------------------------------------------------------------------------
\* Who changes what: the fan-out.
LEMMA FanChanges ==
    ASSUME Next
    PROVE  \/ broadcast' = broadcast /\ fan' = fan /\ todo' = todo
           \/ HubTake
           \/ \E x \in Clients : HubVisit(x)
           \/ \E n \in 1..Len(log) : Broadcast(n)
<1> DEFINE K == broadcast' = broadcast /\ fan' = fan /\ todo' = todo
<1> USE DEF tableVars, hubVars, connVars, histVars
<1>1. HubRegister \/ HubUnregister => K
  BY DEF HubRegister, HubUnregister
<1>2. ASSUME NEW c \in Clients, ReaderStep(c) PROVE K
  BY <1>2 DEF ReaderStep, Register, WriteSubscription, Acknowledge, ReadError, Leave
<1>3. ASSUME NEW c \in Clients, WriterStep(c) \/ ReplayStep(c) PROVE K
  BY <1>3 DEF WriterStep, WriteFrame, WriteClose, PingError, ReplayStep, ReplayQuery, ReplaySend
<1>4. ASSUME NEW c \in Clients,
             \/ Connect(c) \/ Hangup(c) \/ PingError(c) \/ MapRace(c)
             \/ \E m \in Messages : ReadMessage(c, m)
      PROVE  K
  BY <1>4 DEF Connect, Hangup, PingError, MapRace, ReadMessage
<1>5. ASSUME NEW n \in 1..Len(log), Appended(n) \/ RunGC(n) PROVE K
  BY <1>5 DEF Appended, RunGC
<1>6. ASSUME NEW u, NEW p, AppendEvent(p) \/ AccessRevoked(u, p) PROVE K
  BY <1>6 DEF AppendEvent, AccessRevoked
<1> HIDE DEF K
<1>7. K \/ HubTake \/ (\E x \in Clients : HubVisit(x)) \/ (\E n \in 1..Len(log) : Broadcast(n))
  BY <1>1, <1>2, <1>3, <1>4, <1>5, <1>6 DEF Next, HubStep, Environment
<1> QED
  BY <1>7 DEF K

\* The history of an event: its project is fixed, a row that is visible was so
\* before or has just become so, before the broadcast.
LEMMA EventHistory ==
    ASSUME TypeInv, Next
    PROVE  /\ \A n \in 1..Len(log) : /\ n \in 1..Len(log') /\ log'[n] = log[n]
                                     /\ pub[n] # "done" => pub'[n] # "done" \/ Broadcast(n)
           /\ \A n \in 1..Len(log') : row'[n] = "visible" =>
                 (n \in 1..Len(log) /\ row[n] = "visible") \/ pub'[n] # "done"
<1> DEFINE A == \A n \in 1..Len(log) : /\ n \in 1..Len(log') /\ log'[n] = log[n]
                                       /\ pub[n] # "done" => pub'[n] # "done" \/ Broadcast(n)
           B == \A n \in 1..Len(log') : row'[n] = "visible" =>
                 (n \in 1..Len(log) /\ row[n] = "visible") \/ pub'[n] # "done"
<1>1. /\ log \in Seq(Projects) /\ Len(log) \in Nat
      /\ pub \in [1..Len(log) -> {"append", "send", "done"}]
      /\ row \in [1..Len(log) -> {"none", "visible", "deleted"}]
  BY DEF TypeInv, TableTypes
<1>2. CASE UNCHANGED <<log, pub, row, gcs, sent>>
  BY <1>2
<1>3. ASSUME NEW p \in Projects, AppendEvent(p) PROVE A /\ B
  <2>1. log' = Append(log, p) /\ pub' = Append(pub, "append") /\ row' = Append(row, "none")
    BY <1>3 DEF AppendEvent
  <2>2. pub \in Seq({"append", "send", "done"}) /\ Len(pub) = Len(log)
    BY <1>1, FunctionIsSeq
  <2>3. row \in Seq({"none", "visible", "deleted"}) /\ Len(row) = Len(log)
    BY <1>1, FunctionIsSeq
  <2>4. Len(log') = Len(log) + 1 /\ \A i \in 1..Len(log) : log'[i] = log[i]
    BY <1>1, <2>1, AppendFacts
  <2>5. \A i \in 1..Len(log) : pub'[i] = pub[i]
    <3>1. "append" \in {"append", "send", "done"}
      OBVIOUS
    <3> QED
      BY <2>1, <2>2, <3>1, AppendFacts
  <2>6. row'[Len(log) + 1] = "none" /\ \A i \in 1..Len(log) : row'[i] = row[i]
    <3>1. "none" \in {"none", "visible", "deleted"}
      OBVIOUS
    <3> QED
      BY <2>1, <2>3, <3>1, AppendFacts
  <2> DEFINE L == Len(log)
             M == Len(log')
  <2>7. L \in Nat /\ M = L + 1 /\ row'[L + 1] # "visible"
    BY <1>1, <2>4, <2>6
  <2> HIDE DEF L, M
  <2>8. \A n \in 1..L : n \in 1..M
    BY <2>7
  <2>9. \A n \in 1..M : n \in 1..L \/ n = L + 1
    BY <2>7
  <2> QED
    BY <2>4, <2>5, <2>6, <2>7, <2>8, <2>9 DEF L, M
<1>4. ASSUME NEW m \in 1..Len(log), Appended(m) PROVE A /\ B
  <2>1. log' = log /\ pub' = [pub EXCEPT ![m] = "send"]
    BY <1>4 DEF Appended
  <2>2. row' = row \/ row' = [row EXCEPT ![m] = "visible"]
    BY <1>4 DEF Appended
  <2> QED
    BY <1>1, <2>1, <2>2
<1>5. ASSUME NEW m \in 1..Len(log), Broadcast(m) PROVE A /\ B
  <2>1. log' = log /\ row' = row /\ pub' = [pub EXCEPT ![m] = "done"]
    BY <1>5 DEF Broadcast
  <2>2. \A n \in 1..Len(log) : n = m \/ pub'[n] = pub[n]
    BY <1>1, <2>1
  <2> QED
    BY <1>5, <2>1, <2>2
<1>6. ASSUME NEW m \in 1..Len(log), RunGC(m) PROVE A /\ B
  <2>1. /\ log' = log /\ pub' = pub
        /\ row' = [i \in DOMAIN row |->
                     IF i <= m /\ row[i] = "visible" THEN "deleted" ELSE row[i]]
    BY <1>6 DEF RunGC
  <2>2. \A n \in 1..Len(log) : row'[n] = "visible" => row[n] = "visible"
    BY <1>1, <2>1
  <2> QED
    BY <2>1, <2>2
<1> HIDE DEF A, B
<1>7. A /\ B
  <2>1. CASE UNCHANGED <<log, pub, row, gcs, sent>>
    BY <1>2, <2>1 DEF A, B
  <2> QED
    BY <1>3, <1>4, <1>5, <1>6, <2>1, TableChanges
<1> QED
  BY <1>7 DEF A, B

\* What was fanned out without c stays so.
LEMMA PassedGrows ==
    ASSUME TypeInv, Next, NEW c \in Clients, NEW n \in passed[c]
    PROVE  n \in passed'[c]
BY QueueChanges DEF HubTake

\* The hub takes an event that was coming.
LEMMA ComingTaken ==
    ASSUME TypeInv, NEW c \in Clients, NEW k \in Answered(c), NEW n \in 1..Len(log), HubTake,
           Coming(c, n)
    PROVE  Coming(c, n)' \/ n \in passed'[c]
<1>1. /\ fan = 0 /\ broadcast \in Seq(1..MaxEvents) /\ broadcast # <<>> /\ pub' = pub
      /\ broadcast' = Tail(broadcast)
  BY DEF HubTake, TypeInv, ChanTypes, tableVars
<1>2. fan # n
  BY <1>1
<1>3. CASE pub[n] # "done"
  BY <1>1, <1>3 DEF Coming
<1>4. CASE In(broadcast, n)
  <2>1. n = Head(broadcast) \/ In(Tail(broadcast), n)
    BY <1>1, <1>4, InTail
  <2>2. CASE In(Tail(broadcast), n)
    BY <1>1, <2>2 DEF In, Coming
  <2>3. CASE n = Head(broadcast)
    <3>1. CASE c \in clients
      BY <2>3, <3>1 DEF HubTake, Coming
    <3>2. CASE c \notin clients
      <4>1. k \in Replays /\ rp[c][k] \in {"send", "done"}
        BY HubAssumption DEF Answered, Replays, TypeInv, ReaderTypes
      <4> QED
        BY <2>3, <3>2, <4>1 DEF HubTake
    <3> QED
      BY <3>1, <3>2
  <2> QED
    BY <2>1, <2>2, <2>3
<1> QED
  BY <1>2, <1>3, <1>4 DEF Coming, In

\* The hub visits a client.
LEMMA ComingVisited ==
    ASSUME TypeInv, NEW c \in Clients, ReaderInv(c), NEW k \in Answered(c), NEW n \in 1..Len(log),
           log[n] = inbox[c][k].project, NEW x \in Clients, HubVisit(x), ~closed'[c], Coming(c, n)
    PROVE  Coming(c, n)' \/ Has(c, Event(n))'
<1>1. /\ pub' = pub /\ broadcast' = broadcast /\ x \in todo /\ todo' = todo \ {x}
      /\ fan' = IF todo = {x} THEN 0 ELSE fan
  BY DEF HubVisit, tableVars
<1>2. CASE pub[n] # "done" \/ \E i \in 1..Len(broadcast) : broadcast[i] = n
  BY <1>1, <1>2 DEF Coming
<1>3. CASE fan = n /\ c \in todo
  <2>1. CASE x # c
    BY <1>1, <1>3, <2>1 DEF Coming
  <2>2. CASE x = c
    <3>1. PICK s \in SubsSeen(c) :
             \/ log[fan] \in s /\ Deliver(c)
             \/ log[fan] \notin s /\ UNCHANGED <<due, sendq, clients, closed>>
      BY <2>2 DEF HubVisit
    <3>2. Deliver(c)
      BY <1>3, <3>1, SeesProject
    <3>3. ~Drop(c)
      BY DEF Drop, TypeInv, ConnTypes
    <3>4. sendq' = [sendq EXCEPT ![c] = Append(@, Event(fan))]
      BY <3>2, <3>3 DEF Deliver
    <3> DEFINE q == sendq[c]
               e == Event(n)
    <3>5. sendq'[c] = Append(q, e) /\ q \in Seq(Frames)
      BY <1>3, <3>4 DEF TypeInv, QueueTypes
    <3>6. e \in Frames
      <4>1. n \in 1..MaxEvents
        BY <1>1, <1>3 DEF TypeInv, ChanTypes
      <4> QED
        BY <4>1 DEF Event, Frames
    <3> HIDE DEF q, e
    <3>7. In(Append(q, e), e)
      BY <3>5, <3>6, InAppend
    <3> QED
      BY <3>5, <3>7 DEF Has, e
  <2> QED
    BY <2>1, <2>2
<1> QED
  BY <1>2, <1>3 DEF Coming

\* An event that is coming to a client that waits for it goes on coming,
\* reaches the client, or is fanned out without it.
LEMMA ComingStays ==
    ASSUME TypeInv, NEW c \in Clients, ReaderInv(c), Next, Alive(c)', NEW k \in Answered(c),
           NEW n \in 1..Len(log), log[n] = inbox[c][k].project, Coming(c, n)
    PROVE  Coming(c, n)' \/ n \in passed'[c] \/ Has(c, Event(n))'
<1>1. pub[n] # "done" => pub'[n] # "done" \/ Broadcast(n)
  BY EventHistory
<1>2. ASSUME NEW m \in 1..Len(log), Broadcast(m) PROVE Coming(c, n)'
  <2> DEFINE b == broadcast
  <2>1. b \in Seq(1..MaxEvents) /\ m \in 1..MaxEvents /\ broadcast' = Append(b, m)
    <3>1. MaxEvents \in Nat /\ Len(log) \in Nat /\ Len(log) <= MaxEvents
      BY HubAssumption DEF TypeInv, TableTypes
    <3> DEFINE L == Len(log)
    <3> HIDE DEF L
    <3>2. m \in 1..L /\ L \in Nat /\ L <= MaxEvents
      BY <1>2, <3>1 DEF L
    <3>3. m \in 1..MaxEvents
      BY <3>1, <3>2
    <3> QED
      BY <1>2, <3>3 DEF Broadcast, TypeInv, ChanTypes
  <2>2. fan' = fan /\ todo' = todo
    BY <1>2 DEF Broadcast
  <2> HIDE DEF b
  <2>3. \A i : In(Append(b, m), i) <=> (In(b, i) \/ i = m)
    BY <2>1, InAppend
  <2>4. Broadcast(n) => n = m
    <3>1. SUFFICES ASSUME Broadcast(n), n # m PROVE FALSE
      OBVIOUS
    <3>2. /\ pub' = [pub EXCEPT ![n] = "done"] /\ pub' = [pub EXCEPT ![m] = "done"]
          /\ pub[n] = "send" /\ pub \in [1..Len(log) -> {"append", "send", "done"}]
      BY <1>2, <3>1 DEF Broadcast, TypeInv, TableTypes
    <3> QED
      BY <3>1, <3>2
  <2>5. In(b, n) \/ n = m => Coming(c, n)'
    BY <2>1, <2>3 DEF Coming, In
  <2> QED
    BY <1>1, <2>2, <2>4, <2>5 DEF Coming, In, b
<1>3. CASE broadcast' = broadcast /\ fan' = fan /\ todo' = todo
  <2>1. CASE Broadcast(n)
    BY <1>2, <2>1
  <2> QED
    BY <1>1, <1>3, <2>1 DEF Coming
<1>4. CASE HubTake
  BY <1>4, ComingTaken
<1>5. ASSUME NEW x \in Clients, HubVisit(x) PROVE Coming(c, n)' \/ Has(c, Event(n))'
  BY <1>5, ComingVisited DEF Alive
<1> QED
  BY <1>2, <1>3, <1>4, <1>5, FanChanges
-----------------------------------------------------------------------------
\* Event n, visible in the table and of the kind replay k asked for, was sent to
\* c or dropped by the replay, is coming to it, or was fanned out before c was
\* registered.
AccountsFor(c, k, n) ==
    (row[n] = "visible" /\ log[n] = inbox[c][k].project /\ n > inbox[c][k].since) =>
        \/ Has(c, Event(n)) \/ Has(c, Replay(k, n))
        \/ Coming(c, n)
        \/ n \in passed[c]

Told(c, k) ==
    \/ Has(c, Resync(k))
    \/ \A n \in 1..Len(log) : AccountsFor(c, k, n)

ToldInv == \A c \in Clients : Alive(c) => \A k \in Answered(c) : Told(c, k)

\* A replay that was answered goes on accounting for every event.
LEMMA StaysTold ==
    ASSUME TypeInv, NEW c \in Clients, ReaderInv(c), Next, Alive(c)', NEW k \in Answered(c),
           inbox'[c][k] = inbox[c][k], Told(c, k)
    PROVE  Told(c, k)'
<1>0. k \in Replays
  BY HubAssumption DEF Answered, Replays, TypeInv, ReaderTypes
<1>1. wr'[c] # "gone"
  BY DEF Alive
<1>2. CASE Has(c, Resync(k))
  <2>1. Resync(k) \in EventFrames
    BY <1>0 DEF Resync, EventFrames, ReplayFrames
  <2>2. Has(c, Resync(k))'
    BY <1>1, <1>2, <2>1, HasGrows
  <2> QED
    BY <2>2 DEF Told
<1>3. CASE \A n \in 1..Len(log) : AccountsFor(c, k, n)
  <2>1. ASSUME NEW n \in 1..Len(log') PROVE AccountsFor(c, k, n)'
    <3>1. SUFFICES ASSUME row'[n] = "visible", log'[n] = inbox[c][k].project, n > inbox[c][k].since
                   PROVE  \/ Has(c, Event(n))' \/ Has(c, Replay(k, n))'
                          \/ Coming(c, n)' \/ n \in passed'[c]
      BY DEF AccountsFor, Has
    <3>2. CASE pub'[n] # "done"
      BY <3>2 DEF Coming
    <3>3. CASE n \in 1..Len(log) /\ row[n] = "visible"
      <4>1. log[n] = inbox[c][k].project
        BY <3>1, <3>3, EventHistory
      <4>2. Has(c, Event(n)) \/ Has(c, Replay(k, n)) \/ Coming(c, n) \/ n \in passed[c]
        BY <1>3, <3>1, <3>3, <4>1 DEF AccountsFor
      <4>3. Event(n) \in EventFrames /\ Replay(k, n) \in EventFrames
        <5> DEFINE L == Len(log)
        <5>1. MaxEvents \in Nat /\ L \in Nat /\ L <= MaxEvents /\ n \in 1..L
          BY <3>3, HubAssumption DEF TypeInv, TableTypes
        <5> HIDE DEF L
        <5>2. n \in 1..MaxEvents
          BY <5>1
        <5> QED
          BY <1>0, <5>2 DEF Event, Replay, EventFrames, ReplayFrames
      <4>4. CASE Has(c, Event(n))
        BY <1>1, <4>3, <4>4, HasGrows
      <4>5. CASE Has(c, Replay(k, n))
        BY <1>1, <4>3, <4>5, HasGrows
      <4>6. CASE Coming(c, n)
        BY <3>3, <4>1, <4>6, ComingStays
      <4>7. CASE n \in passed[c]
        BY <4>7, PassedGrows
      <4> QED
        BY <4>2, <4>4, <4>5, <4>6, <4>7
    <3> QED
      BY <3>1, <3>2, <3>3, EventHistory
  <2> QED
    BY <2>1 DEF Told
<1> QED
  BY <1>2, <1>3 DEF Told

\* The answer of a query accounts for every event.
LEMMA BecomesTold ==
    ASSUME TypeInv, NEW c \in Clients, NEW k \in Replays, rp[c][k] = "query",
           rows'[c][k] = Answer(c, k), inbox' = inbox, log' = log, row' = row
    PROVE  Told(c, k)'
<1>1. \/ Len(Answer(c, k)) = 1 /\ Answer(c, k)[1] = Resync(k)
      \/ \A n \in Missed(c, k) : \E i \in 1..Len(Answer(c, k)) : Answer(c, k)[i] = Replay(k, n)
  BY AnswerFacts
<1> DEFINE a == Answer(c, k)
<1>2. \A f : In(a, f) => In(rows'[c][k], f)
  OBVIOUS
<1>3. CASE Len(a) = 1 /\ a[1] = Resync(k)
  <2>1. In(a, Resync(k))
    BY <1>3 DEF In
  <2> QED
    BY <1>2, <2>1 DEF Told, Has
<1>4. CASE \A n \in Missed(c, k) : \E i \in 1..Len(a) : a[i] = Replay(k, n)
  <2>1. ASSUME NEW n \in 1..Len(log'), row'[n] = "visible", log'[n] = inbox'[c][k].project,
               n > inbox'[c][k].since
        PROVE  Has(c, Replay(k, n))'
    <3>1. n \in Missed(c, k)
      BY <2>1 DEF Missed
    <3>2. In(a, Replay(k, n))
      BY <1>4, <3>1 DEF In
    <3> QED
      BY <1>2, <3>2 DEF Has
  <2> QED
    BY <2>1 DEF Told, AccountsFor
<1> QED
  BY <1>1, <1>3, <1>4

\* Every step keeps the replays complete.
LEMMA NextTold ==
    ASSUME TypeInv, FeedInv, \A x \in Clients : ReaderInv(x), ToldInv, Next
    PROVE  ToldInv'
<1> SUFFICES ASSUME NEW c \in Clients, Alive(c)', NEW k \in Answered(c)' PROVE Told(c, k)'
  BY DEF ToldInv
<1>1. Alive(c)
  BY AliveBack
<1>2. CASE k \in Answered(c) /\ inbox'[c][k] = inbox[c][k]
  BY <1>1, <1>2, StaysTold DEF ToldInv
<1>3. CASE /\ k \in Replays /\ rp[c][k] = "query" /\ rows'[c][k] = Answer(c, k)
           /\ inbox' = inbox /\ log' = log /\ row' = row /\ pub' = pub
  BY <1>3, BecomesTold
<1> QED
  BY <1>2, <1>3, AnsweredBack

\* The inductive invariant of the replays.
SkipInv == LiveInv /\ (\A c \in Clients : ReaderInv(c)) /\ ToldInv

\* Nobody has asked for a replay at the start.
LEMMA InitSkip == Init => SkipInv
<1> SUFFICES ASSUME Init PROVE (\A c \in Clients : ReaderInv(c)) /\ ToldInv
  BY InitLive DEF SkipInv
<1>1. ASSUME NEW c \in Clients PROVE ReaderInv(c) /\ ~Alive(c)
  <2>1. /\ rd[c] = "none" /\ inbox[c] = <<>> /\ conn[c] = "none"
        /\ \A k \in Replays : rp[c][k] = "none" /\ rows[c][k] = <<>>
    BY DEF Init
  <2>2. Len(inbox[c]) = 0
    BY <2>1, EmptyLen
  <2> QED
    BY <2>1, <2>2 DEF ReaderInv, Alive
<1> QED
  BY <1>1 DEF ToldInv

\* The invariant of the replays holds throughout.
THEOREM SkipCorrect == Spec => []SkipInv
<1>1. ASSUME LiveInv, SkipInv, [Next]_vars, LiveInv' PROVE SkipInv'
  <2>1. CASE Next
    <3>1. \A x \in Clients : ReaderInv(x)'
      BY <1>1, <2>1, NextReader DEF LiveInv, SkipInv
    <3>2. ToldInv'
      BY <1>1, <2>1, NextTold DEF LiveInv, SkipInv
    <3> QED
      BY <1>1, <3>1, <3>2 DEF SkipInv
  <2>2. CASE UNCHANGED vars
    <3> USE DEF vars, tableVars, hubVars, connVars, histVars
    <3>1. \A x \in Clients : ReaderInv(x)'
      BY <1>1, <2>2, ReaderStays DEF SkipInv
    <3>2. ASSUME NEW c \in Clients
          PROVE  /\ Alive(c)' <=> Alive(c)
                 /\ Answered(c)' = Answered(c)
                 /\ \A k : Told(c, k) => Told(c, k)'
      <4>1. (Alive(c)' <=> Alive(c)) /\ Answered(c)' = Answered(c)
        BY <2>2 DEF Alive, Answered
      <4>2. \A f : Has(c, f) => Has(c, f)'
        BY <2>2 DEF Has
      <4>3. \A n : Coming(c, n) => Coming(c, n)'
        BY <2>2 DEF Coming
      <4>4. \A k : Told(c, k) => Told(c, k)'
        BY <2>2, <4>2, <4>3 DEF Told, AccountsFor
      <4> QED
        BY <4>1, <4>4
    <3>3. ToldInv'
      BY <1>1, <3>2 DEF SkipInv, ToldInv
    <3> QED
      BY <1>1, <3>1, <3>3 DEF SkipInv
  <2> QED
    BY <1>1, <2>1, <2>2
<1> QED
  BY <1>1, InitSkip, LiveCorrect, PTL DEF Spec

\* However the query of a replay falls between the draws of ids, the commits
\* and the broadcasts, and whatever is dropped, written or sent meanwhile, the
\* replay and the live feed of a client that subscribed with since leave no gap
\* between them: an event that is in the table is missed only if c.send had no
\* room for the frame of the replay, or if it was fanned out before the hub had
\* registered the client.
THEOREM ReplaysSkipNothing == Spec => []NothingSkipped
<1>1. SkipInv => NothingSkipped
  <2> SUFFICES ASSUME SkipInv, NEW c \in Clients, Alive(c), NEW k \in Answered(c)
               PROVE  Covers(c, k, {n \in 1..Len(log) : row[n] = "visible"})
    BY DEF NothingSkipped
  <2>1. Told(c, k)
    BY DEF SkipInv, ToldInv
  <2>2. \A f : Has(c, f) => f \in Sent(c) \/ f \in lost[c]
    BY HasIsSent
  <2>3. ASSUME NEW n PROVE Event(n) \notin lost[c]
    <3>1. lost[c] \subseteq ReplayFrames
      BY DEF SkipInv, LiveInv, TypeInv, HistTypes
    <3>2. \A f \in ReplayFrames : f[1] # "event"
      BY DEF ReplayFrames
    <3>3. Event(n)[1] = "event"
      BY DEF Event
    <3> QED
      BY <3>1, <3>2, <3>3
  <2> QED
    BY <2>1, <2>2, <2>3 DEF Told, AccountsFor, Covers
<1> QED
  BY <1>1, SkipCorrect, PTL
=============================================================================
