------------------------ MODULE WritePathTraceProofs ------------------------
(***************************************************************************)
(* What a request leaves behind and what it is told agree: proofs of the   *)
(* properties of WritePath about answers, audit rows and events, for every *)
(* set of requests, files and contents and any number of crashes.          *)
(***************************************************************************)
EXTENDS WritePathProofs

-----------------------------------------------------------------------------
(***************************************************************************)
(* The inductive invariant                                                 *)
(***************************************************************************)
\* The calls of a handler before its row is committed, and after.
OpenCalls == {"idle", "fileExists", "putObject", "upsertFile", "deleteRow", "rowProbe"}
AppliedCalls == {"deleteObject", "auditLog", "appendEvent", "hubSend", "respond"}

\* No row, audit row or event is the work of q.
NoTrace(q) ==
    /\ ~Committed(q)
    /\ \A a \in audit : a.req # q
    /\ \A i \in 1..Len(events) : events[i].req # q
    /\ \A i \in 1..Len(handed) : handed[i].req # q

\* The version q asks for, as a commit of q records it.
VersionOf(q) == [req |-> q, to |-> NewETag(input[q]), expect |-> Expect(input[q])]

\* The version q asked for is in the history of its file.
Applied(q) ==
    \E i \in 2..Len(versions[Path(q)]) : versions[Path(q)][i] = VersionOf(q)

\* A request has left nothing before its commit or when it was refused.
CleanUntilCommit ==
    \A q \in Reqs : (pc[q] \in OpenCalls \/ status[q] \in Refusals) => NoTrace(q)

\* A request commits at most once.
CommitsOnce ==
    \A q \in Reqs, p \in Paths : \A i, j \in 1..Len(versions[p]) :
        By(q, p, i) /\ By(q, p, j) => i = j

\* A request past its commit, or answered 2xx, has committed what it asked for.
AppliedAfterCommit ==
    \A q \in Reqs : (pc[q] \in AppliedCalls \/ status[q] \in Success) => Applied(q)

\* A request that is answered 2xx, or is about to be, has announced its write.
HandedBeforeAnswer ==
    \A q \in Reqs : (pc[q] = "respond" \/ status[q] \in Success)
                       => InLog(handed, EventOf(q))

TraceInv ==
    /\ IndexInv
    /\ CleanUntilCommit
    /\ CommitsOnce
    /\ AppliedAfterCommit
    /\ HandedBeforeAnswer
    /\ AnnouncedWasCommitted
    /\ AuditedWasCommitted
-----------------------------------------------------------------------------
(***************************************************************************)
(* What one step does                                                      *)
(***************************************************************************)
\* Only the control state of q changes.
OnlyMoves(q) ==
    /\ input' = input
    /\ \A x \in Reqs \ {q} : pc'[x] = pc[x] /\ status'[x] = status[x]

\* q goes on, or is answered with an error.
GoesOn(q, calls) ==
    \/ pc'[q] \in calls /\ status'[q] = status[q]
    \/ pc'[q] = "done" /\ status'[q] \in Refusals \cup {500}

\* A step before the commit.
OpenStep(q) ==
    /\ pc[q] \in OpenCalls /\ pc[q] # "idle"
    /\ GoesOn(q, OpenCalls)
    /\ UNCHANGED <<versions, audit, events, handed>>

\* The commit; when the call reports an error the answer is 500.
CommitStep(q) ==
    /\ pc[q] \in OpenCalls /\ pc[q] # "idle"
    /\ Commit(q, NewETag(input[q]))
    /\ \/ pc'[q] \in AppliedCalls \ {"respond"} /\ status'[q] = status[q]
       \/ pc'[q] = "done" /\ status'[q] = 500
    /\ UNCHANGED <<audit, events, handed>>

\* A step after the commit.
AppliedStep(q) ==
    /\ pc[q] \in AppliedCalls
    /\ \/ pc'[q] \in AppliedCalls /\ status'[q] = status[q]
       \/ pc[q] = "respond" /\ pc'[q] = "done" /\ status'[q] \in Success
    /\ pc'[q] = "respond" => handed' = Append(handed, EventOf(q))
    /\ audit' \in {audit, audit \cup {AuditRow(q)}}
    /\ events' \in {events, Append(events, EventOf(q))}
    /\ handed' \in {handed, Append(handed, EventOf(q))}
    /\ UNCHANGED versions

\* Every step of a handler is one of the three.
LEMMA HandleStep ==
    ASSUME TypeOK, NEW q \in Reqs, Handle(q)
    PROVE  OnlyMoves(q) /\ (OpenStep(q) \/ CommitStep(q) \/ AppliedStep(q))
<1>1. ASSUME NEW from, NEW to, Goto(q, from, to)
      PROVE  OnlyMoves(q) /\ pc[q] = from /\ pc'[q] = to /\ status'[q] = status[q]
  BY <1>1 DEF Goto, OnlyMoves, TypeOK
<1>2. ASSUME NEW from, NEW code, Answer(q, from, code)
      PROVE  OnlyMoves(q) /\ pc[q] = from /\ pc'[q] = "done" /\ status'[q] = code
  BY <1>2 DEF Answer, OnlyMoves, TypeOK
<1>3. SuccessStatus(input[q]) \in Success
  BY InputFacts DEF TypeOK
<1> USE DEF OpenCalls, AppliedCalls, GoesOn, Refusals
<1>4. CASE ReadOldETag(q) \/ CheckNotExists(q) \/ PutObject(q) \/ ProbeRow(q)
  <2>1. OnlyMoves(q) /\ OpenStep(q)
    <3>1. CASE ReadOldETag(q)
      BY <1>1, <3>1 DEF ReadOldETag, OpenStep, dbVars, histVars
    <3>2. CASE CheckNotExists(q)
      BY <1>1, <1>2, <3>2 DEF CheckNotExists, OpenStep, dbVars, histVars
    <3>3. CASE PutObject(q)
      BY <1>1, <1>2, <3>3 DEF PutObject, OpenStep
    <3>4. CASE ProbeRow(q)
      BY <1>2, <3>4 DEF ProbeRow, OpenStep, dbVars, histVars
    <3> QED
      BY <1>4, <3>1, <3>2, <3>3, <3>4
  <2> QED
    BY <2>1
<1>5. CASE UpsertFile(q)
  <2>1. CASE Commit(q, NewETag(input[q]))
             /\ (Goto(q, "upsertFile", "auditLog") \/ Answer(q, "upsertFile", 500))
    BY <1>1, <1>2, <1>5, <2>1 DEF UpsertFile, CommitStep
  <2>2. CASE UNCHANGED <<files, versions>> /\ (\E c \in {409, 500} : Answer(q, "upsertFile", c))
    BY <1>2, <1>5, <2>2 DEF UpsertFile, OpenStep
  <2> QED
    BY <1>5, <2>1, <2>2 DEF UpsertFile
<1>6. CASE /\ Handler(q) \in {"delete_issue", "delete_attachment"}
           /\ DeleteFile(q) \/ DeleteRow(q)
  <2>1. NewETag(input[q]) = NoETag
    BY <1>6 DEF NewETag, Handler
  <2>2. UNCHANGED <<audit, events, handed>>
    BY <1>6 DEF DeleteFile, DeleteRow
  <2>3. CASE Commit(q, NoETag)
             /\ (Goto(q, "deleteRow", "deleteObject") \/ Answer(q, "deleteRow", 500))
    BY <1>1, <1>2, <2>1, <2>2, <2>3 DEF CommitStep
  <2>4. CASE UNCHANGED <<files, versions>>
             /\ (Goto(q, "deleteRow", "rowProbe") \/ Answer(q, "deleteRow", 500))
    BY <1>1, <1>2, <2>2, <2>4 DEF OpenStep
  <2> QED
    BY <1>6, <2>3, <2>4 DEF DeleteFile, DeleteRow
<1>7. CASE DeleteS3Object(q) \/ WriteAuditLog(q) \/ AppendEvent(q)
  BY <1>1, <1>7 DEF DeleteS3Object, WriteAuditLog, AppendEvent, AppliedStep, histVars
<1>8. CASE Broadcast(q)
  BY <1>1, <1>8 DEF Broadcast, AppliedStep, dbVars
<1>9. CASE Respond(q)
  BY <1>2, <1>3, <1>9 DEF Respond, AppliedStep, dbVars, histVars
<1> QED
  BY <1>4, <1>5, <1>6, <1>7, <1>8, <1>9
  DEF Handle, PutIssueHandler, PutAttachmentHandler, PutProjectJSONHandler,
      PostIssueHandler, DeleteIssueHandler, DeleteAttachmentHandler,
      PutFile, FinishWrite

\* A commit appends one version, that of q, to the history of its file, and
\* changes no other history.
LEMMA CommitAppends ==
    ASSUME TypeOK, NEW q \in Reqs, Commit(q, NewETag(input[q]))
    PROVE  /\ Path(q) \in Paths
           /\ Len(versions[Path(q)]) \in Nat
           /\ Len(versions'[Path(q)]) = Len(versions[Path(q)]) + 1
           /\ versions'[Path(q)][Len(versions[Path(q)]) + 1] = VersionOf(q)
           /\ \A i \in 1..Len(versions[Path(q)]) :
                 versions'[Path(q)][i] = versions[Path(q)][i]
           /\ \A p \in Paths \ {Path(q)} : versions'[p] = versions[p]
<1>1. input[q] \in Inputs /\ Path(q) \in Paths
  BY InputFacts DEF TypeOK, Path
<1>2. VersionOf(q) \in VersionType
  BY <1>1, InputFacts DEF VersionOf, VersionType
<1>3. versions[Path(q)] \in Seq(VersionType)
  BY <1>1 DEF TypeOK
<1>4. versions' = [versions EXCEPT ![Path(q)] = Append(versions[Path(q)], VersionOf(q))]
  BY DEF Commit, VersionOf
<1>5. /\ versions'[Path(q)] = Append(versions[Path(q)], VersionOf(q))
      /\ \A p \in Paths \ {Path(q)} : versions'[p] = versions[p]
  BY <1>1, <1>4 DEF TypeOK
<1> QED
  BY <1>1, <1>2, <1>3, <1>5

\* The histories only grow: what a commit recorded stays in its place.
Grows ==
    \A p \in Paths : /\ Len(versions[p]) \in Nat /\ Len(versions'[p]) \in Nat
                     /\ Len(versions[p]) <= Len(versions'[p])
                     /\ \A i \in 1..Len(versions[p]) : versions'[p][i] = versions[p][i]

\* No step rewrites a history, a commit included.
LEMMA HistoriesGrow ==
    ASSUME TypeOK, NEW q \in Reqs,
           UNCHANGED versions \/ Commit(q, NewETag(input[q]))
    PROVE  Grows
<1>1. CASE UNCHANGED versions
  BY <1>1 DEF TypeOK, Grows
<1>2. CASE Commit(q, NewETag(input[q]))
  <2> SUFFICES ASSUME NEW p \in Paths
               PROVE  /\ Len(versions[p]) \in Nat /\ Len(versions'[p]) \in Nat
                      /\ Len(versions[p]) <= Len(versions'[p])
                      /\ \A i \in 1..Len(versions[p]) : versions'[p][i] = versions[p][i]
    BY DEF Grows
  <2>1. CASE p = Path(q)
    BY <1>2, <2>1, CommitAppends
  <2>2. CASE p # Path(q)
    <3>1. versions[p] \in Seq(VersionType) /\ versions'[p] = versions[p]
      BY <1>2, <2>2, CommitAppends DEF TypeOK
    <3> QED
      BY <3>1
  <2> QED
    BY <2>1, <2>2
<1> QED
  BY <1>1, <1>2
-----------------------------------------------------------------------------
(***************************************************************************)
(* Events and audit rows                                                   *)
(***************************************************************************)
\* What AnnouncedWasCommitted says of one event.
Announced(e) ==
    \E i \in 2..Len(versions[e.path]) :
        /\ By(e.req, e.path, i)
        /\ versions[e.path][i].to = e.etag
        /\ e.op = "created" => versions[e.path][i - 1].to = NoETag
        /\ e.op = "updated" => versions[e.path][i - 1].to # NoETag

\* What AuditedWasCommitted says of one audit row.
Audited(a) ==
    \E i \in 2..Len(versions[a.path]) :
        /\ By(a.req, a.path, i)
        /\ versions[a.path][i].to = a.after
        /\ Handler(a.req) = "delete_issue" => versions[a.path][i - 1].to = a.before

\* The properties, row by row.
LEMMA RowByRow ==
    /\ AnnouncedWasCommitted <=>
          /\ \A n \in 1..Len(events) : Announced(events[n])
          /\ \A n \in 1..Len(handed) : Announced(handed[n])
    /\ AuditedWasCommitted <=> \A a \in audit : Audited(a)
<1>1. AnnouncedWasCommitted <=>
          /\ \A n \in 1..Len(events) : Announced(events[n])
          /\ \A n \in 1..Len(handed) : Announced(handed[n])
  BY DEF AnnouncedWasCommitted, Announced
<1>2. AuditedWasCommitted <=> \A a \in audit : Audited(a)
  BY DEF AuditedWasCommitted, Audited
<1> QED
  BY <1>1, <1>2

\* A committed request that replaced the version it named: its event tells
\* whether the file existed, its audit row what was deleted.
LEMMA RowsOfApplied ==
    ASSUME IndexInv, NEW q \in Reqs, Applied(q)
    PROVE  Announced(EventOf(q)) /\ Audited(AuditRow(q))
<1>1. input[q] \in Inputs /\ Path(q) \in Paths
  BY InputFacts DEF IndexInv, TypeOK, Path
<1>2. PICK i \in 2..Len(versions[Path(q)]) : versions[Path(q)][i] = VersionOf(q)
  BY DEF Applied
<1>3. versions[Path(q)] \in Seq(VersionType) /\ Len(versions[Path(q)]) \in Nat
  BY <1>1 DEF IndexInv, TypeOK
<1>4. Expect(input[q]) \in {versions[Path(q)][i - 1].to, AnyETag}
  <2>1. versions[Path(q)][i].expect \in {versions[Path(q)][i - 1].to, AnyETag}
    BY <1>1 DEF IndexInv, NoLostUpdate
  <2> QED
    BY <1>2, <2>1 DEF VersionOf
<1>5. /\ By(q, Path(q), i)
      /\ versions[Path(q)][i].to = NewETag(input[q])
  BY <1>2, <1>3 DEF By, VersionOf
<1>6. Handler(q) # "delete_attachment" => Expect(input[q]) # AnyETag
  BY <1>1, InputFacts, ETagAssumption DEF Expect, Handler
<1>7. Handler(q) = "delete_issue" => Expect(input[q]) = input[q].ifMatch
  BY DEF Expect, Handler, PutHandlers
<1>8. Announced(EventOf(q))
  <2>1. /\ EventOf(q).req = q /\ EventOf(q).path = Path(q)
        /\ EventOf(q).etag = NewETag(input[q])
    BY DEF EventOf
  <2>2. EventOf(q).op \in {"created", "updated"} => Handler(q) # "delete_attachment"
    BY DEF EventOf
  <2>3. /\ EventOf(q).op = "created" => Expect(input[q]) = NoETag
        /\ EventOf(q).op = "updated" => Expect(input[q]) # NoETag
    BY DEF EventOf, IsCreate
  <2> QED
    BY <1>2, <1>4, <1>5, <1>6, <2>1, <2>2, <2>3 DEF Announced
<1>9. Audited(AuditRow(q))
  <2>1. /\ AuditRow(q).req = q /\ AuditRow(q).path = Path(q)
        /\ AuditRow(q).after = NewETag(input[q])
    BY DEF AuditRow
  <2>2. Handler(q) = "delete_issue" => AuditRow(q).before = input[q].ifMatch
    BY DEF AuditRow, PutHandlers
  <2> QED
    BY <1>2, <1>4, <1>5, <1>6, <1>7, <2>1, <2>2 DEF Audited
<1> QED
  BY <1>8, <1>9

\* While the histories grow, what was announced or audited stays so.
LEMMA RowsStay ==
    ASSUME Grows, NEW e, e.path \in Paths
    PROVE  /\ Announced(e) => Announced(e)'
           /\ Handler(e.req)' = Handler(e.req) /\ Audited(e) => Audited(e)'
<1>1. /\ Len(versions[e.path]) \in Nat /\ Len(versions'[e.path]) \in Nat
      /\ Len(versions[e.path]) <= Len(versions'[e.path])
      /\ \A i \in 1..Len(versions[e.path]) : versions'[e.path][i] = versions[e.path][i]
  BY DEF Grows
<1>2. \A i \in 2..Len(versions[e.path]) :
         /\ i \in 2..Len(versions'[e.path])
         /\ versions'[e.path][i] = versions[e.path][i]
         /\ versions'[e.path][i - 1] = versions[e.path][i - 1]
         /\ By(e.req, e.path, i) => By(e.req, e.path, i)'
  <2> SUFFICES ASSUME NEW i \in 2..Len(versions[e.path])
               PROVE  /\ i \in 2..Len(versions'[e.path])
                      /\ versions'[e.path][i] = versions[e.path][i]
                      /\ versions'[e.path][i - 1] = versions[e.path][i - 1]
                      /\ By(e.req, e.path, i) => By(e.req, e.path, i)'
    OBVIOUS
  <2>1. i \in 1..Len(versions[e.path]) /\ i - 1 \in 1..Len(versions[e.path])
    BY <1>1
  <2>2. i \in 2..Len(versions'[e.path]) /\ i \in 1..Len(versions'[e.path])
    BY <1>1
  <2> QED
    BY <1>1, <2>1, <2>2 DEF By
<1>3. Announced(e) => Announced(e)'
  BY <1>2 DEF Announced
<1>4. Handler(e.req)' = Handler(e.req) /\ Audited(e) => Audited(e)'
  BY <1>2 DEF Audited
<1> QED
  BY <1>3, <1>4

\* So does what a request has applied, as long as its input is kept.
LEMMA AppliedStays ==
    ASSUME TypeOK, Grows, NEW q \in Reqs, input'[q] = input[q], Applied(q)
    PROVE  Applied(q)'
<1>1. Path(q) \in Paths /\ Path(q)' = Path(q) /\ VersionOf(q)' = VersionOf(q)
  BY InputFacts DEF TypeOK, Path, VersionOf
<1>2. PICK i \in 2..Len(versions[Path(q)]) : versions[Path(q)][i] = VersionOf(q)
  BY DEF Applied
<1>3. i \in 2..Len(versions'[Path(q)]) /\ versions'[Path(q)][i] = VersionOf(q)
  BY <1>1, <1>2 DEF Grows
<1> QED
  BY <1>1, <1>3 DEF Applied
-----------------------------------------------------------------------------
(***************************************************************************)
(* The invariant holds                                                     *)
(***************************************************************************)
\* Nothing has been done yet.
LEMMA InitTrace == Init => TraceInv
<1> SUFFICES ASSUME Init PROVE TraceInv
  OBVIOUS
<1>1. IndexInv
  BY InitIndex
<1>2. /\ audit = {} /\ Len(events) = 0 /\ Len(handed) = 0
      /\ \A q \in Reqs : pc[q] = "idle" /\ status[q] = 0
  BY DEF Init
<1>3. \A p \in Paths : \A i \in 1..Len(versions[p]) : i = 1
  <2>1. \A p \in Paths : Len(versions[p]) = 1
    BY DEF Init
  <2>2. ASSUME NEW p \in Paths, NEW i \in 1..Len(versions[p]) PROVE i = 1
    <3>1. Len(versions[p]) = 1
      BY <2>1
    <3>2. i \in 1..1
      BY <3>1
    <3> QED
      BY <3>2
  <2> QED
    BY <2>2
<1>4. \A q \in Reqs : ~Committed(q)
  <2>1. \A p \in Paths : versions[p][1].req = NoReq
    BY DEF Init
  <2> QED
    BY <1>3, <2>1, RequestAssumption DEF Committed, By
<1>5. CleanUntilCommit
  BY <1>2, <1>4 DEF CleanUntilCommit, NoTrace
<1>6. CommitsOnce
  BY <1>3 DEF CommitsOnce
<1>7. AppliedAfterCommit /\ HandedBeforeAnswer
  BY <1>2 DEF AppliedAfterCommit, HandedBeforeAnswer, AppliedCalls, Success
<1>8. AnnouncedWasCommitted /\ AuditedWasCommitted
  BY <1>2, RowByRow
<1> QED
  BY <1>1, <1>5, <1>6, <1>7, <1>8 DEF TraceInv

\* Before the commit a handler only moves on or gives up.
LEMMA OpenTrace ==
    ASSUME TraceInv, IndexInv', NEW q \in Reqs, OnlyMoves(q), OpenStep(q)
    PROVE  TraceInv'
<1>1. \A x \in Reqs : /\ NoTrace(x)' <=> NoTrace(x)
                      /\ Applied(x)' <=> Applied(x)
                      /\ InLog(handed, EventOf(x))' <=> InLog(handed, EventOf(x))
  BY DEF OnlyMoves, OpenStep, NoTrace, Committed, By, Applied, VersionOf, Path,
         InLog, EventOf, Handler
<1>2. status[q] = 0
  BY DEF TraceInv, IndexInv, AnsweredWhenDone, OpenStep, OpenCalls
<1>3. CleanUntilCommit'
  BY <1>1 DEF TraceInv, CleanUntilCommit, OnlyMoves, OpenStep
<1>4. CommitsOnce'
  BY DEF TraceInv, CommitsOnce, By, OpenStep
<1>5. pc'[q] \notin AppliedCalls /\ status'[q] \notin Success
  BY <1>2 DEF OpenStep, GoesOn, OpenCalls, AppliedCalls, Refusals, Success
<1>6. AppliedAfterCommit' /\ HandedBeforeAnswer'
  BY <1>1, <1>5 DEF TraceInv, AppliedAfterCommit, HandedBeforeAnswer, OnlyMoves,
                    AppliedCalls
<1>7. AnnouncedWasCommitted' /\ AuditedWasCommitted'
  BY DEF TraceInv, AnnouncedWasCommitted, AuditedWasCommitted, By, Handler,
         OpenStep, OnlyMoves
<1> QED
  BY <1>3, <1>4, <1>6, <1>7 DEF TraceInv

\* The rows of the logs name files.
LEMMA RowPaths ==
    ASSUME TypeOK
    PROVE  /\ \A n \in 1..Len(events) : events[n].path \in Paths
           /\ \A n \in 1..Len(handed) : handed[n].path \in Paths
           /\ \A a \in audit : a.path \in Paths
<1>1. \A e \in EventType : e.path \in Paths
  BY DEF EventType
<1>2. \A n \in 1..Len(events) : events[n] \in EventType
  BY DEF TypeOK
<1>3. \A n \in 1..Len(handed) : handed[n] \in EventType
  BY DEF TypeOK
<1>4. \A a \in audit : a.path \in Paths
  BY DEF TypeOK, AuditType
<1> QED
  BY <1>1, <1>2, <1>3, <1>4

\* The commit itself.
LEMMA CommitTrace ==
    ASSUME TraceInv, IndexInv', NEW q \in Reqs, OnlyMoves(q), CommitStep(q)
    PROVE  TraceInv'
<1> DEFINE P == Path(q)
           n == Len(versions[P])
<1>0. TypeOK /\ HistoriesNonEmpty /\ AnsweredWhenDone
  BY DEF TraceInv, IndexInv
<1>1. /\ P \in Paths /\ n \in Nat /\ Len(versions'[P]) = n + 1
      /\ versions'[P][n + 1] = VersionOf(q)
      /\ \A i \in 1..n : versions'[P][i] = versions[P][i]
      /\ \A p \in Paths \ {P} : versions'[p] = versions[p]
  BY <1>0, CommitAppends DEF CommitStep
<1>2. Grows
  BY <1>0, HistoriesGrow DEF CommitStep
<1>3. n >= 1
  BY <1>0, <1>1 DEF HistoriesNonEmpty
<1>4. VersionOf(q).req = q
  BY DEF VersionOf
<1>5. \A x \in Reqs, p \in Paths : \A i \in 1..Len(versions'[p]) :
         \/ p = P /\ i = n + 1
         \/ i \in 1..Len(versions[p]) /\ versions'[p][i] = versions[p][i]
  BY <1>1
<1>6. NoTrace(q)
  BY DEF TraceInv, CleanUntilCommit, CommitStep
<1> HIDE DEF P, n
<1>7. CleanUntilCommit'
  <2> SUFFICES ASSUME NEW x \in Reqs, pc'[x] \in OpenCalls \/ status'[x] \in Refusals
               PROVE  NoTrace(x)'
    BY DEF CleanUntilCommit
  <2>1. x # q
    BY <1>0 DEF CommitStep, OpenCalls, AppliedCalls, Refusals, AnsweredWhenDone
  <2>2. NoTrace(x)
    BY <2>1 DEF TraceInv, CleanUntilCommit, OnlyMoves
  <2>3. ~Committed(x)'
    <3> SUFFICES ASSUME NEW p \in Paths, NEW i \in 1..Len(versions'[p]),
                        versions'[p][i].req = x
                 PROVE  FALSE
      BY DEF Committed, By
    <3>1. i \in 1..Len(versions[p]) /\ versions[p][i].req = x
      BY <1>1, <1>4, <1>5, <2>1
    <3> QED
      BY <2>2, <3>1 DEF NoTrace, Committed, By
  <2> QED
    BY <2>2, <2>3 DEF NoTrace, CommitStep
<1>8. CommitsOnce'
  <2> SUFFICES ASSUME NEW x \in Reqs, NEW p \in Paths,
                      NEW i \in 1..Len(versions'[p]), NEW j \in 1..Len(versions'[p]),
                      versions'[p][i].req = x, versions'[p][j].req = x
               PROVE  i = j
    BY DEF CommitsOnce, By
  <2>1. CASE x = q
    <3>1. \A k \in 1..Len(versions[p]) : versions[p][k].req # q
      BY <1>6 DEF NoTrace, Committed, By
    <3> QED
      BY <1>5, <2>1, <3>1
  <2>2. CASE x # q
    <3>1. /\ i \in 1..Len(versions[p]) /\ versions[p][i].req = x
          /\ j \in 1..Len(versions[p]) /\ versions[p][j].req = x
      BY <1>1, <1>4, <1>5, <2>2
    <3> QED
      BY <3>1 DEF TraceInv, CommitsOnce, By
  <2> QED
    BY <2>1, <2>2
<1>9. AppliedAfterCommit'
  <2> SUFFICES ASSUME NEW x \in Reqs, pc'[x] \in AppliedCalls \/ status'[x] \in Success
               PROVE  Applied(x)'
    BY DEF AppliedAfterCommit
  <2>1. CASE x = q
    <3>1. n + 1 \in 2..Len(versions'[P])
      BY <1>1, <1>3
    <3>2. Path(q)' = P /\ VersionOf(q)' = VersionOf(q)
      BY DEF Path, VersionOf, OnlyMoves, P
    <3> QED
      BY <1>1, <2>1, <3>1, <3>2 DEF Applied
  <2>2. CASE x # q
    <3>1. Applied(x)
      BY <2>2 DEF TraceInv, AppliedAfterCommit, OnlyMoves
    <3> QED
      BY <1>0, <1>2, <3>1, AppliedStays DEF OnlyMoves
  <2> QED
    BY <2>1, <2>2
<1>10. HandedBeforeAnswer'
  <2>1. pc'[q] # "respond" /\ status'[q] \notin Success
    BY <1>0 DEF CommitStep, OpenCalls, AppliedCalls, Success, AnsweredWhenDone
  <2> QED
    BY <2>1 DEF TraceInv, HandedBeforeAnswer, OnlyMoves, CommitStep, InLog, EventOf,
                Path, Handler
<1>11. AnnouncedWasCommitted' /\ AuditedWasCommitted'
  <2>1. /\ UNCHANGED <<events, handed, audit>>
        /\ \A x : Handler(x)' = Handler(x)
    BY DEF CommitStep, OnlyMoves, Handler
  <2>2. /\ \A k \in 1..Len(events) : Announced(events[k])
        /\ \A k \in 1..Len(handed) : Announced(handed[k])
        /\ \A a \in audit : Audited(a)
    BY RowByRow DEF TraceInv
  <2>3. /\ \A k \in 1..Len(events') : Announced(events[k])'
        /\ \A k \in 1..Len(handed') : Announced(handed[k])'
        /\ \A a \in audit' : Audited(a)'
    BY <1>0, <1>2, <2>1, <2>2, RowsStay, RowPaths
  <2>4. /\ AnnouncedWasCommitted' <=>
             /\ \A k \in 1..Len(events') : Announced(events[k])'
             /\ \A k \in 1..Len(handed') : Announced(handed[k])'
        /\ AuditedWasCommitted' <=> \A a \in audit' : Audited(a)'
    BY DEF AnnouncedWasCommitted, Announced, AuditedWasCommitted, Audited
  <2> QED
    BY <2>3, <2>4
<1> QED
  BY <1>7, <1>8, <1>9, <1>10, <1>11 DEF TraceInv

\* After the commit a handler records and announces its write, and answers.
LEMMA AppliedTrace ==
    ASSUME TraceInv, IndexInv', NEW q \in Reqs, OnlyMoves(q), AppliedStep(q)
    PROVE  TraceInv'
<1>0. TypeOK /\ AnsweredWhenDone /\ TypeOK'
  BY DEF TraceInv, IndexInv
<1>1. /\ status[q] = 0 /\ pc'[q] \notin OpenCalls /\ status'[q] \notin Refusals
  BY <1>0 DEF AppliedStep, AppliedCalls, OpenCalls, Success, Refusals, AnsweredWhenDone
<1>2. /\ EventOf(q) \in EventType /\ EventOf(q).req = q
      /\ AuditRow(q).req = q
  BY <1>0, RowTypes DEF EventOf, AuditRow
<1>3. /\ events \in Seq(EventType) /\ handed \in Seq(EventType)
      /\ versions' = versions /\ input' = input
  BY <1>0 DEF TypeOK, AppliedStep, OnlyMoves
<1>4. /\ \A i \in 1..Len(events') :
            (i \in 1..Len(events) /\ events'[i] = events[i]) \/ events'[i] = EventOf(q)
      /\ \A i \in 1..Len(handed') :
            (i \in 1..Len(handed) /\ handed'[i] = handed[i]) \/ handed'[i] = EventOf(q)
      /\ \A i \in 1..Len(handed) : i \in 1..Len(handed') /\ handed'[i] = handed[i]
      /\ \A a \in audit' : a \in audit \/ a = AuditRow(q)
  <2>1. ASSUME NEW s \in Seq(EventType), NEW t, t \in {s, Append(s, EventOf(q))}
        PROVE  /\ \A i \in 1..Len(t) : (i \in 1..Len(s) /\ t[i] = s[i]) \/ t[i] = EventOf(q)
               /\ \A i \in 1..Len(s) : i \in 1..Len(t) /\ t[i] = s[i]
    BY <1>2, <2>1
  <2>2. events' \in {events, Append(events, EventOf(q))}
        /\ handed' \in {handed, Append(handed, EventOf(q))}
    BY DEF AppliedStep
  <2>3. \A a \in audit' : a \in audit \/ a = AuditRow(q)
    BY DEF AppliedStep
  <2> QED
    BY <1>3, <2>1, <2>2, <2>3
<1>5. Applied(q) /\ Announced(EventOf(q)) /\ Audited(AuditRow(q))
  BY RowsOfApplied DEF TraceInv, AppliedAfterCommit, AppliedStep
<1>6. CleanUntilCommit'
  <2> SUFFICES ASSUME NEW x \in Reqs, pc'[x] \in OpenCalls \/ status'[x] \in Refusals
               PROVE  NoTrace(x)'
    BY DEF CleanUntilCommit
  <2>1. x # q
    BY <1>1
  <2>2. NoTrace(x)
    BY <2>1 DEF TraceInv, CleanUntilCommit, OnlyMoves
  <2>3. ~Committed(x)'
    BY <1>3, <2>2 DEF NoTrace, Committed, By
  <2> QED
    BY <1>2, <1>4, <2>1, <2>2, <2>3 DEF NoTrace
<1>7. CommitsOnce'
  BY <1>3 DEF TraceInv, CommitsOnce, By
<1>8. AppliedAfterCommit'
  <2>1. \A x \in Reqs : Applied(x)' <=> Applied(x)
    BY <1>3 DEF Applied, Path, VersionOf
  <2> QED
    BY <1>5, <2>1 DEF TraceInv, AppliedAfterCommit, OnlyMoves
<1>9. HandedBeforeAnswer'
  <2>1. \A x \in Reqs : /\ EventOf(x)' = EventOf(x)
                        /\ InLog(handed, EventOf(x)) => InLog(handed, EventOf(x))'
    BY <1>3, <1>4 DEF EventOf, Path, Handler, InLog
  <2>2. pc'[q] = "respond" => InLog(handed, EventOf(q))'
    <3> SUFFICES ASSUME pc'[q] = "respond" PROVE InLog(handed, EventOf(q))'
      OBVIOUS
    <3>1. handed' = Append(handed, EventOf(q))
      BY DEF AppliedStep
    <3>2. Len(handed) + 1 \in 1..Len(handed') /\ handed'[Len(handed) + 1] = EventOf(q)
      BY <1>2, <1>3, <3>1
    <3> QED
      BY <2>1, <3>2 DEF InLog
  <2>3. status'[q] \in Success => pc[q] = "respond"
    BY <1>1 DEF AppliedStep, Success
  <2> QED
    BY <2>1, <2>2, <2>3 DEF TraceInv, HandedBeforeAnswer, OnlyMoves
<1>10. AnnouncedWasCommitted' /\ AuditedWasCommitted'
  <2>1. /\ \A e : Announced(e)' <=> Announced(e)
        /\ \A a : Audited(a)' <=> Audited(a)
    BY <1>3 DEF Announced, Audited, By, Handler
  <2>2. /\ \A k \in 1..Len(events) : Announced(events[k])
        /\ \A k \in 1..Len(handed) : Announced(handed[k])
        /\ \A a \in audit : Audited(a)
    BY RowByRow DEF TraceInv
  <2>3. /\ \A k \in 1..Len(events') : Announced(events[k])'
        /\ \A k \in 1..Len(handed') : Announced(handed[k])'
        /\ \A a \in audit' : Audited(a)'
    BY <1>4, <1>5, <2>1, <2>2
  <2>4. /\ AnnouncedWasCommitted' <=>
             /\ \A k \in 1..Len(events') : Announced(events[k])'
             /\ \A k \in 1..Len(handed') : Announced(handed[k])'
        /\ AuditedWasCommitted' <=> \A a \in audit' : Audited(a)'
    BY DEF AnnouncedWasCommitted, Announced, AuditedWasCommitted, Audited
  <2> QED
    BY <2>3, <2>4
<1> QED
  BY <1>6, <1>7, <1>8, <1>9, <1>10 DEF TraceInv

\* A request arrives: it has left nothing behind, so nothing speaks of its
\* former input.
LEMMA ReceiveTrace ==
    ASSUME TraceInv, IndexInv', NEW q \in Reqs, NEW in \in Inputs, Receive(q, in)
    PROVE  TraceInv'
<1>1. /\ UNCHANGED <<versions, audit, events, handed>>
      /\ \A x \in Reqs \ {q} :
            pc'[x] = pc[x] /\ status'[x] = status[x] /\ input'[x] = input[x]
      /\ pc[q] = "idle"
  BY DEF Receive, dbVars, histVars, TraceInv, IndexInv, TypeOK
<1>2. pc'[q] \notin AppliedCalls /\ status'[q] \notin Success
  <2>1. Refusal(in) \notin Success
    BY DEF Refusal, Success
  <2>2. FirstCall(in.handler) \notin AppliedCalls
    BY InputFacts DEF AppliedCalls
  <2> QED
    BY <2>1, <2>2 DEF Receive, AppliedCalls, TraceInv, IndexInv, TypeOK
<1>3. NoTrace(q)
  BY <1>1 DEF TraceInv, CleanUntilCommit, OpenCalls
<1>4. \A x \in Reqs : NoTrace(x)' <=> NoTrace(x)
  BY <1>1 DEF NoTrace, Committed, By
<1>5. CleanUntilCommit'
  BY <1>1, <1>3, <1>4 DEF TraceInv, CleanUntilCommit
<1>6. CommitsOnce'
  BY <1>1 DEF TraceInv, CommitsOnce, By
<1>7. \A x \in Reqs \ {q} : /\ Applied(x)' <=> Applied(x)
                            /\ InLog(handed, EventOf(x))' <=> InLog(handed, EventOf(x))
  BY <1>1 DEF Applied, VersionOf, Path, InLog, EventOf, Handler
<1>8. AppliedAfterCommit' /\ HandedBeforeAnswer'
  BY <1>1, <1>2, <1>7 DEF TraceInv, AppliedAfterCommit, HandedBeforeAnswer, AppliedCalls
<1>9. AnnouncedWasCommitted'
  BY <1>1 DEF TraceInv, AnnouncedWasCommitted, By
<1>10. AuditedWasCommitted'
  <2>1. \A a \in audit : a.req \in Reqs \ {q}
    BY <1>3 DEF NoTrace, TraceInv, IndexInv, TypeOK, AuditType
  <2> QED
    BY <1>1, <2>1 DEF TraceInv, AuditedWasCommitted, By, Handler
<1> QED
  BY <1>5, <1>6, <1>8, <1>9, <1>10 DEF TraceInv

\* The hub takes an event, the process dies, or nothing happens: no answer is
\* given and nothing is recorded.
LEMMA OtherTrace ==
    ASSUME TraceInv, IndexInv', HubTake \/ Crash \/ UNCHANGED vars
    PROVE  TraceInv'
<1>1. UNCHANGED <<versions, audit, events, handed, input, status>>
  BY DEF HubTake, Crash, vars, dbVars, procVars, histVars
<1>2. \A x \in Reqs : pc'[x] = pc[x] \/ pc'[x] = "done"
  BY DEF HubTake, Crash, vars, procVars
<1>3. \A x \in Reqs : /\ NoTrace(x)' <=> NoTrace(x)
                      /\ Applied(x)' <=> Applied(x)
                      /\ InLog(handed, EventOf(x))' <=> InLog(handed, EventOf(x))
  BY <1>1 DEF NoTrace, Committed, By, Applied, VersionOf, Path, InLog, EventOf, Handler
<1>4. CleanUntilCommit' /\ AppliedAfterCommit' /\ HandedBeforeAnswer'
  BY <1>1, <1>2, <1>3 DEF TraceInv, CleanUntilCommit, AppliedAfterCommit,
                          HandedBeforeAnswer, OpenCalls, AppliedCalls
<1>5. CommitsOnce' /\ AnnouncedWasCommitted' /\ AuditedWasCommitted'
  BY <1>1 DEF TraceInv, CommitsOnce, AnnouncedWasCommitted, AuditedWasCommitted, By,
              Handler
<1> QED
  BY <1>4, <1>5 DEF TraceInv

\* Every step.
LEMMA NextTrace == TraceInv /\ [Next]_vars => TraceInv'
<1> SUFFICES ASSUME TraceInv, [Next]_vars PROVE TraceInv'
  OBVIOUS
<1>1. IndexInv' /\ TypeOK
  BY NextIndex DEF TraceInv, IndexInv
<1>2. ASSUME NEW q \in Reqs, NEW in \in Inputs, Receive(q, in) PROVE TraceInv'
  BY <1>1, <1>2, ReceiveTrace
<1>3. ASSUME NEW q \in Reqs, Handle(q) PROVE TraceInv'
  BY <1>1, <1>3, HandleStep, OpenTrace, CommitTrace, AppliedTrace
<1>4. CASE HubTake \/ Crash \/ UNCHANGED vars
  BY <1>1, <1>4, OtherTrace
<1> QED
  BY <1>2, <1>3, <1>4 DEF Next

\* The inductive invariant holds in every reachable state.
THEOREM TraceCorrect == Spec => []TraceInv
<1>1. Init => TraceInv
  BY InitTrace
<1>2. TraceInv /\ [Next]_vars => TraceInv'
  BY NextTrace
<1> QED
  BY <1>1, <1>2, PTL DEF Spec
-----------------------------------------------------------------------------
(***************************************************************************)
(* The properties                                                          *)
(***************************************************************************)
\* A 2xx answer is given only for exactly one committed version, the one that
\* was asked for, after its event was handed to the hub.
THEOREM SuccessesAreCommitted == Spec => []SuccessIsCommitted
<1>1. TraceInv => SuccessIsCommitted
  <2> SUFFICES ASSUME TraceInv, NEW q \in Reqs, status[q] \in Success
               PROVE  /\ \E i \in 1..Len(versions[Path(q)]) :
                            /\ By(q, Path(q), i)
                            /\ versions[Path(q)][i].to = NewETag(input[q])
                      /\ \A p \in Paths : \A i, j \in 1..Len(versions[p]) :
                            By(q, p, i) /\ By(q, p, j) => i = j
                      /\ InLog(handed, EventOf(q))
    BY DEF SuccessIsCommitted
  <2>1. PICK i \in 2..Len(versions[Path(q)]) : versions[Path(q)][i] = VersionOf(q)
    BY DEF TraceInv, AppliedAfterCommit, Applied
  <2>2. i \in 1..Len(versions[Path(q)])
    BY <2>1
  <2>3. By(q, Path(q), i) /\ versions[Path(q)][i].to = NewETag(input[q])
    BY <2>1, <2>2 DEF By, VersionOf
  <2> QED
    BY <2>2, <2>3 DEF TraceInv, CommitsOnce, HandedBeforeAnswer
<1> QED
  BY <1>1, TraceCorrect, PTL

\* A request answered 4xx changed nothing that anybody can see: no row, no
\* audit row, no event.
THEOREM RefusalsLeaveNoTrace == Spec => []RefusedLeavesNoTrace
<1>1. TraceInv => RefusedLeavesNoTrace
  BY DEF TraceInv, CleanUntilCommit, NoTrace, RefusedLeavesNoTrace
<1> QED
  BY <1>1, TraceCorrect, PTL

\* Every event announces a committed version, and tells truly whether the file
\* existed before.
THEOREM AnnouncementsAreTrue == Spec => []AnnouncedWasCommitted
<1>1. TraceInv => AnnouncedWasCommitted
  BY DEF TraceInv
<1> QED
  BY <1>1, TraceCorrect, PTL

\* Every audit row is the record of a committed version.
THEOREM AuditIsTrue == Spec => []AuditedWasCommitted
<1>1. TraceInv => AuditedWasCommitted
  BY DEF TraceInv
<1> QED
  BY <1>1, TraceCorrect, PTL
=============================================================================
