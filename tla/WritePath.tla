----------------------------- MODULE WritePath -----------------------------
(***************************************************************************)
(* The write endpoints of internal/api/v1/write.go and the storage calls   *)
(* they make (internal/storage/queries.go, s3write.go).                    *)
(*                                                                         *)
(* Every request is a goroutine that runs one of six handlers.  A handler  *)
(* is a fixed sequence of storage calls with no lock or transaction around *)
(* them; each call is one action here, so the calls of different requests  *)
(* interleave freely.  A call that reaches Postgres or S3 may fail (error, *)
(* time-out, client gone and its context cancelled), and a failed call may *)
(* nevertheless have taken effect at the store.  The process may crash     *)
(* between any two calls.                                                  *)
(*                                                                         *)
(* The in-process LRU cache is not part of the state: no code in the       *)
(* repository stores into it, so the Cache.Delete every handler calls      *)
(* finds it empty.  The cache itself is LRUCache.tla.                      *)
(***************************************************************************)
EXTENDS Naturals, Sequences, FiniteSets

CONSTANTS
    Reqs,           \* HTTP requests
    NoReq,          \* author of the versions that predate the behaviour
    Issues,         \* issue files, NNNN.md
    Attachments,    \* attachment files, NNNN/name
    ProjectFiles,   \* project.json
    Bodies,         \* file contents
    NoBody,         \* no object under the S3 key
    NoETag,         \* the empty string: no row, no header
    AnyETag,        \* precondition of the unconditional delete
    Sha256(_),      \* external: SHA-256 in lowercase hex
    Quote(_),       \* a string between double quotes, as in the ETag header
    Inputs,         \* the requests that may arrive
    BroadcastCap,   \* capacity of hub.broadcast, 256 in ws.NewHub
    MaxCrashes      \* bound on process crashes

Paths == Issues \cup Attachments \cup ProjectFiles

\* computeETag (write.go:26) of every body.
ETags == {Sha256(b) : b \in Bodies}

\* What a client may send as If-Match: a bare ETag, or the quoted form the
\* server itself puts in its ETag response header.
IfMatch == ETags \cup {Quote(e) : e \in ETags}

Roles == {"none", "viewer", "editor", "admin"}

\* Where the prefix of a handler that reads only its request stops.
Faults == {"ok", "unauthenticated", "malformed", "lookup", "badBody", "oversize"}

Handlers == {"put_issue", "post_issue", "delete_issue",
             "put_attachment", "delete_attachment", "put_project_json"}

PutHandlers == {"put_issue", "put_attachment", "put_project_json"}

InputType ==
    [handler : Handlers, path : Paths, body : Bodies,
     ifMatch : IfMatch \cup {NoETag}, ifNoneMatch : BOOLEAN,
     role : Roles, fault : Faults]

PathsOf(h) ==
    CASE h \in {"put_issue", "post_issue", "delete_issue"} -> Issues
      [] h \in {"put_attachment", "delete_attachment"} -> Attachments
      [] h = "put_project_json" -> ProjectFiles

ASSUME RequestAssumption == NoReq \notin Reqs

\* A name has the form of at most one kind of file.
ASSUME PathAssumption ==
    /\ Issues \cap Attachments = {} /\ Issues \cap ProjectFiles = {}
    /\ Attachments \cap ProjectFiles = {}

ASSUME ContentAssumption ==
    /\ NoBody \notin Bodies
    /\ \A b, c \in Bodies : Sha256(b) = Sha256(c) => b = c

ASSUME ETagAssumption ==
    /\ NoETag \notin IfMatch
    /\ AnyETag \notin IfMatch \cup {NoETag}
    /\ \A e \in ETags : Quote(e) \notin ETags

ASSUME InputAssumption ==
    /\ Inputs \subseteq InputType /\ Inputs # {}
    /\ \A in \in Inputs : in.path \in PathsOf(in.handler)

ASSUME BoundAssumption == BroadcastCap \in Nat \ {0} /\ MaxCrashes \in Nat

VARIABLES
    \* Postgres and S3, which survive a crash
    files,      \* files.etag of the row of each path, NoETag if there is none
    s3,         \* the object under the S3 key of each path
    audit,      \* rows of audit_log
    events,     \* rows of the events table, in the order of their ids
    \* the process
    pc,         \* the call each request makes next
    input,      \* the request as received
    old,        \* oldETag, the local variable of the PUT handlers
    status,     \* the HTTP status answered; 0 before, and after a crash
    broadcast,  \* the channel hub.broadcast
    crashes,    \* crashes so far
    \* history
    versions,   \* versions[p]: the versions committed for p, oldest first
    uploaded,   \* <<p, b>>: body b was once stored under the key of p
    handed      \* events handed to the hub, in order

dbVars   == <<files, s3, audit, events>>
procVars == <<pc, input, old, status, broadcast, crashes>>
histVars == <<versions, uploaded, handed>>
vars     == <<dbVars, procVars, histVars>>

Calls == {"fileExists", "putObject", "upsertFile", "deleteRow", "rowProbe",
          "deleteObject", "auditLog", "appendEvent", "hubSend", "respond"}
Success == {200, 201, 204}
Refusals == {400, 401, 403, 404, 409, 413, 428}

Path(q) == input[q].path
Handler(q) == input[q].handler

\* The version the request must find: the matchEtag argument of UpsertFile
\* and the ifMatchEtag argument of DeleteFile.
Expect(in) ==
    CASE in.handler = "delete_attachment" -> AnyETag
      [] in.handler = "post_issue" -> NoETag
      [] in.handler \in PutHandlers /\ in.ifNoneMatch -> NoETag
      [] OTHER -> in.ifMatch

\* The version the request leaves: newETag, or no row after a delete.
NewETag(in) ==
    IF in.handler \in {"delete_issue", "delete_attachment"}
      THEN NoETag ELSE Sha256(in.body)

IsCreate(in) == Expect(in) = NoETag

roleRank == [none |-> 0, viewer |-> 1, editor |-> 2, admin |-> 3]

RequireRole(in) ==
    roleRank[in.role] >=
        roleRank[IF in.handler = "put_project_json" THEN "admin" ELSE "editor"]

\* If-None-Match: * wins over If-Match; with neither the answer is 428.
NoPrecondition(in) ==
    \/ in.handler \in PutHandlers /\ ~in.ifNoneMatch /\ in.ifMatch = NoETag
    \/ in.handler = "delete_issue" /\ in.ifMatch = NoETag

\* Only the PUT handlers bound the size of the body.
BadBody(in) ==
    \/ in.fault = "badBody" /\ in.handler \in PutHandlers \cup {"post_issue"}
    \/ in.fault = "oversize" /\ in.handler \in PutHandlers

\* The status of the first check that fails, 0 if the request passes them all.
Refusal(in) ==
    IF in.fault = "unauthenticated" THEN 401
    ELSE IF in.fault = "malformed" THEN 400
    ELSE IF in.fault = "lookup" THEN 500
    ELSE IF ~RequireRole(in) THEN 403
    ELSE IF NoPrecondition(in) THEN 428
    ELSE IF BadBody(in) THEN (IF in.fault = "oversize" THEN 413 ELSE 400)
    ELSE 0

FirstCall(h) ==
    IF h \in {"delete_issue", "delete_attachment"} THEN "deleteRow" ELSE "fileExists"

\* Mutant: the arguments etag_before and etag_after in the wrong order.
AuditRow_Swapped(q) ==
    [req |-> q, path |-> Path(q), before |-> NewETag(input[q]),
     after |-> IF Handler(q) \in PutHandlers THEN old[q] ELSE input[q].ifMatch]

\* The audit row of a finished mutation.  A PUT records the ETag it read
\* before the upload, a DELETE the one the client sent.
AuditRow(q) ==
    [req |-> q, path |-> Path(q), after |-> NewETag(input[q]),
     before |-> CASE Handler(q) \in PutHandlers -> old[q]
                  [] Handler(q) = "delete_issue" -> input[q].ifMatch
                  [] OTHER -> NoETag]

\* The issueChanged, attachmentChanged or projectMetaChanged event of a request.
EventOf(q) ==
    [req |-> q, path |-> Path(q), etag |-> NewETag(input[q]),
     op |-> CASE Handler(q) = "put_project_json" -> "meta"
              [] Handler(q) \in {"delete_issue", "delete_attachment"} -> "deleted"
              [] OTHER -> IF IsCreate(input[q]) THEN "created" ELSE "updated"]

SuccessStatus(in) ==
    CASE in.handler \in {"delete_issue", "delete_attachment"} -> 204
      [] in.handler = "post_issue" -> 201
      [] in.handler = "put_attachment" /\ in.ifNoneMatch -> 201
      [] OTHER -> 200
-----------------------------------------------------------------------------
\* A server that has been running: any set of files may exist, each row with
\* its bytes in S3.
Init ==
    /\ s3 \in [Paths -> Bodies \cup {NoBody}]
    /\ files = [p \in Paths |-> IF s3[p] = NoBody THEN NoETag ELSE Sha256(s3[p])]
    /\ versions = [p \in Paths |->
                     <<[req |-> NoReq, expect |-> NoETag, to |-> files[p]]>>]
    /\ uploaded = {<<p, s3[p]>> : p \in {x \in Paths : s3[x] # NoBody}}
    /\ audit = {} /\ events = <<>>
    /\ pc = [q \in Reqs |-> "idle"]
    /\ input = [q \in Reqs |-> CHOOSE in \in Inputs : TRUE]  \* read once not idle
    /\ old = [q \in Reqs |-> NoETag]
    /\ status = [q \in Reqs |-> 0]
    /\ broadcast = <<>> /\ handed = <<>> /\ crashes = 0

Goto(q, from, to) ==
    /\ pc[q] = from
    /\ pc' = [pc EXCEPT ![q] = to]
    /\ UNCHANGED <<input, status, crashes>>

Answer(q, from, code) ==
    /\ pc[q] = from
    /\ pc' = [pc EXCEPT ![q] = "done"]
    /\ status' = [status EXCEPT ![q] = code]
    /\ UNCHANGED <<input, crashes>>

\* The request's row becomes the version `to'.
Commit(q, to) ==
    /\ files' = [files EXCEPT ![Path(q)] = to]
    /\ versions' = [versions EXCEPT ![Path(q)] =
                      Append(@, [req |-> q, to |-> to,
                                 expect |-> Expect(input[q])])]

\* The part of a handler before its first storage call on files: resolveUser,
\* the ids, ProjectRole, RequireRole, the precondition headers, readBody.
Receive(q, in) ==
    /\ pc[q] = "idle"
    /\ input' = [input EXCEPT ![q] = in]
    /\ pc' = [pc EXCEPT ![q] =
                IF Refusal(in) = 0 THEN FirstCall(in.handler) ELSE "done"]
    /\ status' = [status EXCEPT ![q] = Refusal(in)]
    /\ UNCHANGED <<dbVars, old, broadcast, crashes, histVars>>

\* PUT: the old ETag for the audit log; an error reads as "no row".
ReadOldETag(q) ==
    /\ Goto(q, "fileExists", "putObject")
    /\ \E e \in {files[Path(q)], NoETag} : old' = [old EXCEPT ![q] = e]
    /\ UNCHANGED <<dbVars, broadcast, histVars>>

\* POST: refused if the row exists, 500 if the query fails.
CheckNotExists(q) ==
    /\ \/ files[Path(q)] = NoETag /\ Goto(q, "fileExists", "putObject")
       \/ files[Path(q)] # NoETag /\ Answer(q, "fileExists", 409)
       \/ Answer(q, "fileExists", 500)
    /\ UNCHANGED <<dbVars, old, broadcast, histVars>>

StoreObject(q) ==
    /\ s3' = [s3 EXCEPT ![Path(q)] = input[q].body]
    /\ uploaded' = uploaded \cup {<<Path(q), input[q].body>>}

\* Mutant: the error of the upload is ignored.
PutObject_IgnoresError(q) ==
    /\ Goto(q, "putObject", "upsertFile")
    /\ StoreObject(q) \/ UNCHANGED <<s3, uploaded>>
    /\ UNCHANGED <<files, audit, events, old, broadcast, versions, handed>>

\* The bytes are stored before the precondition is checked.
PutObject(q) ==
    /\ \/ Goto(q, "putObject", "upsertFile") /\ StoreObject(q)
       \/ Answer(q, "putObject", 500) /\ StoreObject(q)
       \/ Answer(q, "putObject", 500) /\ UNCHANGED <<s3, uploaded>>
    /\ UNCHANGED <<files, audit, events, old, broadcast, versions, handed>>

\* Mutant: UPDATE without the condition on the ETag.
UpdateMatches_AnyVersion(q) ==
    Expect(input[q]) # NoETag /\ files[Path(q)] # NoETag

\* UPDATE ... WHERE etag = ifMatchEtag
UpdateMatches(q) ==
    Expect(input[q]) # NoETag /\ files[Path(q)] = Expect(input[q])

\* Mutant: ON CONFLICT DO UPDATE.
InsertMatches_Overwrites(q) == IsCreate(input[q])

\* INSERT ... ON CONFLICT DO NOTHING
InsertMatches(q) == IsCreate(input[q]) /\ files[Path(q)] = NoETag

\* Mutant: the number of rows affected is not looked at.
UpsertFile_IgnoresConflict(q) ==
    /\ \/ /\ UpdateMatches(q) \/ InsertMatches(q)
          /\ Commit(q, NewETag(input[q]))
          /\ Goto(q, "upsertFile", "auditLog")
       \/ /\ ~UpdateMatches(q) /\ ~InsertMatches(q)
          /\ Goto(q, "upsertFile", "auditLog")
          /\ UNCHANGED <<files, versions>>
       \/ Answer(q, "upsertFile", 500) /\ UNCHANGED <<files, versions>>
    /\ UNCHANGED <<s3, audit, events, old, broadcast, uploaded, handed>>

\* Mutant: the test on the number of rows affected is inverted.
UpsertFile_InvertedTest(q) ==
    /\ \/ /\ UpdateMatches(q) \/ InsertMatches(q)
          /\ Commit(q, NewETag(input[q]))
          /\ Answer(q, "upsertFile", 409)
       \/ /\ ~UpdateMatches(q) /\ ~InsertMatches(q)
          /\ Goto(q, "upsertFile", "auditLog")
          /\ UNCHANGED <<files, versions>>
    /\ UNCHANGED <<s3, audit, events, old, broadcast, uploaded, handed>>

\* One conditional statement; no row affected is ErrETagConflict.  When the
\* call fails the statement may still have been committed.
UpsertFile(q) ==
    /\ \/ /\ UpdateMatches(q) \/ InsertMatches(q)
          /\ Commit(q, NewETag(input[q]))
          /\ Goto(q, "upsertFile", "auditLog") \/ Answer(q, "upsertFile", 500)
       \/ /\ ~UpdateMatches(q) /\ ~InsertMatches(q)
          /\ Answer(q, "upsertFile", 409)
          /\ UNCHANGED <<files, versions>>
       \/ Answer(q, "upsertFile", 500) /\ UNCHANGED <<files, versions>>
    /\ UNCHANGED <<s3, audit, events, old, broadcast, uploaded, handed>>

\* Mutant: DELETE without the condition on the ETag.
DeleteMatches_AnyVersion(q) == files[Path(q)] # NoETag

\* DELETE ... WHERE etag = ifMatchEtag
DeleteMatches(q) == files[Path(q)] = Expect(input[q])

\* First statement of DeleteFile.
DeleteFile(q) ==
    /\ \/ /\ DeleteMatches(q)
          /\ Commit(q, NoETag)
          /\ Goto(q, "deleteRow", "deleteObject") \/ Answer(q, "deleteRow", 500)
       \/ /\ ~DeleteMatches(q)
          /\ Goto(q, "deleteRow", "rowProbe")
          /\ UNCHANGED <<files, versions>>
       \/ Answer(q, "deleteRow", 500) /\ UNCHANGED <<files, versions>>
    /\ UNCHANGED <<s3, audit, events, old, broadcast, uploaded, handed>>

\* The second statement of DeleteFile, run when the first affected no row,
\* tells "absent" from "other version".  Its error is ignored: exists stays
\* false.
ProbeRow(q) ==
    /\ \/ files[Path(q)] # NoETag /\ Answer(q, "rowProbe", 409)
       \/ Answer(q, "rowProbe", 404)
    /\ UNCHANGED <<dbVars, old, broadcast, histVars>>

\* DELETE of an attachment: no precondition, and a missing row is no error.
DeleteRow(q) ==
    /\ \/ /\ Commit(q, NoETag)
          /\ Goto(q, "deleteRow", "deleteObject") \/ Answer(q, "deleteRow", 500)
       \/ Answer(q, "deleteRow", 500) /\ UNCHANGED <<files, versions>>
    /\ UNCHANGED <<s3, audit, events, old, broadcast, uploaded, handed>>

\* Best effort: the handler goes on whether or not the object was deleted.
DeleteS3Object(q) ==
    /\ Goto(q, "deleteObject", "auditLog")
    /\ s3' \in {s3, [s3 EXCEPT ![Path(q)] = NoBody]}
    /\ UNCHANGED <<files, audit, events, old, broadcast, histVars>>

\* Cache.Delete and WriteAuditLog, whose error is ignored.
WriteAuditLog(q) ==
    /\ Goto(q, "auditLog", "appendEvent")
    /\ audit' \in {audit, audit \cup {AuditRow(q)}}
    /\ UNCHANGED <<files, s3, events, old, broadcast, histVars>>

\* Mutant: fanOutEvent returns when AppendEvent fails.
AppendEvent_ReturnsOnError(q) ==
    /\ \/ Goto(q, "appendEvent", "hubSend") /\ events' = Append(events, EventOf(q))
       \/ Goto(q, "appendEvent", "respond") /\ UNCHANGED events
    /\ UNCHANGED <<files, s3, audit, old, broadcast, histVars>>

\* First half of fanOutEvent: an error is only logged.
AppendEvent(q) ==
    /\ Goto(q, "appendEvent", "hubSend")
    /\ events' \in {events, Append(events, EventOf(q))}
    /\ UNCHANGED <<files, s3, audit, old, broadcast, histVars>>

\* Mutant: a queue without a bound.
Broadcast_Unbounded(q) ==
    /\ Goto(q, "hubSend", "respond")
    /\ broadcast' = Append(broadcast, EventOf(q))
    /\ handed' = Append(handed, EventOf(q))
    /\ UNCHANGED <<dbVars, old, versions, uploaded>>

\* Second half of fanOutEvent: a send that blocks while the channel is full.
Broadcast(q) ==
    /\ Len(broadcast) < BroadcastCap
    /\ Goto(q, "hubSend", "respond")
    /\ broadcast' = Append(broadcast, EventOf(q))
    /\ handed' = Append(handed, EventOf(q))
    /\ UNCHANGED <<dbVars, old, versions, uploaded>>

Respond(q) ==
    /\ Answer(q, "respond", SuccessStatus(input[q]))
    /\ UNCHANGED <<dbVars, old, broadcast, histVars>>

\* What every handler does after its row is committed.
FinishWrite(q) == WriteAuditLog(q) \/ AppendEvent(q) \/ Broadcast(q) \/ Respond(q)

PutFile(q) == ReadOldETag(q) \/ PutObject(q) \/ UpsertFile(q) \/ FinishWrite(q)

PutIssueHandler(q) == Handler(q) = "put_issue" /\ PutFile(q)

PutAttachmentHandler(q) == Handler(q) = "put_attachment" /\ PutFile(q)

PutProjectJSONHandler(q) == Handler(q) = "put_project_json" /\ PutFile(q)

PostIssueHandler(q) ==
    /\ Handler(q) = "post_issue"
    /\ CheckNotExists(q) \/ PutObject(q) \/ UpsertFile(q) \/ FinishWrite(q)

DeleteIssueHandler(q) ==
    /\ Handler(q) = "delete_issue"
    /\ DeleteFile(q) \/ ProbeRow(q) \/ DeleteS3Object(q) \/ FinishWrite(q)

DeleteAttachmentHandler(q) ==
    /\ Handler(q) = "delete_attachment"
    /\ DeleteRow(q) \/ DeleteS3Object(q) \/ FinishWrite(q)

Handle(q) ==
    \/ PutIssueHandler(q)
    \/ PutAttachmentHandler(q)
    \/ PutProjectJSONHandler(q)
    \/ PostIssueHandler(q)
    \/ DeleteIssueHandler(q)
    \/ DeleteAttachmentHandler(q)

\* Mutant: the hub's loop is never started.
HubTake_NotStarted == FALSE /\ UNCHANGED vars

\* Hub.Run takes the next event; its fan-out is Hub.tla.
HubTake ==
    /\ broadcast # <<>>
    /\ broadcast' = Tail(broadcast)
    /\ UNCHANGED <<dbVars, pc, input, old, status, crashes, histVars>>

\* The process dies and is restarted: the requests in flight and the channel
\* are lost, Postgres and S3 are not.
Crash ==
    /\ crashes < MaxCrashes
    /\ crashes' = crashes + 1
    /\ pc' = [q \in Reqs |-> IF pc[q] = "idle" THEN "idle" ELSE "done"]
    /\ broadcast' = <<>>
    /\ UNCHANGED <<dbVars, input, old, status, histVars>>

Next ==
    \/ \E q \in Reqs, in \in Inputs : Receive(q, in)
    \/ \E q \in Reqs : Handle(q)
    \/ HubTake
    \/ Crash

\* A handler's goroutine keeps running and every storage call returns, with a
\* result or an error; the hub's loop keeps receiving.
Fairness == (\A q \in Reqs : WF_vars(Handle(q))) /\ WF_vars(HubTake)

Spec == Init /\ [][Next]_vars

FairSpec == Spec /\ Fairness
-----------------------------------------------------------------------------
(***************************************************************************)
(* Properties                                                              *)
(***************************************************************************)
VersionType == [req : Reqs \cup {NoReq},
                expect : IfMatch \cup {NoETag, AnyETag},
                to : ETags \cup {NoETag}]

EventType == [req : Reqs, path : Paths, etag : ETags \cup {NoETag},
              op : {"created", "updated", "deleted", "meta"}]

AuditType == [req : Reqs, path : Paths, after : ETags \cup {NoETag},
              before : IfMatch \cup {NoETag}]

\* Every variable stays in its type; in particular the channel hub.broadcast
\* never holds more events than its capacity, whoever sends to it.
TypeOK ==
    /\ files \in [Paths -> ETags \cup {NoETag}]
    /\ s3 \in [Paths -> Bodies \cup {NoBody}]
    /\ audit \subseteq AuditType
    /\ events \in Seq(EventType)
    /\ pc \in [Reqs -> Calls \cup {"idle", "done"}]
    /\ input \in [Reqs -> Inputs]
    /\ old \in [Reqs -> ETags \cup {NoETag}]
    /\ status \in [Reqs -> Success \cup Refusals \cup {0, 500}]
    /\ broadcast \in Seq(EventType) /\ Len(broadcast) <= BroadcastCap
    /\ crashes \in 0..MaxCrashes
    /\ versions \in [Paths -> Seq(VersionType)]
    /\ uploaded \subseteq Paths \X Bodies
    /\ handed \in Seq(EventType)

\* Item i of the history of p was committed by request q.
By(q, p, i) == i \in 1..Len(versions[p]) /\ versions[p][i].req = q

Committed(q) == \E p \in Paths : \E i \in 1..Len(versions[p]) : By(q, p, i)

InLog(log, e) == \E i \in 1..Len(log) : log[i] = e

\* No lost update: whatever the interleaving, a conditional write that commits
\* replaces exactly the version its client named (or creates a file that was
\* absent), and the row is always the version committed last.
NoLostUpdate ==
    \A p \in Paths :
        /\ \A i \in 2..Len(versions[p]) :
              versions[p][i].expect \in {versions[p][i - 1].to, AnyETag}
        /\ files[p] = versions[p][Len(versions[p])].to

\* A 2xx answer means the request committed exactly one version, the one
\* asked for, and its event has been handed to the hub.
SuccessIsCommitted ==
    \A q \in Reqs : status[q] \in Success =>
        /\ \E i \in 1..Len(versions[Path(q)]) :
              /\ By(q, Path(q), i)
              /\ versions[Path(q)][i].to = NewETag(input[q])
        /\ \A p \in Paths : \A i, j \in 1..Len(versions[p]) :
              By(q, p, i) /\ By(q, p, j) => i = j
        /\ InLog(handed, EventOf(q))

\* A request answered 4xx changed no row and left nothing in the audit log,
\* in the event log or with the hub.
RefusedLeavesNoTrace ==
    \A q \in Reqs : status[q] \in Refusals =>
        /\ ~Committed(q)
        /\ \A a \in audit : a.req # q
        /\ \A i \in 1..Len(events) : events[i].req # q
        /\ \A i \in 1..Len(handed) : handed[i].req # q

\* Every event, stored or broadcast, announces a committed version, and its
\* op tells truly whether the file existed before: "created" only for a file
\* that was absent, "updated" only for one that was there.
AnnouncedWasCommitted ==
    \A log \in {events, handed} : \A n \in 1..Len(log) :
        LET e == log[n] IN
        \E i \in 2..Len(versions[e.path]) :
            /\ By(e.req, e.path, i)
            /\ versions[e.path][i].to = e.etag
            /\ e.op = "created" => versions[e.path][i - 1].to = NoETag
            /\ e.op = "updated" => versions[e.path][i - 1].to # NoETag

\* Every version ever committed names bytes that were stored under the key of
\* its file: a row never refers to content the server did not upload.
VersionsWereUploaded ==
    \A p \in Paths : \A i \in 1..Len(versions[p]) :
        versions[p][i].to # NoETag =>
            \E b \in Bodies : <<p, b>> \in uploaded /\ Sha256(b) = versions[p][i].to

\* An audit row is the record of a committed version, with the right
\* etag_after, and the row of an issue delete has the right etag_before.
AuditedWasCommitted ==
    \A a \in audit : \E i \in 2..Len(versions[a.path]) :
        /\ By(a.req, a.path, i)
        /\ versions[a.path][i].to = a.after
        /\ Handler(a.req) = "delete_issue" => versions[a.path][i - 1].to = a.before

\* Three facts the proofs rest on: a history starts with the initial version;
\* a request that runs UpsertFile next has stored its bytes; a status is
\* written only when the handler returns.
HistoriesNonEmpty == \A p \in Paths : Len(versions[p]) >= 1

UploadedBeforeUpsert ==
    \A q \in Reqs : pc[q] = "upsertFile" => <<Path(q), input[q].body>> \in uploaded

AnsweredWhenDone == \A q \in Reqs : pc[q] # "done" => status[q] = 0

\* The index is a compare-and-set register and the answers tell the truth
\* about it: see ETagRegister.
PhaseOf(q) ==
    CASE pc[q] = "idle" -> "idle"
      [] pc[q] \in {"fileExists", "putObject", "upsertFile", "deleteRow"} -> "open"
      [] pc[q] = "rowProbe" -> "missed"
      [] pc[q] \in {"deleteObject", "auditLog", "appendEvent", "hubSend", "respond"}
           -> "applied"
      [] pc[q] = "done" ->
           CASE status[q] \in Success -> "ok"
             [] status[q] = 409 -> "conflict"
             [] status[q] = 404 -> "notFound"
             [] status[q] \in {0, 500} -> "unknown"
             [] OTHER -> "refused"

AskOf(in) == [path |-> in.path, expect |-> Expect(in), new |-> NewETag(in)]

Register == INSTANCE ETagRegister WITH
    reg <- files,
    ask <- [q \in Reqs |-> AskOf(input[q])],
    phase <- [q \in Reqs |-> PhaseOf(q)]

\* Every behaviour of the handlers is a behaviour of the register: a write
\* takes effect atomically, at most once and only while its precondition
\* holds; 409 and 404 are given only to requests that met another version.
ImplementsRegister == Register!Spec

\* Every request that reaches storage is eventually answered, although the
\* send to the hub blocks while the channel is full (or the process crashes).
EveryRequestEnds == \A q \in Reqs : (pc[q] \in Calls) ~> (pc[q] = "done")

\* Every write whose commit succeeded is eventually handed to the hub, whatever
\* happens to its audit row and to its row in the event log, unless the
\* process crashes first.
CommitsAreAnnounced ==
    \A q \in Reqs :
        (pc[q] = "auditLog") ~>
            (InLog(handed, EventOf(q)) \/ (pc[q] = "done" /\ status[q] = 0))
-----------------------------------------------------------------------------
(***************************************************************************)
(* What the documents say and the code does not do                         *)
(***************************************************************************)
\* No request is in flight, and none met an error of S3 or Postgres or a crash.
Quiet == \A q \in Reqs : pc[q] = "idle" \/ status[q] \in Success \cup Refusals

\* RemoteSync.md: "ETag is the lowercase hex SHA-256 of the file's bytes.
\* Content-addressed and self-verifying."  When every request has been answered
\* with success or a refusal, every row names the bytes under its key.
\* PutObject runs before the precondition is checked, so a PUT refused with 409
\* has already replaced the bytes.
RowMatchesBytes ==
    Quiet => \A p \in Paths : files[p] # NoETag =>
                s3[p] # NoBody /\ Sha256(s3[p]) = files[p]
=============================================================================
