------------------------------ MODULE ReadPath ------------------------------
(***************************************************************************)
(* The GET endpoints for the content of a file, IssueByIDHandler           *)
(* (issues.go) and AttachmentHandler (attachments.go), running beside the  *)
(* write handlers of WritePath.  A read is two calls: the row in Postgres, *)
(* then the object in S3; writes may come between them.                    *)
(***************************************************************************)
EXTENDS WritePath

CONSTANTS
    Readers,        \* GET requests
    CutBody,        \* a body whose end is missing
    S3ETag(_)       \* external: the ETag S3 gives to stored bytes (not SHA-256)

ASSUME S3ETagAssumption ==
    /\ CutBody \notin Bodies \cup {NoBody}
    /\ \A b, c \in Bodies : Quote(S3ETag(b)) # Quote(Sha256(c))

VARIABLES
    rpc,        \* the call each reader makes next
    rpath,      \* the file it asks for
    rrow,       \* the ETag it read from the row
    rstatus,    \* the status answered, 0 before
    rheader,    \* the ETag header answered, NoETag if none
    rbody       \* the body answered, NoBody if empty

readVars == <<rpc, rpath, rrow, rstatus, rheader, rbody>>
allVars == <<vars, readVars>>

Readable == Issues \cup Attachments

RInit ==
    /\ Init
    /\ rpc = [r \in Readers |-> "idle"]
    /\ rpath \in [Readers -> {CHOOSE p \in Readable : TRUE}]  \* read once set
    /\ rrow = [r \in Readers |-> NoETag]
    /\ rstatus = [r \in Readers |-> 0]
    /\ rheader = [r \in Readers |-> NoETag]
    /\ rbody = [r \in Readers |-> NoBody]

Reply(r, from, code, header, body) ==
    /\ rpc[r] = from
    /\ rpc' = [rpc EXCEPT ![r] = "done"]
    /\ rstatus' = [rstatus EXCEPT ![r] = code]
    /\ rheader' = [rheader EXCEPT ![r] = header]
    /\ rbody' = [rbody EXCEPT ![r] = body]
    /\ UNCHANGED <<rpath, rrow>>

\* The request, its ids and ProjectByID: no access, or an archived project,
\* is a 404, a failed query a 500.
ReceiveGet(r, p) ==
    /\ rpc[r] = "idle"
    /\ rpath' = [rpath EXCEPT ![r] = p]
    /\ \/ rpc' = [rpc EXCEPT ![r] = "row"] /\ UNCHANGED rstatus
       \/ /\ rpc' = [rpc EXCEPT ![r] = "done"]
          /\ \E code \in {400, 401, 404, 500} : rstatus' = [rstatus EXCEPT ![r] = code]
    /\ UNCHANGED <<rrow, rheader, rbody>>

\* Mutant: pgx.ErrNoRows is not looked at.
ReadRow_IgnoresNoRows(r) ==
    \/ /\ rpc[r] = "row"
       /\ rpc' = [rpc EXCEPT ![r] = "object"]
       /\ rrow' = [rrow EXCEPT ![r] = files[rpath[r]]]
       /\ UNCHANGED <<rpath, rstatus, rheader, rbody>>
    \/ Reply(r, "row", 500, NoETag, NoBody)

\* IssueByID and AttachmentByPath.
ReadRow(r) ==
    \/ /\ rpc[r] = "row" /\ files[rpath[r]] # NoETag
       /\ rpc' = [rpc EXCEPT ![r] = "object"]
       /\ rrow' = [rrow EXCEPT ![r] = files[rpath[r]]]
       /\ UNCHANGED <<rpath, rstatus, rheader, rbody>>
    \/ files[rpath[r]] = NoETag /\ Reply(r, "row", 404, NoETag, NoBody)
    \/ Reply(r, "row", 500, NoETag, NoBody)

\* GetObject for an issue: the ETag header is the one of the row.  An error
\* while the body is copied ends the loop as its end would.
GetObject(r) ==
    \/ /\ s3[rpath[r]] # NoBody
       /\ \E b \in {s3[rpath[r]], CutBody} :
             Reply(r, "object", 200, Quote(rrow[r]), b)
    \/ Reply(r, "object", 500, NoETag, NoBody)

\* StreamObject for an attachment: the ETag header is the one of S3.  When
\* GetObject fails the handler returns without a status, which net/http turns
\* into 200 with an empty body.
StreamObject(r) ==
    \/ /\ s3[rpath[r]] # NoBody
       /\ \E b \in {s3[rpath[r]], CutBody} :
             Reply(r, "object", 200, Quote(S3ETag(s3[rpath[r]])), b)
    \/ Reply(r, "object", 200, NoETag, NoBody)

IssueByIDHandler(r) == rpath[r] \in Issues /\ (ReadRow(r) \/ GetObject(r))

AttachmentHandler(r) == rpath[r] \in Attachments /\ (ReadRow(r) \/ StreamObject(r))

\* A crash also loses the reads in flight.
RCrash ==
    /\ Crash
    /\ rpc' = [r \in Readers |-> IF rpc[r] = "idle" THEN "idle" ELSE "done"]
    /\ UNCHANGED <<rpath, rrow, rstatus, rheader, rbody>>

RNext ==
    \/ /\ \/ \E q \in Reqs, in \in Inputs : Receive(q, in)
          \/ \E q \in Reqs : Handle(q)
          \/ HubTake
       /\ UNCHANGED readVars
    \/ RCrash
    \/ /\ \E r \in Readers : \/ \E p \in Readable : ReceiveGet(r, p)
                             \/ IssueByIDHandler(r)
                             \/ AttachmentHandler(r)
       /\ UNCHANGED vars

RSpec == RInit /\ [][RNext]_allVars
-----------------------------------------------------------------------------
\* The bytes of a successful GET really were uploaded for that file (a broken
\* stream yields the beginning of such bytes, and an attachment that cannot be
\* read an empty body), and the ETag of an issue really was a version of it,
\* committed before the answer: never content of another file or a version
\* nobody wrote, whatever is written or deleted between the two calls.
ReadsWereWritten ==
    \A r \in Readers : rstatus[r] = 200 =>
        /\ rbody[r] \notin {CutBody, NoBody} => <<rpath[r], rbody[r]>> \in uploaded
        /\ rpath[r] \in Issues =>
              /\ rbody[r] # NoBody
              /\ \E i \in 1..Len(versions[rpath[r]]) :
                    /\ versions[rpath[r]][i].to # NoETag
                    /\ rheader[r] = Quote(versions[rpath[r]][i].to)
=============================================================================
