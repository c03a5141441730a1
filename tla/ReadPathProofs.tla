--------------------------- MODULE ReadPathProofs ---------------------------
(***************************************************************************)
(* What a GET answers was written, for any number of readers beside any    *)
(* number of writers.                                                      *)
(***************************************************************************)
EXTENDS ReadPath, WritePathTraceProofs

\* Every object in S3 was uploaded for its file.
ObjectsWereUploaded ==
    \A p \in Paths : s3[p] # NoBody => <<p, s3[p]>> \in uploaded

\* e is the ETag of a version of file p.
WasVersion(p, e) ==
    e # NoETag /\ \E i \in 1..Len(versions[p]) : versions[p][i].to = e

\* What ReadsWereWritten says of a 200 for file p.
AnswerIsTrue(p, header, body) ==
    /\ body \notin {CutBody, NoBody} => <<p, body>> \in uploaded
    /\ p \in Issues =>
          /\ body # NoBody
          /\ \E i \in 1..Len(versions[p]) :
                /\ versions[p][i].to # NoETag
                /\ header = Quote(versions[p][i].to)

\* A step of reader r leaves the others as they are.
OthersStay(r) ==
    \A x \in Readers \ {r} :
        /\ rpc'[x] = rpc[x] /\ rpath'[x] = rpath[x] /\ rrow'[x] = rrow[x]
        /\ rstatus'[x] = rstatus[x] /\ rheader'[x] = rheader[x] /\ rbody'[x] = rbody[x]

\* The types of the readers' variables.
ReadTypes ==
    /\ rpc \in [Readers -> {"idle", "row", "object", "done"}]
    /\ rpath \in [Readers -> Readable \cup {CHOOSE p \in Readable : TRUE}]
    /\ rrow \in [Readers -> ETags \cup {NoETag}]
    /\ rstatus \in [Readers -> {0, 200, 400, 401, 404, 500}]
    /\ DOMAIN rheader = Readers /\ DOMAIN rbody = Readers
    /\ \A r \in Readers : rpc[r] # "idle" => rpath[r] \in Readable

\* A reader that fetches the object has read a version of the file.
RowWasVersion ==
    \A r \in Readers : rpc[r] = "object" => WasVersion(rpath[r], rrow[r])

\* Only a reader that is done has answered 200.
RepliedWhenDone == \A r \in Readers : rstatus[r] = 200 => rpc[r] = "done"

ReadInv ==
    /\ IndexInv
    /\ ObjectsWereUploaded
    /\ ReadTypes
    /\ RowWasVersion
    /\ RepliedWhenDone
    /\ ReadsWereWritten
-----------------------------------------------------------------------------
(***************************************************************************)
(* The writers                                                             *)
(***************************************************************************)
\* The write handlers, the hub and the readers never take back a version or
\* forget an upload, and S3 holds only what was uploaded.
LEMMA WritersKeep ==
    ASSUME TypeOK, ObjectsWereUploaded, [Next]_vars
    PROVE  Grows /\ uploaded \subseteq uploaded' /\ ObjectsWereUploaded'
<1>1. ASSUME UNCHANGED <<s3, uploaded, versions>>
      PROVE  Grows /\ uploaded \subseteq uploaded' /\ ObjectsWereUploaded'
  BY <1>1 DEF Grows, ObjectsWereUploaded, TypeOK
<1>2. ASSUME NEW q \in Reqs, Handle(q)
      PROVE  Grows /\ uploaded \subseteq uploaded' /\ ObjectsWereUploaded'
  <2>1. Grows
    <3>1. OpenStep(q) \/ CommitStep(q) \/ AppliedStep(q)
      BY <1>2, HandleStep
    <3> QED
      BY <3>1, HistoriesGrow DEF OpenStep, CommitStep, AppliedStep
  <2>2. CASE UNCHANGED <<s3, uploaded>>
    BY <2>1, <2>2 DEF ObjectsWereUploaded
  <2>3. CASE StoreObject(q)
    <3>1. Path(q) \in Paths /\ input[q].body \in Bodies
      BY InputFacts DEF TypeOK, Path
    <3>2. /\ s3'[Path(q)] = input[q].body
          /\ \A p \in Paths \ {Path(q)} : s3'[p] = s3[p]
          /\ uploaded' = uploaded \cup {<<Path(q), input[q].body>>}
      BY <2>3, <3>1 DEF StoreObject, TypeOK
    <3> QED
      BY <2>1, <3>2 DEF ObjectsWereUploaded
  <2>4. CASE DeleteS3Object(q)
    <3>1. \A p \in Paths : s3'[p] \in {s3[p], NoBody}
      BY <2>4 DEF DeleteS3Object, TypeOK
    <3> QED
      BY <2>1, <2>4, <3>1 DEF DeleteS3Object, histVars, ObjectsWereUploaded
  <2> QED
    BY <1>2, <2>2, <2>3, <2>4
    DEF Handle, PutIssueHandler, PutAttachmentHandler, PutProjectJSONHandler,
        PostIssueHandler, DeleteIssueHandler, DeleteAttachmentHandler,
        PutFile, FinishWrite, ReadOldETag, CheckNotExists, PutObject, UpsertFile,
        DeleteFile, ProbeRow, DeleteRow, WriteAuditLog, AppendEvent, Broadcast,
        Respond, dbVars, histVars
<1>3. CASE UNCHANGED vars \/ HubTake \/ Crash \/ \E q \in Reqs, in \in Inputs : Receive(q, in)
  BY <1>1, <1>3 DEF vars, HubTake, Crash, Receive, dbVars, histVars
<1> QED
  BY <1>2, <1>3 DEF Next

\* A step of the composed system is a step of the writers or leaves them alone.
LEMMA RNextIsNext == [RNext]_allVars => [Next]_vars
BY DEF RNext, RCrash, allVars, Next

\* The readers never disturb the writers: every behaviour of the composed
\* system is one of WritePath, so all theorems about the writers hold in it.
THEOREM ReadersAreHarmless == RSpec => Spec
<1>1. RInit => Init
  BY DEF RInit
<1> QED
  BY <1>1, RNextIsNext, PTL DEF RSpec, Spec

\* ReadsWereWritten, answer by answer.
LEMMA AnswersAreTrue ==
    ReadsWereWritten <=>
        \A r \in Readers : rstatus[r] = 200 => AnswerIsTrue(rpath[r], rheader[r], rbody[r])
BY Zenon DEF ReadsWereWritten, AnswerIsTrue

\* The answers of readers that have them stay true while the writers go on.
LEMMA AnswersStay ==
    ASSUME ReadInv, Grows, uploaded \subseteq uploaded'
    PROVE  /\ \A p \in Readable : \A e : WasVersion(p, e) => WasVersion(p, e)'
           /\ UNCHANGED readVars => ReadsWereWritten' /\ RowWasVersion'
<1>0. Readable \subseteq Paths
  BY DEF Readable, Paths
<1>1. \A p \in Readable : \A e : WasVersion(p, e) => WasVersion(p, e)'
  <2> SUFFICES ASSUME NEW p \in Readable, NEW e, WasVersion(p, e)
               PROVE  WasVersion(p, e)'
    OBVIOUS
  <2>1. PICK i \in 1..Len(versions[p]) : versions[p][i].to = e
    BY DEF WasVersion
  <2>2. i \in 1..Len(versions'[p]) /\ versions'[p][i] = versions[p][i]
    BY <1>0, <2>1 DEF Grows
  <2> QED
    BY <2>1, <2>2 DEF WasVersion
<1>2. ASSUME UNCHANGED readVars PROVE RowWasVersion'
  BY <1>1, <1>2 DEF ReadInv, ReadTypes, RowWasVersion, readVars
<1>3. ASSUME NEW p \in Readable, NEW header, NEW body, AnswerIsTrue(p, header, body)
      PROVE  AnswerIsTrue(p, header, body)'
  <2>1. ASSUME p \in Issues
        PROVE  \E i \in 1..Len(versions'[p]) :
                  /\ versions'[p][i].to # NoETag
                  /\ header = Quote(versions'[p][i].to)
    <3>1. PICK i \in 1..Len(versions[p]) :
             /\ versions[p][i].to # NoETag
             /\ header = Quote(versions[p][i].to)
      BY <1>3, <2>1 DEF AnswerIsTrue
    <3>2. i \in 1..Len(versions'[p]) /\ versions'[p][i] = versions[p][i]
      BY <1>0, <3>1 DEF Grows
    <3> QED
      BY <3>1, <3>2
  <2> QED
    BY <1>3, <2>1 DEF AnswerIsTrue
<1>4. ASSUME UNCHANGED readVars PROVE ReadsWereWritten'
  <2>1. \A r \in Readers : rstatus[r] = 200 =>
           rpath[r] \in Readable /\ AnswerIsTrue(rpath[r], rheader[r], rbody[r])
    BY AnswersAreTrue DEF ReadInv, ReadTypes, RepliedWhenDone
  <2>2. \A r \in Readers : rstatus[r] = 200 => AnswerIsTrue(rpath[r], rheader[r], rbody[r])'
    BY <1>3, <1>4, <2>1 DEF readVars, AnswerIsTrue
  <2> QED
    BY <1>4, <2>2 DEF readVars, ReadsWereWritten, AnswerIsTrue
<1> QED
  BY <1>1, <1>2, <1>4
-----------------------------------------------------------------------------
(***************************************************************************)
(* The readers                                                             *)
(***************************************************************************)
\* Initially nobody has read anything.
LEMMA InitRead == RInit => ReadInv
<1> SUFFICES ASSUME RInit PROVE ReadInv
  OBVIOUS
<1>1. IndexInv
  BY InitIndex DEF RInit
<1>2. ObjectsWereUploaded
  BY DEF RInit, Init, ObjectsWereUploaded
<1>3. ReadTypes
  BY DEF RInit, ReadTypes
<1>4. RowWasVersion /\ RepliedWhenDone /\ ReadsWereWritten
  BY DEF RInit, RowWasVersion, RepliedWhenDone, ReadsWereWritten
<1> QED
  BY <1>1, <1>2, <1>3, <1>4 DEF ReadInv

\* A reader that moves without an answer of 200.
LEMMA ReaderMoves ==
    ASSUME ReadInv, NEW r \in Readers, UNCHANGED vars, ReadTypes', OthersStay(r),
           rstatus'[r] # 200,
           rpc'[r] = "object" => WasVersion(rpath'[r], rrow'[r])
    PROVE  ReadInv'
<1>2. IndexInv' /\ ObjectsWereUploaded'
  BY NextIndex DEF ReadInv, ObjectsWereUploaded, vars, dbVars, histVars
<1>3. UNCHANGED <<versions, uploaded>>
  BY DEF vars, histVars
<1>4. RowWasVersion'
  BY <1>3 DEF ReadInv, RowWasVersion, WasVersion, OthersStay
<1>5. RepliedWhenDone'
  BY DEF ReadInv, RepliedWhenDone, OthersStay
<1>6. ReadsWereWritten'
  BY <1>3 DEF ReadInv, ReadsWereWritten, OthersStay
<1> QED
  BY <1>2, <1>4, <1>5, <1>6 DEF ReadInv

\* A reader that answers.
LEMMA ReaderReplies ==
    ASSUME ReadInv, NEW r \in Readers, NEW from \in {"row", "object"},
           NEW code \in {200, 404, 500}, NEW header, NEW body,
           Reply(r, from, code, header, body), UNCHANGED vars,
           code = 200 => AnswerIsTrue(rpath[r], header, body)
    PROVE  ReadInv'
<1>1. /\ rpc[r] = from /\ rpc'[r] = "done" /\ rstatus'[r] = code
      /\ rheader'[r] = header /\ rbody'[r] = body
      /\ OthersStay(r) /\ UNCHANGED <<rpath, rrow>>
  BY DEF ReadInv, ReadTypes, Reply, OthersStay
<1>2. IndexInv' /\ ObjectsWereUploaded'
  BY NextIndex DEF ReadInv, ObjectsWereUploaded, vars, dbVars, histVars
<1>3. UNCHANGED <<versions, uploaded>>
  BY DEF vars, histVars
<1>4. ReadTypes'
  BY <1>1 DEF ReadInv, ReadTypes, Reply
<1>5. RowWasVersion' /\ RepliedWhenDone'
  BY <1>1, <1>3 DEF ReadInv, RowWasVersion, RepliedWhenDone, WasVersion, OthersStay
<1>6. ReadsWereWritten'
  <2>1. \A x \in Readers : rstatus'[x] = 200 => AnswerIsTrue(rpath[x], rheader'[x], rbody'[x])
    BY <1>1, AnswersAreTrue DEF ReadInv, OthersStay
  <2>2. ASSUME NEW x \in Readers, rstatus'[x] = 200
        PROVE  /\ rbody'[x] \notin {CutBody, NoBody} => <<rpath'[x], rbody'[x]>> \in uploaded'
               /\ rpath'[x] \in Issues =>
                     /\ rbody'[x] # NoBody
                     /\ \E i \in 1..Len(versions'[rpath'[x]]) :
                           /\ versions'[rpath'[x]][i].to # NoETag
                           /\ rheader'[x] = Quote(versions'[rpath'[x]][i].to)
    <3>1. AnswerIsTrue(rpath[x], rheader'[x], rbody'[x]) /\ rpath' = rpath
      BY <1>1, <2>1, <2>2
    <3>2. versions' = versions /\ uploaded' = uploaded
      BY <1>3
    <3> QED
      BY <3>1, <3>2 DEF AnswerIsTrue
  <2> QED
    BY <2>2 DEF ReadsWereWritten
<1> QED
  BY <1>2, <1>4, <1>5, <1>6 DEF ReadInv

\* Every step of a reader.
LEMMA ReaderStepRead ==
    ASSUME ReadInv, NEW r \in Readers, UNCHANGED vars,
           \/ \E p \in Readable : ReceiveGet(r, p)
           \/ IssueByIDHandler(r) \/ AttachmentHandler(r)
    PROVE  ReadInv'
<1>0. /\ rpc[r] # "done" => rstatus[r] # 200
      /\ rpc[r] # "idle" => rpath[r] \in Readable /\ rpath[r] \in Paths
  BY DEF ReadInv, RepliedWhenDone, ReadTypes, Readable, Paths
<1>1. ASSUME NEW p \in Readable, ReceiveGet(r, p) PROVE ReadInv'
  <2>1. ReadTypes'
    BY <1>1 DEF ReceiveGet, ReadInv, ReadTypes
  <2>2. OthersStay(r) /\ rstatus'[r] # 200 /\ rpc'[r] # "object"
    BY <1>0, <1>1 DEF ReceiveGet, ReadInv, ReadTypes, OthersStay
  <2> QED
    BY <2>1, <2>2, ReaderMoves
<1>2. CASE ReadRow(r)
  <2>1. CASE \E code \in {404, 500} : Reply(r, "row", code, NoETag, NoBody)
    BY <2>1, ReaderReplies
  <2>2. CASE /\ rpc[r] = "row" /\ files[rpath[r]] # NoETag
             /\ rpc' = [rpc EXCEPT ![r] = "object"]
             /\ rrow' = [rrow EXCEPT ![r] = files[rpath[r]]]
             /\ UNCHANGED <<rpath, rstatus, rheader, rbody>>
    <3>1. rpath[r] \in Paths /\ files[rpath[r]] \in ETags \cup {NoETag}
      BY <1>0, <2>2 DEF ReadInv, IndexInv, TypeOK
    <3>2. ReadTypes'
      BY <1>0, <2>2, <3>1 DEF ReadInv, ReadTypes
    <3>3. rrow'[r] = files[rpath[r]] /\ rpath'[r] = rpath[r]
      BY <2>2 DEF ReadInv, ReadTypes
    <3>4. WasVersion(rpath[r], files[rpath[r]])
      <4>1. /\ files[rpath[r]] = versions[rpath[r]][Len(versions[rpath[r]])].to
            /\ Len(versions[rpath[r]]) >= 1
            /\ versions[rpath[r]] \in Seq(VersionType)
        BY <3>1 DEF ReadInv, IndexInv, TypeOK, NoLostUpdate, HistoriesNonEmpty
      <4>2. Len(versions[rpath[r]]) \in 1..Len(versions[rpath[r]])
        BY <4>1
      <4> QED
        BY <2>2, <4>1, <4>2 DEF WasVersion
    <3>5. OthersStay(r) /\ rstatus'[r] # 200
      BY <1>0, <2>2 DEF ReadInv, ReadTypes, OthersStay
    <3> QED
      BY <3>2, <3>3, <3>4, <3>5, ReaderMoves
  <2> QED
    BY <1>2, <2>1, <2>2 DEF ReadRow
<1>3. ASSUME rpc[r] = "object", s3[rpath[r]] # NoBody, NEW b \in {s3[rpath[r]], CutBody}
      PROVE  b \notin {CutBody, NoBody} => <<rpath[r], b>> \in uploaded
  BY <1>0, <1>3 DEF ReadInv, ObjectsWereUploaded
<1>4. CASE rpath[r] \in Issues /\ GetObject(r)
  <2>1. CASE Reply(r, "object", 500, NoETag, NoBody)
    BY <2>1, ReaderReplies
  <2>2. ASSUME s3[rpath[r]] # NoBody, NEW b \in {s3[rpath[r]], CutBody},
               Reply(r, "object", 200, Quote(rrow[r]), b)
        PROVE  ReadInv'
    <3>1. rpc[r] = "object"
      BY <2>2 DEF Reply
    <3>2. b # NoBody
      BY <2>2, S3ETagAssumption
    <3>3. \E i \in 1..Len(versions[rpath[r]]) :
             /\ versions[rpath[r]][i].to # NoETag
             /\ Quote(rrow[r]) = Quote(versions[rpath[r]][i].to)
      BY <3>1 DEF ReadInv, RowWasVersion, WasVersion
    <3>4. b \notin {CutBody, NoBody} => <<rpath[r], b>> \in uploaded
      BY <1>3, <2>2, <3>1
    <3>5. AnswerIsTrue(rpath[r], Quote(rrow[r]), b)
      BY <3>2, <3>3, <3>4, Zenon DEF AnswerIsTrue
    <3> QED
      BY <2>2, <3>5, ReaderReplies
  <2> QED
    BY <1>4, <2>1, <2>2 DEF GetObject
<1>5. CASE rpath[r] \in Attachments /\ StreamObject(r)
  <2>0. rpath[r] \notin Issues
    BY <1>5, PathAssumption
  <2>1. CASE Reply(r, "object", 200, NoETag, NoBody)
    <3>1. AnswerIsTrue(rpath[r], NoETag, NoBody)
      BY <2>0 DEF AnswerIsTrue
    <3> QED
      BY <2>1, <3>1, ReaderReplies
  <2>2. ASSUME s3[rpath[r]] # NoBody, NEW b \in {s3[rpath[r]], CutBody},
               Reply(r, "object", 200, Quote(S3ETag(s3[rpath[r]])), b)
        PROVE  ReadInv'
    <3>1. rpc[r] = "object"
      BY <2>2 DEF Reply
    <3>2. b \notin {CutBody, NoBody} => <<rpath[r], b>> \in uploaded
      BY <1>3, <2>2, <3>1
    <3>3. AnswerIsTrue(rpath[r], Quote(S3ETag(s3[rpath[r]])), b)
      BY <2>0, <3>2 DEF AnswerIsTrue
    <3> QED
      BY <2>2, <3>3, ReaderReplies
  <2> QED
    BY <1>5, <2>1, <2>2 DEF StreamObject
<1> QED
  BY <1>1, <1>2, <1>4, <1>5 DEF IssueByIDHandler, AttachmentHandler

\* Every step of the composed system.
LEMMA NextRead == ReadInv /\ [RNext]_allVars => ReadInv'
<1> SUFFICES ASSUME ReadInv, [RNext]_allVars PROVE ReadInv'
  OBVIOUS
<1>1. /\ IndexInv' /\ Grows /\ uploaded \subseteq uploaded' /\ ObjectsWereUploaded'
  BY RNextIsNext, NextIndex, WritersKeep DEF ReadInv, IndexInv
<1>2. CASE UNCHANGED readVars
  <2>1. ReadTypes' /\ RepliedWhenDone'
    BY <1>2 DEF ReadInv, ReadTypes, RepliedWhenDone, readVars
  <2> QED
    BY <1>1, <1>2, <2>1, AnswersStay DEF ReadInv
<1>3. CASE RCrash
  <2>1. UNCHANGED <<rpath, rrow, rstatus, rheader, rbody, versions, uploaded>>
    BY <1>3 DEF RCrash, Crash, histVars
  <2>2. rpc' = [r \in Readers |-> IF rpc[r] = "idle" THEN "idle" ELSE "done"]
    BY <1>3 DEF RCrash
  <2>3. ReadTypes' /\ RowWasVersion' /\ RepliedWhenDone'
    BY <2>1, <2>2 DEF ReadInv, ReadTypes, RowWasVersion, RepliedWhenDone
  <2>4. ReadsWereWritten'
    BY <2>1 DEF ReadInv, ReadsWereWritten
  <2> QED
    BY <1>1, <2>3, <2>4 DEF ReadInv
<1>4. ASSUME NEW r \in Readers, UNCHANGED vars,
             \/ \E p \in Readable : ReceiveGet(r, p)
             \/ IssueByIDHandler(r) \/ AttachmentHandler(r)
      PROVE  ReadInv'
  BY <1>4, ReaderStepRead
<1> QED
  BY <1>2, <1>3, <1>4 DEF RNext, allVars, readVars

\* Whatever is written, deleted or lost between the two calls of a GET, the
\* bytes it answers were uploaded for that file and the ETag of an issue was
\* a version of it.
THEOREM ReadsAreTrue == RSpec => []ReadsWereWritten
<1>1. ReadInv => ReadsWereWritten
  BY DEF ReadInv
<1> QED
  BY <1>1, InitRead, NextRead, PTL DEF RSpec
=============================================================================
