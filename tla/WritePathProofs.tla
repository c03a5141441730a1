-------------------------- MODULE WritePathProofs --------------------------
(***************************************************************************)
(* Proofs about WritePath for every set of requests, files and contents,   *)
(* every capacity of the channel and any number of crashes.                *)
(***************************************************************************)
EXTENDS WritePath, TLAPS

-----------------------------------------------------------------------------
(***************************************************************************)
(* Facts about the operators on requests                                   *)
(***************************************************************************)

\* What the ETag helpers of the handlers return for a request.
LEMMA InputFacts ==
    ASSUME NEW in \in Inputs
    PROVE  /\ in.handler \in Handlers
           /\ in.path \in Paths
           /\ in.body \in Bodies
           /\ in.ifMatch \in IfMatch \cup {NoETag}
           /\ Expect(in) \in IfMatch \cup {NoETag, AnyETag}
           /\ NewETag(in) \in ETags \cup {NoETag}
           /\ Refusal(in) \in Success \cup Refusals \cup {0, 500}
           /\ SuccessStatus(in) \in Success
           /\ FirstCall(in.handler) \in {"fileExists", "deleteRow"}
<1>1. in \in InputType
  BY InputAssumption
<1>2. /\ in.handler \in Handlers /\ in.path \in Paths /\ in.body \in Bodies
      /\ in.ifMatch \in IfMatch \cup {NoETag}
  BY <1>1 DEF InputType
<1>3. Expect(in) \in IfMatch \cup {NoETag, AnyETag}
  BY <1>2 DEF Expect
<1>4. NewETag(in) \in ETags \cup {NoETag}
  BY <1>2 DEF NewETag, ETags
<1>5. Refusal(in) \in Success \cup Refusals \cup {0, 500}
  BY DEF Refusal, Success, Refusals
<1>6. SuccessStatus(in) \in Success
  BY DEF SuccessStatus, Success
<1>7. FirstCall(in.handler) \in {"fileExists", "deleteRow"}
  BY DEF FirstCall
<1> QED
  BY <1>2, <1>3, <1>4, <1>5, <1>6, <1>7

\* The event and the audit row a request builds have their types.
LEMMA RowTypes ==
    ASSUME TypeOK, NEW q \in Reqs
    PROVE  EventOf(q) \in EventType /\ AuditRow(q) \in AuditType
<1>1. input[q] \in Inputs /\ old[q] \in ETags \cup {NoETag}
  BY DEF TypeOK
<1>2. EventOf(q) \in EventType
  BY <1>1, InputFacts DEF EventOf, EventType, Path, Handler
<1>3. AuditRow(q) \in AuditType
  BY <1>1, InputFacts DEF AuditRow, AuditType, Path, Handler, IfMatch
<1> QED
  BY <1>2, <1>3
-----------------------------------------------------------------------------
(***************************************************************************)
(* Type correctness                                                        *)
(***************************************************************************)
\* The initial states are well typed.
LEMMA InitType == Init => TypeOK
<1> SUFFICES ASSUME Init PROVE TypeOK
  OBVIOUS
<1>1. files \in [Paths -> ETags \cup {NoETag}]
  <2>1. \A p \in Paths : s3[p] \in Bodies \cup {NoBody}
    BY DEF Init
  <2> QED
    BY <2>1 DEF Init, ETags
<1>2. versions \in [Paths -> Seq(VersionType)]
  BY <1>1 DEF Init, VersionType
<1>3. input \in [Reqs -> Inputs]
  <2>1. (CHOOSE in \in Inputs : TRUE) \in Inputs
    BY InputAssumption
  <2> QED
    BY <2>1 DEF Init
<1>4. uploaded \subseteq Paths \X Bodies
  BY DEF Init
<1>5. /\ pc \in [Reqs -> Calls \cup {"idle", "done"}]
      /\ status \in [Reqs -> Success \cup Refusals \cup {0, 500}]
      /\ old \in [Reqs -> ETags \cup {NoETag}]
      /\ s3 \in [Paths -> Bodies \cup {NoBody}]
  BY DEF Init
<1>6. /\ audit \subseteq AuditType
      /\ events \in Seq(EventType)
      /\ broadcast \in Seq(EventType) /\ Len(broadcast) <= BroadcastCap
      /\ crashes \in 0..MaxCrashes
      /\ handed \in Seq(EventType)
  BY BoundAssumption DEF Init
<1> QED
  BY <1>1, <1>2, <1>3, <1>4, <1>5, <1>6 DEF TypeOK

\* A commit leaves a row and a history of the right types.
LEMMA CommitType ==
    ASSUME TypeOK, NEW q \in Reqs, NEW to \in ETags \cup {NoETag}, Commit(q, to)
    PROVE  /\ files' \in [Paths -> ETags \cup {NoETag}]
           /\ versions' \in [Paths -> Seq(VersionType)]
<1> DEFINE v == [req |-> q, to |-> to, expect |-> Expect(input[q])]
<1>1. input[q] \in Inputs
  BY DEF TypeOK
<1>2. v \in VersionType /\ Path(q) \in Paths
  BY <1>1, InputFacts DEF VersionType, Path
<1>3. versions[Path(q)] \in Seq(VersionType)
  BY <1>2 DEF TypeOK
<1>4. Append(versions[Path(q)], v) \in Seq(VersionType)
  BY <1>2, <1>3
<1>5. versions' = [versions EXCEPT ![Path(q)] = Append(versions[Path(q)], v)]
  BY DEF Commit
<1>6. versions' \in [Paths -> Seq(VersionType)]
  <2> HIDE DEF v
  <2> QED
    BY <1>4, <1>5 DEF TypeOK
<1>7. files' \in [Paths -> ETags \cup {NoETag}]
  BY DEF Commit, TypeOK
<1> QED
  BY <1>6, <1>7

\* The control part of TypeOK.
ControlOK ==
    /\ pc \in [Reqs -> Calls \cup {"idle", "done"}]
    /\ status \in [Reqs -> Success \cup Refusals \cup {0, 500}]
    /\ input \in [Reqs -> Inputs]
    /\ crashes \in 0..MaxCrashes

\* Moving on to the next call and answering keep the control state in its type.
LEMMA GotoType ==
    ASSUME TypeOK, NEW q \in Reqs, NEW from, NEW to \in Calls, Goto(q, from, to)
    PROVE  ControlOK'
BY DEF Goto, TypeOK, ControlOK

\* So does writing the response.
LEMMA AnswerType ==
    ASSUME TypeOK, NEW q \in Reqs, NEW from,
           NEW code \in Success \cup Refusals \cup {500}, Answer(q, from, code)
    PROVE  ControlOK'
BY DEF Answer, TypeOK, ControlOK

\* Every step of a handler keeps the types.
LEMMA HandleType ==
    ASSUME TypeOK, NEW q \in Reqs, Handle(q)
    PROVE  TypeOK'
<1>1. /\ input[q] \in Inputs
      /\ Path(q) \in Paths /\ input[q].body \in Bodies
      /\ NewETag(input[q]) \in ETags \cup {NoETag}
      /\ SuccessStatus(input[q]) \in Success
  BY InputFacts DEF TypeOK, Path
<1>2. EventOf(q) \in EventType /\ AuditRow(q) \in AuditType
  BY RowTypes
<1>3. {404, 409} \subseteq Refusals /\ Calls # {}
  BY DEF Refusals, Calls
<1> DEFINE Rest == /\ audit \subseteq AuditType
                   /\ events \in Seq(EventType)
                   /\ old \in [Reqs -> ETags \cup {NoETag}]
                   /\ handed \in Seq(EventType)
           Chan == broadcast \in Seq(EventType) /\ Len(broadcast) <= BroadcastCap
           Rows == /\ files \in [Paths -> ETags \cup {NoETag}]
                   /\ versions \in [Paths -> Seq(VersionType)]
           Objs == /\ s3 \in [Paths -> Bodies \cup {NoBody}]
                   /\ uploaded \subseteq Paths \X Bodies
<1>4. Rest /\ Chan /\ Rows /\ Objs
  BY DEF TypeOK
<1>5. ControlOK' /\ Rest' /\ Chan' /\ Rows' /\ Objs' => TypeOK'
  BY DEF TypeOK, ControlOK
<1>6. CASE ReadOldETag(q)
  <2>1. ControlOK'
    BY <1>6, GotoType DEF ReadOldETag, Calls
  <2>2. old' \in [Reqs -> ETags \cup {NoETag}]
    BY <1>1, <1>4, <1>6 DEF ReadOldETag
  <2> QED
    BY <1>4, <1>5, <1>6, <2>1, <2>2 DEF ReadOldETag, dbVars, histVars
<1>7. CASE CheckNotExists(q)
  <2>1. ControlOK'
    BY <1>3, <1>7, GotoType, AnswerType DEF CheckNotExists, Calls
  <2> QED
    BY <1>4, <1>5, <1>7, <2>1 DEF CheckNotExists, dbVars, histVars
<1>8. CASE PutObject(q)
  <2>1. ControlOK'
    BY <1>8, GotoType, AnswerType DEF PutObject, Calls
  <2>2. Objs'
    <3>1. CASE StoreObject(q)
      BY <1>1, <1>4, <3>1 DEF StoreObject
    <3>2. CASE UNCHANGED <<s3, uploaded>>
      BY <1>4, <3>2
    <3> QED
      BY <1>8, <3>1, <3>2 DEF PutObject
  <2> QED
    BY <1>4, <1>5, <1>8, <2>1, <2>2 DEF PutObject
<1>9. CASE UpsertFile(q)
  <2>1. ControlOK'
    BY <1>3, <1>9, GotoType, AnswerType DEF UpsertFile, Calls
  <2>2. Rows'
    <3>1. CASE Commit(q, NewETag(input[q]))
      BY <1>1, <3>1, CommitType
    <3>2. CASE UNCHANGED <<files, versions>>
      BY <1>4, <3>2
    <3> QED
      BY <1>9, <3>1, <3>2 DEF UpsertFile
  <2> QED
    BY <1>4, <1>5, <1>9, <2>1, <2>2 DEF UpsertFile
<1>10. CASE DeleteFile(q) \/ DeleteRow(q)
  <2>1. ControlOK'
    BY <1>10, GotoType, AnswerType DEF DeleteFile, DeleteRow, Calls
  <2>2. Rows'
    <3>1. CASE Commit(q, NoETag)
      BY <3>1, CommitType
    <3>2. CASE UNCHANGED <<files, versions>>
      BY <1>4, <3>2
    <3> QED
      BY <1>10, <3>1, <3>2 DEF DeleteFile, DeleteRow
  <2> QED
    BY <1>4, <1>5, <1>10, <2>1, <2>2 DEF DeleteFile, DeleteRow
<1>11. CASE ProbeRow(q)
  <2>1. ControlOK'
    BY <1>3, <1>11, AnswerType DEF ProbeRow
  <2> QED
    BY <1>4, <1>5, <1>11, <2>1 DEF ProbeRow, dbVars, histVars
<1>12. CASE DeleteS3Object(q)
  <2>1. ControlOK'
    BY <1>12, GotoType DEF DeleteS3Object, Calls
  <2>2. Objs'
    BY <1>1, <1>4, <1>12 DEF DeleteS3Object, histVars
  <2> QED
    BY <1>4, <1>5, <1>12, <2>1, <2>2 DEF DeleteS3Object, histVars
<1>13. CASE WriteAuditLog(q)
  <2>1. ControlOK'
    BY <1>13, GotoType DEF WriteAuditLog, Calls
  <2>2. Rest'
    BY <1>2, <1>4, <1>13 DEF WriteAuditLog, histVars
  <2> QED
    BY <1>4, <1>5, <1>13, <2>1, <2>2 DEF WriteAuditLog, histVars
<1>14. CASE AppendEvent(q)
  <2>1. ControlOK'
    BY <1>14, GotoType DEF AppendEvent, Calls
  <2>2. Append(events, EventOf(q)) \in Seq(EventType)
    BY <1>2, <1>4
  <2>3. events' \in Seq(EventType)
    BY <1>4, <1>14, <2>2 DEF AppendEvent
  <2> QED
    BY <1>4, <1>5, <1>14, <2>1, <2>3 DEF AppendEvent, histVars
<1>15. CASE Broadcast(q)
  <2>1. ControlOK'
    BY <1>15, GotoType DEF Broadcast, Calls
  <2>2. Rest'
    BY <1>2, <1>4, <1>15 DEF Broadcast, dbVars
  <2>3. Chan'
    BY <1>2, <1>4, <1>15, BoundAssumption DEF Broadcast
  <2> QED
    BY <1>4, <1>5, <1>15, <2>1, <2>2, <2>3 DEF Broadcast, dbVars
<1>16. CASE Respond(q)
  <2>1. ControlOK'
    BY <1>1, <1>16, AnswerType DEF Respond
  <2> QED
    BY <1>4, <1>5, <1>16, <2>1 DEF Respond, dbVars, histVars
<1> QED
  BY <1>6, <1>7, <1>8, <1>9, <1>10, <1>11, <1>12, <1>13, <1>14, <1>15, <1>16
  DEF Handle, PutIssueHandler, PutAttachmentHandler, PutProjectJSONHandler,
      PostIssueHandler, DeleteIssueHandler, DeleteAttachmentHandler,
      PutFile, FinishWrite

\* Every step keeps the types.
LEMMA NextType == TypeOK /\ [Next]_vars => TypeOK'
<1> SUFFICES ASSUME TypeOK, [Next]_vars PROVE TypeOK'
  OBVIOUS
<1>1. ASSUME NEW q \in Reqs, NEW in \in Inputs, Receive(q, in) PROVE TypeOK'
  <2>1. Refusal(in) \in Success \cup Refusals \cup {0, 500}
    BY InputFacts
  <2>2. FirstCall(in.handler) \in Calls
    BY InputFacts DEF Calls
  <2>3. ControlOK'
    BY <1>1, <2>1, <2>2 DEF Receive, TypeOK, ControlOK
  <2> QED
    BY <1>1, <2>3 DEF Receive, TypeOK, ControlOK, dbVars, histVars
<1>2. ASSUME NEW q \in Reqs, Handle(q) PROVE TypeOK'
  BY <1>2, HandleType
<1>3. CASE HubTake
  <2>1. broadcast' \in Seq(EventType) /\ Len(broadcast') <= BroadcastCap
    BY <1>3, BoundAssumption DEF HubTake, TypeOK
  <2> QED
    BY <1>3, <2>1 DEF HubTake, TypeOK, dbVars, histVars
<1>4. CASE Crash
  <2>1. ControlOK'
    BY <1>4, BoundAssumption DEF Crash, TypeOK, ControlOK
  <2>2. broadcast' \in Seq(EventType) /\ Len(broadcast') <= BroadcastCap
    BY <1>4, BoundAssumption DEF Crash
  <2> QED
    BY <1>4, <2>1, <2>2 DEF Crash, TypeOK, ControlOK, dbVars, histVars
<1>5. CASE UNCHANGED vars
  BY <1>5 DEF vars, dbVars, procVars, histVars, TypeOK
<1> QED
  BY <1>1, <1>2, <1>3, <1>4, <1>5 DEF Next

\* Every state of the handlers is well typed, and the channel to the hub
\* never overflows.
THEOREM TypeCorrect == Spec => []TypeOK
<1>1. Init => TypeOK
  BY InitType
<1>2. TypeOK /\ [Next]_vars => TypeOK'
  BY NextType
<1> QED
  BY <1>1, <1>2, PTL DEF Spec
-----------------------------------------------------------------------------
(***************************************************************************)
(* The index of versions                                                   *)
(*                                                                         *)
(* NoLostUpdate is inductive once the histories are known not to be empty. *)
(* VersionsWereUploaded needs to know that a request about to run          *)
(* UpsertFile has stored its bytes, and the refinement that a request is   *)
(* answered only when it is done.                                          *)
(***************************************************************************)
IndexInv ==
    /\ TypeOK
    /\ HistoriesNonEmpty
    /\ NoLostUpdate
    /\ UploadedBeforeUpsert
    /\ VersionsWereUploaded
    /\ AnsweredWhenDone

\* A history that holds the initial version only.
LEMMA InitIndex == Init => IndexInv
<1> SUFFICES ASSUME Init PROVE IndexInv
  OBVIOUS
<1>1. TypeOK
  BY InitType
<1>2. \A p \in Paths : /\ Len(versions[p]) = 1
                       /\ versions[p][1].to = files[p]
  BY DEF Init
<1>3. HistoriesNonEmpty /\ NoLostUpdate
  BY <1>2 DEF HistoriesNonEmpty, NoLostUpdate
<1>4. UploadedBeforeUpsert /\ AnsweredWhenDone
  BY DEF Init, UploadedBeforeUpsert, AnsweredWhenDone
<1>5. VersionsWereUploaded
  <2> SUFFICES ASSUME NEW p \in Paths, NEW i \in 1..Len(versions[p]),
                      versions[p][i].to # NoETag
               PROVE  \E b \in Bodies :
                         <<p, b>> \in uploaded /\ Sha256(b) = versions[p][i].to
    BY DEF VersionsWereUploaded
  <2>0. versions[p][i].to = files[p]
    <3>1. i = 1
      BY <1>2
    <3> QED
      BY <1>2, <3>1
  <2>1. s3[p] \in Bodies /\ files[p] = Sha256(s3[p]) /\ s3[p] # NoBody
    BY <2>0 DEF Init
  <2>2. <<p, s3[p]>> \in uploaded
    BY <2>1 DEF Init
  <2> QED
    BY <2>0, <2>1, <2>2
<1> QED
  BY <1>1, <1>3, <1>4, <1>5 DEF IndexInv

\* A commit whose request expects the current version, or any version,
\* extends the history of its file and of no other.
LEMMA CommitIndex ==
    ASSUME IndexInv, NEW q \in Reqs, NEW to \in ETags \cup {NoETag}, Commit(q, to),
           Expect(input[q]) \in {files[Path(q)], AnyETag},
           to # NoETag =>
               \E b \in Bodies : <<Path(q), b>> \in uploaded /\ Sha256(b) = to,
           uploaded' = uploaded
    PROVE  HistoriesNonEmpty' /\ NoLostUpdate' /\ VersionsWereUploaded'
<1> DEFINE P == Path(q)
           v == [req |-> q, to |-> to, expect |-> Expect(input[q])]
           n == Len(versions[P])
<1>1. P \in Paths /\ v \in VersionType
  BY InputFacts DEF IndexInv, TypeOK, Path, VersionType
<1>2. versions[P] \in Seq(VersionType) /\ n \in Nat /\ n >= 1
  BY <1>1 DEF IndexInv, TypeOK, HistoriesNonEmpty
<1>3. /\ versions'[P] = Append(versions[P], v)
      /\ files'[P] = to
      /\ \A p \in Paths \ {P} : versions'[p] = versions[p] /\ files'[p] = files[p]
  BY <1>1 DEF Commit, IndexInv, TypeOK
<1>4. /\ Len(versions'[P]) = n + 1
      /\ versions'[P][n + 1] = v
      /\ \A i \in 1..n : versions'[P][i] = versions[P][i]
  <2> HIDE DEF v
  <2> QED
    BY <1>1, <1>2, <1>3
<1>5. v.expect = Expect(input[q]) /\ v.to = to
  OBVIOUS
<1> HIDE DEF v, P, n
<1>6. HistoriesNonEmpty'
  BY <1>2, <1>3, <1>4 DEF IndexInv, HistoriesNonEmpty
<1>7. NoLostUpdate'
  <2>1. files[P] = versions[P][n].to
    BY <1>1 DEF IndexInv, NoLostUpdate, n
  <2>2. v.expect \in {versions[P][n].to, AnyETag}
    BY <1>5, <2>1 DEF P
  <2>3. \A i \in 2..(n + 1) :
           versions'[P][i].expect \in {versions'[P][i - 1].to, AnyETag}
    <3> SUFFICES ASSUME NEW i \in 2..(n + 1)
                 PROVE  versions'[P][i].expect \in {versions'[P][i - 1].to, AnyETag}
      OBVIOUS
    <3>1. CASE i = n + 1
      BY <1>2, <1>4, <2>2, <3>1
    <3>2. CASE i # n + 1
      <4>1. i \in 2..n /\ i - 1 \in 1..n /\ i \in 1..n
        BY <1>2, <3>2
      <4>2. versions[P][i].expect \in {versions[P][i - 1].to, AnyETag}
        BY <1>1, <4>1 DEF IndexInv, NoLostUpdate, n
      <4> QED
        BY <1>4, <4>1, <4>2
    <3> QED
      BY <3>1, <3>2
  <2>4. files'[P] = versions'[P][Len(versions'[P])].to
    BY <1>3, <1>4, <1>5
  <2> QED
    BY <1>3, <1>4, <2>3, <2>4 DEF IndexInv, NoLostUpdate
<1>8. VersionsWereUploaded'
  <2> SUFFICES ASSUME NEW p \in Paths, NEW i \in 1..Len(versions'[p]),
                      versions'[p][i].to # NoETag
               PROVE  \E b \in Bodies :
                         <<p, b>> \in uploaded /\ Sha256(b) = versions'[p][i].to
    BY DEF VersionsWereUploaded
  <2>1. CASE p = P /\ i = n + 1
    BY <1>4, <1>5, <2>1 DEF P
  <2>2. CASE ~(p = P /\ i = n + 1)
    <3>1. i \in 1..Len(versions[p]) /\ versions'[p][i] = versions[p][i]
      <4>1. CASE p = P
        BY <1>2, <1>4, <2>2, <4>1 DEF n
      <4>2. CASE p # P
        BY <1>3, <4>2
      <4> QED
        BY <4>1, <4>2
    <3> QED
      BY <3>1 DEF IndexInv, VersionsWereUploaded
  <2> QED
    BY <2>1, <2>2
<1> QED
  BY <1>6, <1>7, <1>8

\* A step that leaves the rows alone.
LEMMA NoCommitIndex ==
    ASSUME IndexInv, UNCHANGED <<files, versions>>, uploaded \subseteq uploaded'
    PROVE  HistoriesNonEmpty' /\ NoLostUpdate' /\ VersionsWereUploaded'
<1>1. HistoriesNonEmpty' /\ NoLostUpdate'
  BY DEF IndexInv, HistoriesNonEmpty, NoLostUpdate
<1>2. VersionsWereUploaded'
  BY DEF IndexInv, VersionsWereUploaded
<1> QED
  BY <1>1, <1>2

\* Moving on: a request reaches UpsertFile only with its bytes stored.
LEMMA GotoIndex ==
    ASSUME IndexInv, NEW q \in Reqs, NEW from \in Calls, NEW to \in Calls,
           Goto(q, from, to), uploaded \subseteq uploaded',
           to = "upsertFile" => <<Path(q), input[q].body>> \in uploaded'
    PROVE  UploadedBeforeUpsert' /\ AnsweredWhenDone'
<1>1. UploadedBeforeUpsert'
  <2> SUFFICES ASSUME NEW x \in Reqs, pc'[x] = "upsertFile"
               PROVE  <<input'[x].path, input'[x].body>> \in uploaded'
    BY DEF UploadedBeforeUpsert, Path
  <2>1. input' = input /\ (x # q => pc'[x] = pc[x])
    BY DEF IndexInv, TypeOK, Goto
  <2>2. CASE x = q
    <3>1. pc'[q] = to
      BY DEF IndexInv, TypeOK, Goto
    <3> QED
      BY <2>1, <2>2, <3>1 DEF Path
  <2>3. CASE x # q
    BY <2>1, <2>3 DEF IndexInv, UploadedBeforeUpsert, Path
  <2> QED
    BY <2>2, <2>3
<1>2. AnsweredWhenDone'
  BY DEF IndexInv, TypeOK, AnsweredWhenDone, Goto, Calls
<1> QED
  BY <1>1, <1>2

\* Answering.
LEMMA AnswerIndex ==
    ASSUME IndexInv, NEW q \in Reqs, NEW from, NEW code,
           Answer(q, from, code), uploaded \subseteq uploaded'
    PROVE  UploadedBeforeUpsert' /\ AnsweredWhenDone'
BY DEF IndexInv, TypeOK, UploadedBeforeUpsert, AnsweredWhenDone, Answer, Path

\* Steps of a handler.
LEMMA HandleIndex ==
    ASSUME IndexInv, NEW q \in Reqs, Handle(q)
    PROVE  IndexInv'
<1> DEFINE Idx == HistoriesNonEmpty /\ NoLostUpdate /\ VersionsWereUploaded
           Ctl == UploadedBeforeUpsert /\ AnsweredWhenDone
<1>1. TypeOK'
  BY HandleType DEF IndexInv
<1>2. Idx' /\ Ctl' => IndexInv'
  BY <1>1 DEF IndexInv
<1>3. /\ input[q] \in Inputs /\ Path(q) \in Paths /\ input[q].body \in Bodies
      /\ Expect(input[q]) \in IfMatch \cup {NoETag, AnyETag}
      /\ NewETag(input[q]) \in ETags \cup {NoETag}
  BY InputFacts DEF IndexInv, TypeOK, Path
<1> USE DEF Calls
<1>4. CASE ReadOldETag(q)
  <2>1. Ctl'
    BY <1>4, GotoIndex DEF ReadOldETag, histVars
  <2> QED
    BY <1>2, <1>4, <2>1, NoCommitIndex DEF ReadOldETag, dbVars, histVars
<1>5. CASE CheckNotExists(q)
  <2>1. Ctl'
    BY <1>5, GotoIndex, AnswerIndex DEF CheckNotExists, histVars
  <2> QED
    BY <1>2, <1>5, <2>1, NoCommitIndex DEF CheckNotExists, dbVars, histVars
<1>6. CASE PutObject(q)
  <2>1. uploaded \subseteq uploaded' /\ UNCHANGED <<files, versions>>
    BY <1>6 DEF PutObject, StoreObject
  <2>2. Ctl'
    <3>1. CASE Goto(q, "putObject", "upsertFile") /\ StoreObject(q)
      BY <2>1, <3>1, GotoIndex DEF StoreObject
    <3>2. CASE Answer(q, "putObject", 500)
      BY <2>1, <3>2, AnswerIndex
    <3> QED
      BY <1>6, <3>1, <3>2 DEF PutObject
  <2> QED
    BY <1>2, <2>1, <2>2, NoCommitIndex
<1>7. CASE UpsertFile(q)
  <2>0. uploaded' = uploaded
    BY <1>7 DEF UpsertFile
  <2>1. Ctl'
    <3>1. CASE Goto(q, "upsertFile", "auditLog")
      BY <2>0, <3>1, GotoIndex
    <3>2. CASE \E code \in {409, 500} : Answer(q, "upsertFile", code)
      BY <2>0, <3>2, AnswerIndex
    <3> QED
      BY <1>7, <3>1, <3>2 DEF UpsertFile
  <2>2. Idx'
    <3>1. CASE (UpdateMatches(q) \/ InsertMatches(q)) /\ Commit(q, NewETag(input[q]))
      <4>1. Expect(input[q]) = files[Path(q)]
        BY <3>1 DEF UpdateMatches, InsertMatches, IsCreate
      <4>2. pc[q] = "upsertFile"
        BY <1>7 DEF UpsertFile, Goto, Answer
      <4>3. NewETag(input[q]) # NoETag =>
               \E b \in Bodies : <<Path(q), b>> \in uploaded
                                 /\ Sha256(b) = NewETag(input[q])
        <5>1. <<Path(q), input[q].body>> \in uploaded
          BY <4>2 DEF IndexInv, UploadedBeforeUpsert
        <5> QED
          BY <1>3, <5>1 DEF NewETag
      <4> QED
        BY <1>3, <2>0, <3>1, <4>1, <4>3, CommitIndex
    <3>2. CASE UNCHANGED <<files, versions>>
      BY <2>0, <3>2, NoCommitIndex
    <3> QED
      BY <1>7, <3>1, <3>2 DEF UpsertFile
  <2> QED
    BY <1>2, <2>1, <2>2
<1>8. CASE DeleteFile(q)
  <2>0. uploaded' = uploaded
    BY <1>8 DEF DeleteFile
  <2>1. Ctl'
    <3>1. CASE \E to \in {"deleteObject", "rowProbe"} : Goto(q, "deleteRow", to)
      BY <2>0, <3>1, GotoIndex
    <3>2. CASE Answer(q, "deleteRow", 500)
      BY <2>0, <3>2, AnswerIndex
    <3> QED
      BY <1>8, <3>1, <3>2 DEF DeleteFile
  <2>2. Idx'
    <3>1. CASE DeleteMatches(q) /\ Commit(q, NoETag)
      BY <2>0, <3>1, CommitIndex DEF DeleteMatches
    <3>2. CASE UNCHANGED <<files, versions>>
      BY <2>0, <3>2, NoCommitIndex
    <3> QED
      BY <1>8, <3>1, <3>2 DEF DeleteFile
  <2> QED
    BY <1>2, <2>1, <2>2
<1>9. CASE Handler(q) = "delete_attachment" /\ DeleteRow(q)
  <2>0. uploaded' = uploaded
    BY <1>9 DEF DeleteRow
  <2>1. Ctl'
    <3>1. CASE Goto(q, "deleteRow", "deleteObject")
      BY <2>0, <3>1, GotoIndex
    <3>2. CASE Answer(q, "deleteRow", 500)
      BY <2>0, <3>2, AnswerIndex
    <3> QED
      BY <1>9, <3>1, <3>2 DEF DeleteRow
  <2>2. Idx'
    <3>1. CASE Commit(q, NoETag)
      <4>1. Expect(input[q]) = AnyETag
        BY <1>9 DEF Expect, Handler, PutHandlers
      <4> QED
        BY <2>0, <3>1, <4>1, CommitIndex
    <3>2. CASE UNCHANGED <<files, versions>>
      BY <2>0, <3>2, NoCommitIndex
    <3> QED
      BY <1>9, <3>1, <3>2 DEF DeleteRow
  <2> QED
    BY <1>2, <2>1, <2>2
<1>10. CASE ProbeRow(q)
  <2>1. Ctl'
    BY <1>10, AnswerIndex DEF ProbeRow, histVars
  <2> QED
    BY <1>2, <1>10, <2>1, NoCommitIndex DEF ProbeRow, dbVars, histVars
<1>11. CASE DeleteS3Object(q)
  <2>1. Ctl'
    BY <1>11, GotoIndex DEF DeleteS3Object, histVars
  <2> QED
    BY <1>2, <1>11, <2>1, NoCommitIndex DEF DeleteS3Object, histVars
<1>12. CASE WriteAuditLog(q)
  <2>1. Ctl'
    BY <1>12, GotoIndex DEF WriteAuditLog, histVars
  <2> QED
    BY <1>2, <1>12, <2>1, NoCommitIndex DEF WriteAuditLog, histVars
<1>13. CASE AppendEvent(q)
  <2>1. Ctl'
    BY <1>13, GotoIndex DEF AppendEvent, histVars
  <2> QED
    BY <1>2, <1>13, <2>1, NoCommitIndex DEF AppendEvent, histVars
<1>14. CASE Broadcast(q)
  <2>1. Ctl'
    BY <1>14, GotoIndex DEF Broadcast
  <2> QED
    BY <1>2, <1>14, <2>1, NoCommitIndex DEF Broadcast, dbVars
<1>15. CASE Respond(q)
  <2>1. Ctl'
    BY <1>15, AnswerIndex DEF Respond, histVars
  <2> QED
    BY <1>2, <1>15, <2>1, NoCommitIndex DEF Respond, dbVars, histVars
<1> QED
  BY <1>4, <1>5, <1>6, <1>7, <1>8, <1>9, <1>10, <1>11, <1>12, <1>13, <1>14, <1>15
  DEF Handle, PutIssueHandler, PutAttachmentHandler, PutProjectJSONHandler,
      PostIssueHandler, DeleteIssueHandler, DeleteAttachmentHandler,
      PutFile, FinishWrite

\* Every step.
LEMMA NextIndex == IndexInv /\ [Next]_vars => IndexInv'
<1> SUFFICES ASSUME IndexInv, [Next]_vars PROVE IndexInv'
  OBVIOUS
<1>1. TypeOK'
  BY NextType DEF IndexInv
<1>2. ASSUME NEW q \in Reqs, NEW in \in Inputs, Receive(q, in) PROVE IndexInv'
  <2>1. HistoriesNonEmpty' /\ NoLostUpdate' /\ VersionsWereUploaded'
    BY <1>2, NoCommitIndex DEF Receive, dbVars, histVars
  <2>2. UploadedBeforeUpsert'
    <3>1. FirstCall(in.handler) # "upsertFile"
      BY InputFacts
    <3> QED
      BY <1>2, <3>1 DEF IndexInv, TypeOK, Receive, UploadedBeforeUpsert, Path, histVars
  <2>3. AnsweredWhenDone'
    BY <1>2 DEF IndexInv, TypeOK, Receive, AnsweredWhenDone
  <2> QED
    BY <1>1, <2>1, <2>2, <2>3 DEF IndexInv
<1>3. ASSUME NEW q \in Reqs, Handle(q) PROVE IndexInv'
  BY <1>3, HandleIndex
<1>4. CASE HubTake \/ UNCHANGED vars
  <2>1. HistoriesNonEmpty' /\ NoLostUpdate' /\ VersionsWereUploaded'
    BY <1>4, NoCommitIndex DEF HubTake, vars, dbVars, histVars
  <2>2. UploadedBeforeUpsert' /\ AnsweredWhenDone'
    BY <1>4 DEF IndexInv, HubTake, vars, procVars, histVars, UploadedBeforeUpsert,
                AnsweredWhenDone, Path
  <2> QED
    BY <1>1, <2>1, <2>2 DEF IndexInv
<1>5. CASE Crash
  <2>1. HistoriesNonEmpty' /\ NoLostUpdate' /\ VersionsWereUploaded'
    BY <1>5, NoCommitIndex DEF Crash, dbVars, histVars
  <2>2. UploadedBeforeUpsert' /\ AnsweredWhenDone'
    BY <1>5 DEF IndexInv, TypeOK, Crash, UploadedBeforeUpsert, AnsweredWhenDone
  <2> QED
    BY <1>1, <2>1, <2>2 DEF IndexInv
<1> QED
  BY <1>2, <1>3, <1>4, <1>5 DEF Next

\* The inductive invariant holds in every reachable state.
THEOREM IndexCorrect == Spec => []IndexInv
<1>1. Init => IndexInv
  BY InitIndex
<1>2. IndexInv /\ [Next]_vars => IndexInv'
  BY NextIndex
<1> QED
  BY <1>1, <1>2, PTL DEF Spec

\* A conditional write that commits replaces exactly the version its client
\* named, for every number of concurrent requests, failures and crashes.
THEOREM NoLostUpdates == Spec => []NoLostUpdate
<1>1. IndexInv => NoLostUpdate
  BY DEF IndexInv
<1> QED
  BY <1>1, IndexCorrect, PTL

\* Every version a row ever had names bytes that were stored for its file.
THEOREM VersionsUploaded == Spec => []VersionsWereUploaded
<1>1. IndexInv => VersionsWereUploaded
  BY DEF IndexInv
<1> QED
  BY <1>1, IndexCorrect, PTL
=============================================================================
