------------------------ MODULE WritePathRefinement ------------------------
(***************************************************************************)
(* The handlers implement the compare-and-set register of ETagRegister,    *)
(* for every value of the constants.                                       *)
(***************************************************************************)
EXTENDS WritePathProofs

\* The two functions that WritePath substitutes for the variables of the
\* register.
Phase == [q \in Reqs |-> PhaseOf(q)]
Ask == [q \in Reqs |-> AskOf(input[q])]

\* What a request asks of the register is what its handler passes to storage.
LEMMA AskFacts ==
    ASSUME NEW q \in Reqs
    PROVE  /\ Ask[q].path = Path(q)
           /\ Ask[q].expect = Expect(input[q])
           /\ Ask[q].new = NewETag(input[q])
BY DEF Ask, AskOf, Path

\* Moving on to another call changes the phase of one request only.
LEMMA GotoPhase ==
    ASSUME TypeOK, NEW q \in Reqs, NEW from, NEW to, Goto(q, from, to)
    PROVE  /\ pc[q] = from /\ pc'[q] = to
           /\ Ask' = Ask
           /\ Phase' = [Phase EXCEPT ![q] = PhaseOf(q)']
<1>1. pc[q] = from /\ pc'[q] = to /\ Ask' = Ask
  BY DEF Goto, TypeOK, Ask
<1>2. \A x \in Reqs \ {q} : PhaseOf(x)' = PhaseOf(x)
  <2> SUFFICES ASSUME NEW x \in Reqs \ {q} PROVE PhaseOf(x)' = PhaseOf(x)
    OBVIOUS
  <2>1. pc'[x] = pc[x] /\ status'[x] = status[x]
    BY DEF Goto, TypeOK
  <2> QED
    BY <2>1 DEF PhaseOf
<1>3. Phase' = [Phase EXCEPT ![q] = PhaseOf(q)']
  BY <1>2 DEF Phase
<1> QED
  BY <1>1, <1>3

\* So does answering.
LEMMA AnswerPhase ==
    ASSUME TypeOK, NEW q \in Reqs, NEW from, NEW code, Answer(q, from, code)
    PROVE  /\ pc[q] = from /\ pc'[q] = "done" /\ status'[q] = code
           /\ Ask' = Ask
           /\ Phase' = [Phase EXCEPT ![q] = PhaseOf(q)']
<1>1. pc[q] = from /\ pc'[q] = "done" /\ status'[q] = code /\ Ask' = Ask
  BY DEF Answer, TypeOK, Ask
<1>2. \A x \in Reqs \ {q} : PhaseOf(x)' = PhaseOf(x)
  <2> SUFFICES ASSUME NEW x \in Reqs \ {q} PROVE PhaseOf(x)' = PhaseOf(x)
    OBVIOUS
  <2>1. pc'[x] = pc[x] /\ status'[x] = status[x]
    BY DEF Answer, TypeOK
  <2> QED
    BY <2>1 DEF PhaseOf
<1>3. Phase' = [Phase EXCEPT ![q] = PhaseOf(q)']
  BY <1>2 DEF Phase
<1> QED
  BY <1>1, <1>3

\* The phase of a request, call by call and answer by answer.
LEMMA PhaseValues ==
    ASSUME NEW q \in Reqs
    PROVE  /\ pc[q] = "idle" => PhaseOf(q) = "idle"
           /\ pc[q] \in {"fileExists", "putObject", "upsertFile", "deleteRow"}
                => PhaseOf(q) = "open"
           /\ pc[q] = "rowProbe" => PhaseOf(q) = "missed"
           /\ pc[q] \in {"deleteObject", "auditLog", "appendEvent", "hubSend",
                         "respond"} => PhaseOf(q) = "applied"
           /\ pc[q] = "done" /\ status[q] \in Success => PhaseOf(q) = "ok"
           /\ pc[q] = "done" /\ status[q] = 409 => PhaseOf(q) = "conflict"
           /\ pc[q] = "done" /\ status[q] = 404 => PhaseOf(q) = "notFound"
           /\ pc[q] = "done" /\ status[q] \in {0, 500} => PhaseOf(q) = "unknown"
           /\ pc[q] = "done" /\ status[q] \in {400, 401, 403, 413, 428}
                => PhaseOf(q) = "refused"
BY DEF PhaseOf, Success

\* The same in the next state.
LEMMA PhaseValuesNext ==
    ASSUME NEW q \in Reqs
    PROVE  /\ pc'[q] = "idle" => PhaseOf(q)' = "idle"
           /\ pc'[q] \in {"fileExists", "putObject", "upsertFile", "deleteRow"}
                => PhaseOf(q)' = "open"
           /\ pc'[q] = "rowProbe" => PhaseOf(q)' = "missed"
           /\ pc'[q] \in {"deleteObject", "auditLog", "appendEvent", "hubSend",
                          "respond"} => PhaseOf(q)' = "applied"
           /\ pc'[q] = "done" /\ status'[q] \in Success => PhaseOf(q)' = "ok"
           /\ pc'[q] = "done" /\ status'[q] = 409 => PhaseOf(q)' = "conflict"
           /\ pc'[q] = "done" /\ status'[q] = 404 => PhaseOf(q)' = "notFound"
           /\ pc'[q] = "done" /\ status'[q] \in {0, 500} => PhaseOf(q)' = "unknown"
           /\ pc'[q] = "done" /\ status'[q] \in {400, 401, 403, 413, 428}
                => PhaseOf(q)' = "refused"
BY DEF PhaseOf, Success

\* A commit of the version the request asks for is a write of the register.
LEMMA CommitWrites ==
    ASSUME TypeOK, NEW q \in Reqs, Commit(q, NewETag(input[q])),
           Expect(input[q]) \in {files[Path(q)], AnyETag}, Ask' = Ask
    PROVE  Register!Write(q)
<1>1. Register!Holds(q)
  BY AskFacts DEF Register!Holds, Ask
<1>2. files' = [files EXCEPT ![Ask[q].path] = Ask[q].new]
  BY AskFacts DEF Commit
<1> QED
  BY <1>1, <1>2 DEF Register!Write, Ask

\* A request of the upsert handlers that matches no row does not hold.
LEMMA MismatchFails ==
    ASSUME TypeOK, NEW q \in Reqs, Expect(input[q]) # files[Path(q)],
           Handler(q) # "delete_attachment"
    PROVE  ~Register!Holds(q)
<1>1. input[q] \in Inputs
  BY DEF TypeOK
<1>2. Expect(input[q]) # AnyETag
  BY <1>1, InputFacts, ETagAssumption DEF Expect, Handler
<1> QED
  BY <1>2, AskFacts DEF Register!Holds, Ask

\* A step of the control state that the register sees as a step from phase
\* `from' to phase `to' of request q.
LEMMA EnterStep ==
    ASSUME NEW q \in Reqs, NEW from, NEW to,
           PhaseOf(q) = from, PhaseOf(q)' = to,
           Phase' = [Phase EXCEPT ![q] = PhaseOf(q)']
    PROVE  Register!Enter(q, {from}, to)
<1>1. Phase[q] = PhaseOf(q)
  BY DEF Phase
<1>2. Phase[q] \in {from} /\ Phase' = [Phase EXCEPT ![q] = to]
  BY <1>1
<1> QED
  BY <1>2 DEF Register!Enter, Phase

\* Register!regVars, by name.
RegVars == <<files, Ask, Phase>>

\* A step of a handler is a step of the register or leaves it unchanged.
LEMMA HandleRefines ==
    ASSUME IndexInv, NEW q \in Reqs, Handle(q)
    PROVE  \/ UNCHANGED RegVars
           \/ Register!Apply(q) \/ Register!Miss(q) \/ Register!Accept(q)
           \/ Register!NotFound(q) \/ Register!Conflict(q) \/ Register!Fail(q)
<1> DEFINE In == input[q]
           P == Path(q)
           Same == Phase' = [Phase EXCEPT ![q] = PhaseOf(q)'] /\ Ask' = Ask
<1>1. TypeOK /\ AnsweredWhenDone
  BY DEF IndexInv
<1>2. In \in Inputs /\ SuccessStatus(In) \in Success
  BY <1>1, InputFacts DEF TypeOK
<1>3. Phase[q] = PhaseOf(q) /\ Phase \in [Reqs -> {PhaseOf(x) : x \in Reqs}]
  BY DEF Phase
\* A step that neither changes the phase of q nor a row.
<1>4. Same /\ PhaseOf(q)' = PhaseOf(q) /\ files' = files => UNCHANGED RegVars
  BY <1>3 DEF RegVars
<1>5. \A from, to : PhaseOf(q) = from /\ PhaseOf(q)' = to /\ Same
                       => Register!Enter(q, {from}, to)
  BY EnterStep
<1>6. Same /\ files' = files => Register!Keep
  BY DEF Register!Keep, Ask
\* An answer 500 in phase "open".
<1>7. ASSUME NEW from \in {"fileExists", "putObject", "upsertFile", "deleteRow"},
             Answer(q, from, 500),
             \/ files' = files
             \/ Commit(q, NewETag(In)) /\ Expect(In) \in {files[P], AnyETag}
      PROVE  Register!Fail(q)
  <2>1. Same /\ PhaseOf(q) = "open" /\ PhaseOf(q)' = "unknown"
    BY <1>1, <1>7, AnswerPhase, PhaseValues, PhaseValuesNext
  <2>2. Register!Enter(q, {"open"}, "unknown")
    BY <1>5, <2>1
  <2>3. Register!Keep \/ Register!Write(q)
    BY <1>1, <1>6, <1>7, <2>1, CommitWrites
  <2> QED
    BY <2>2, <2>3 DEF Register!Fail
\* An answer 409 to a request that met another version.
<1>8. ASSUME NEW from \in {"fileExists", "upsertFile"}, Answer(q, from, 409),
             files' = files, Expect(In) # files[P], Handler(q) # "delete_attachment"
      PROVE  Register!Conflict(q)
  <2>1. Same /\ PhaseOf(q) = "open" /\ PhaseOf(q)' = "conflict"
    BY <1>1, <1>8, AnswerPhase, PhaseValues, PhaseValuesNext
  <2>2. Register!Enter(q, {"open"}, "conflict")
    BY <1>5, <2>1
  <2>3. Register!Keep /\ ~Register!Holds(q)
    BY <1>1, <1>6, <1>8, <2>1, MismatchFails
  <2> QED
    BY <2>2, <2>3 DEF Register!Conflict
\* A commit that succeeds.
<1>9. ASSUME NEW from \in {"upsertFile", "deleteRow"},
             NEW to \in {"auditLog", "deleteObject"}, Goto(q, from, to),
             Commit(q, NewETag(In)), Expect(In) \in {files[P], AnyETag}
      PROVE  Register!Apply(q)
  <2>1. Same /\ PhaseOf(q) = "open" /\ PhaseOf(q)' = "applied"
    BY <1>1, <1>9, GotoPhase, PhaseValues, PhaseValuesNext
  <2>2. Register!Enter(q, {"open"}, "applied")
    BY <1>5, <2>1
  <2>3. Register!Write(q)
    BY <1>1, <1>9, <2>1, CommitWrites
  <2> QED
    BY <2>2, <2>3 DEF Register!Apply
<1>10. CASE ReadOldETag(q)
  <2>1. Same /\ PhaseOf(q) = "open" /\ PhaseOf(q)' = "open"
    BY <1>1, <1>10, GotoPhase, PhaseValues, PhaseValuesNext DEF ReadOldETag
  <2> QED
    BY <1>4, <1>10, <2>1 DEF ReadOldETag, dbVars
<1>11. CASE Handler(q) = "post_issue" /\ CheckNotExists(q)
  <2>1. files' = files
    BY <1>11 DEF CheckNotExists, dbVars
  <2>2. CASE Goto(q, "fileExists", "putObject")
    <3>1. Same /\ PhaseOf(q) = "open" /\ PhaseOf(q)' = "open"
      BY <1>1, <2>2, GotoPhase, PhaseValues, PhaseValuesNext
    <3> QED
      BY <1>4, <2>1, <3>1
  <2>3. CASE files[P] # NoETag /\ Answer(q, "fileExists", 409)
    <3>1. Expect(In) = NoETag
      BY <1>11 DEF Expect, Handler, PutHandlers
    <3> QED
      BY <1>8, <1>11, <2>1, <2>3, <3>1
  <2>4. CASE Answer(q, "fileExists", 500)
    BY <1>7, <2>1, <2>4
  <2> QED
    BY <1>11, <2>2, <2>3, <2>4 DEF CheckNotExists
<1>12. CASE PutObject(q)
  <2>1. files' = files
    BY <1>12 DEF PutObject
  <2>2. CASE Goto(q, "putObject", "upsertFile")
    <3>1. Same /\ PhaseOf(q) = "open" /\ PhaseOf(q)' = "open"
      BY <1>1, <2>2, GotoPhase, PhaseValues, PhaseValuesNext
    <3> QED
      BY <1>4, <2>1, <3>1
  <2>3. CASE Answer(q, "putObject", 500)
    BY <1>7, <2>1, <2>3
  <2> QED
    BY <1>12, <2>2, <2>3 DEF PutObject
<1>13. CASE Handler(q) # "delete_attachment" /\ UpsertFile(q)
  <2>1. UpdateMatches(q) \/ InsertMatches(q) => Expect(In) = files[P]
    BY DEF UpdateMatches, InsertMatches, IsCreate
  <2>2. ~UpdateMatches(q) /\ ~InsertMatches(q) => Expect(In) # files[P]
    BY DEF UpdateMatches, InsertMatches, IsCreate
  <2>3. CASE /\ UpdateMatches(q) \/ InsertMatches(q)
             /\ Commit(q, NewETag(In)) /\ Goto(q, "upsertFile", "auditLog")
    BY <1>9, <2>1, <2>3
  <2>4. CASE /\ UpdateMatches(q) \/ InsertMatches(q)
             /\ Commit(q, NewETag(In)) /\ Answer(q, "upsertFile", 500)
    BY <1>7, <2>1, <2>4
  <2>5. CASE /\ ~UpdateMatches(q) /\ ~InsertMatches(q)
             /\ Answer(q, "upsertFile", 409) /\ files' = files
    BY <1>8, <1>13, <2>2, <2>5
  <2>6. CASE Answer(q, "upsertFile", 500) /\ files' = files
    BY <1>7, <2>6
  <2> QED
    BY <1>13, <2>3, <2>4, <2>5, <2>6 DEF UpsertFile
<1>14. CASE Handler(q) = "delete_issue" /\ DeleteFile(q)
  <2>1. NewETag(In) = NoETag
    BY <1>14 DEF NewETag, Handler
  <2>2. CASE /\ DeleteMatches(q) /\ Commit(q, NoETag)
             /\ Goto(q, "deleteRow", "deleteObject")
    BY <1>9, <2>1, <2>2 DEF DeleteMatches
  <2>3. CASE /\ DeleteMatches(q) /\ Commit(q, NoETag)
             /\ Answer(q, "deleteRow", 500)
    BY <1>7, <2>1, <2>3 DEF DeleteMatches
  <2>4. CASE ~DeleteMatches(q) /\ Goto(q, "deleteRow", "rowProbe") /\ files' = files
    <3>1. Same /\ PhaseOf(q) = "open" /\ PhaseOf(q)' = "missed"
      BY <1>1, <2>4, GotoPhase, PhaseValues, PhaseValuesNext
    <3>2. Register!Enter(q, {"open"}, "missed")
      BY <1>5, <3>1
    <3>3. Register!Keep /\ ~Register!Holds(q)
      BY <1>1, <1>6, <1>14, <2>4, <3>1, MismatchFails DEF DeleteMatches
    <3> QED
      BY <3>2, <3>3 DEF Register!Miss
  <2>5. CASE Answer(q, "deleteRow", 500) /\ files' = files
    BY <1>7, <2>5
  <2> QED
    BY <1>14, <2>2, <2>3, <2>4, <2>5 DEF DeleteFile
<1>15. CASE ProbeRow(q)
  <2>1. files' = files
    BY <1>15 DEF ProbeRow, dbVars
  <2>2. CASE Answer(q, "rowProbe", 409)
    <3>1. Same /\ PhaseOf(q) = "missed" /\ PhaseOf(q)' = "conflict"
      BY <1>1, <2>2, AnswerPhase, PhaseValues, PhaseValuesNext
    <3>2. Register!Enter(q, {"missed"}, "conflict") /\ Register!Keep
      BY <1>5, <1>6, <2>1, <3>1
    <3> QED
      BY <3>2 DEF Register!Conflict
  <2>3. CASE Answer(q, "rowProbe", 404)
    <3>1. Same /\ PhaseOf(q) = "missed" /\ PhaseOf(q)' = "notFound"
      BY <1>1, <2>3, AnswerPhase, PhaseValues, PhaseValuesNext
    <3>2. Register!Enter(q, {"missed"}, "notFound") /\ Register!Keep
      BY <1>5, <1>6, <2>1, <3>1
    <3> QED
      BY <3>2 DEF Register!NotFound
  <2> QED
    BY <1>15, <2>2, <2>3 DEF ProbeRow
<1>16. CASE Handler(q) = "delete_attachment" /\ DeleteRow(q)
  <2>1. NewETag(In) = NoETag /\ Expect(In) = AnyETag
    BY <1>16 DEF NewETag, Expect, Handler, PutHandlers
  <2>2. CASE Commit(q, NoETag) /\ Goto(q, "deleteRow", "deleteObject")
    BY <1>9, <2>1, <2>2
  <2>3. CASE Commit(q, NoETag) /\ Answer(q, "deleteRow", 500)
    BY <1>7, <2>1, <2>3
  <2>4. CASE Answer(q, "deleteRow", 500) /\ files' = files
    BY <1>7, <2>4
  <2> QED
    BY <1>16, <2>2, <2>3, <2>4 DEF DeleteRow
<1>17. CASE DeleteS3Object(q) \/ WriteAuditLog(q) \/ AppendEvent(q) \/ Broadcast(q)
  <2>1. files' = files
    BY <1>17 DEF DeleteS3Object, WriteAuditLog, AppendEvent, Broadcast, dbVars
  <2>2. PICK from \in {"deleteObject", "auditLog", "appendEvent", "hubSend"},
             to \in {"auditLog", "appendEvent", "hubSend", "respond"} :
             Goto(q, from, to)
    BY <1>17 DEF DeleteS3Object, WriteAuditLog, AppendEvent, Broadcast
  <2>3. Same /\ PhaseOf(q) = "applied" /\ PhaseOf(q)' = "applied"
    BY <1>1, <2>2, GotoPhase, PhaseValues, PhaseValuesNext
  <2> QED
    BY <1>4, <2>1, <2>3
<1>18. CASE Respond(q)
  <2>1. Same /\ PhaseOf(q) = "applied" /\ PhaseOf(q)' = "ok"
    BY <1>1, <1>2, <1>18, AnswerPhase, PhaseValues, PhaseValuesNext DEF Respond
  <2>2. Register!Enter(q, {"applied"}, "ok") /\ Register!Keep
    BY <1>5, <1>6, <1>18, <2>1 DEF Respond, dbVars
  <2> QED
    BY <2>2 DEF Register!Accept
<1> QED
  BY <1>10, <1>11, <1>12, <1>13, <1>14, <1>15, <1>16, <1>17, <1>18
  DEF Handle, PutIssueHandler, PutAttachmentHandler, PutProjectJSONHandler,
      PostIssueHandler, DeleteIssueHandler, DeleteAttachmentHandler,
      PutFile, FinishWrite

\* Every step.
LEMMA NextRefines == IndexInv /\ [Next]_vars => [Register!Next]_RegVars
<1> SUFFICES ASSUME IndexInv, [Next]_vars PROVE Register!Next \/ UNCHANGED RegVars
  OBVIOUS
<1>1. TypeOK /\ AnsweredWhenDone
  BY DEF IndexInv
<1>2. ASSUME NEW q \in Reqs, NEW in \in Inputs, Receive(q, in)
      PROVE  Register!Next
  <2>1. AskOf(in) \in Register!Asks
    BY InputFacts DEF AskOf, Register!Asks
  <2>2. Ask' = [Ask EXCEPT ![q] = AskOf(in)] /\ files' = files
    <3>1. \A x \in Reqs : input'[x] = IF x = q THEN in ELSE input[x]
      BY <1>1, <1>2 DEF Receive, TypeOK
    <3>2. \A x \in Reqs : Ask'[x] = IF x = q THEN AskOf(in) ELSE Ask[x]
      BY <3>1 DEF Ask
    <3>3. Ask' = [Ask EXCEPT ![q] = AskOf(in)]
      BY <3>2 DEF Ask
    <3> QED
      BY <1>2, <3>3 DEF Receive, dbVars
  <2>3. pc[q] = "idle" /\ PhaseOf(q) = "idle" /\ Phase[q] = "idle"
    BY <1>2, PhaseValues DEF Receive, Phase
  <2>4. \A x \in Reqs \ {q} : PhaseOf(x)' = PhaseOf(x)
    <3> SUFFICES ASSUME NEW x \in Reqs \ {q} PROVE PhaseOf(x)' = PhaseOf(x)
      OBVIOUS
    <3>1. pc'[x] = pc[x] /\ status'[x] = status[x]
      BY <1>1, <1>2 DEF Receive, TypeOK
    <3> QED
      BY <3>1 DEF PhaseOf
  <2>5. PhaseOf(q)' \in {"open", "refused", "unknown"}
    <3>1. /\ status'[q] = Refusal(in)
          /\ pc'[q] = IF Refusal(in) = 0 THEN FirstCall(in.handler) ELSE "done"
      BY <1>1, <1>2 DEF Receive, TypeOK
    <3>2. Refusal(in) \in {0, 400, 401, 403, 413, 428, 500}
      BY DEF Refusal
    <3> QED
      BY <3>1, <3>2, InputFacts, PhaseValuesNext
  <2>6. Phase' = [Phase EXCEPT ![q] = PhaseOf(q)']
    BY <2>4 DEF Phase
  <2>7. Register!Invoke(q, AskOf(in))
    BY <2>2, <2>3, <2>5, <2>6 DEF Register!Invoke, Ask, Phase
  <2> QED
    BY <2>1, <2>7 DEF Register!Next
<1>3. ASSUME NEW q \in Reqs, Handle(q) PROVE Register!Next \/ UNCHANGED RegVars
  BY <1>3, HandleRefines DEF Register!Next
<1>4. CASE HubTake \/ UNCHANGED vars
  <2>1. files' = files /\ input' = input /\ pc' = pc /\ status' = status
    BY <1>4 DEF HubTake, vars, dbVars, procVars
  <2>2. Ask' = Ask
    BY <2>1 DEF Ask
  <2>3. Phase' = Phase
    BY <2>1 DEF Phase, PhaseOf
  <2> QED
    BY <2>1, <2>2, <2>3 DEF RegVars
<1>5. CASE Crash
  <2>1. files' = files /\ Ask' = Ask
    BY <1>5 DEF Crash, dbVars, Ask
  <2>2. \A x \in Reqs : PhaseOf(x)' = IF PhaseOf(x) \in {"open", "missed", "applied"}
                                        THEN "unknown" ELSE PhaseOf(x)
    <3> SUFFICES ASSUME NEW x \in Reqs
                 PROVE  PhaseOf(x)' = IF PhaseOf(x) \in {"open", "missed", "applied"}
                                        THEN "unknown" ELSE PhaseOf(x)
      OBVIOUS
    <3>1. status'[x] = status[x] /\ pc'[x] = IF pc[x] = "idle" THEN "idle" ELSE "done"
      BY <1>5 DEF Crash
    <3>2. CASE pc[x] = "idle"
      BY <3>1, <3>2, PhaseValues, PhaseValuesNext
    <3>3. CASE pc[x] = "done"
      <4>1. PhaseOf(x)' = PhaseOf(x)
        BY <3>1, <3>3 DEF PhaseOf
      <4>2. status[x] \in Success \cup Refusals \cup {0, 500}
        BY <1>1 DEF TypeOK
      <4>3. PhaseOf(x) \in {"ok", "conflict", "notFound", "unknown", "refused"}
        BY <3>3, <4>2, PhaseValues DEF Refusals
      <4> QED
        BY <4>1, <4>3
    <3>4. CASE pc[x] \in Calls
      <4>1. status'[x] = 0 /\ pc'[x] = "done"
        BY <1>1, <3>1, <3>4 DEF AnsweredWhenDone, Calls
      <4>2. PhaseOf(x) \in {"open", "missed", "applied"}
        BY <3>4, PhaseValues DEF Calls
      <4> QED
        BY <4>1, <4>2, PhaseValuesNext
    <3> QED
      BY <1>1, <3>2, <3>3, <3>4 DEF TypeOK
  <2>3. Phase' = [x \in Reqs |-> IF Phase[x] \in {"open", "missed", "applied"}
                                   THEN "unknown" ELSE Phase[x]]
    BY <2>2 DEF Phase
  <2>4. Register!Stop
    BY <2>1, <2>3 DEF Register!Stop, Register!Keep, Phase, Ask
  <2> QED
    BY <2>4 DEF Register!Next
<1> QED
  BY <1>2, <1>3, <1>4, <1>5 DEF Next

\* The write handlers implement the compare-and-set register: each write takes
\* effect atomically, at most once and only while its precondition holds, and
\* the status answered tells the truth about it, under any interleaving of
\* storage calls, any failures and any crashes.
THEOREM Refinement == Spec => ImplementsRegister
<1>1. Init => Register!Init
  <2> SUFFICES ASSUME Init PROVE Register!Init
    OBVIOUS
  <2>1. TypeOK
    BY InitType
  <2>2. \A q \in Reqs : AskOf(input[q]) \in Register!Asks
    BY <2>1, InputFacts DEF TypeOK, AskOf, Register!Asks
  <2>3. \A q \in Reqs : PhaseOf(q) = "idle"
    BY PhaseValues DEF Init
  <2> QED
    BY <2>1, <2>2, <2>3 DEF Register!Init, TypeOK
<1>2. IndexInv /\ [Next]_vars => [Register!Next]_(Register!regVars)
  BY NextRefines DEF RegVars, Register!regVars, Ask, Phase
<1> QED
  BY <1>1, <1>2, IndexCorrect, PTL DEF Spec, ImplementsRegister, Register!Spec
=============================================================================
