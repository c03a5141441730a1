-------------------------- MODULE AdminConsoleProofs --------------------------
(***************************************************************************)
(* The admin console and its sessions, for any number of requests, users,  *)
(* projects, sessions and tokens.                                          *)
(***************************************************************************)
EXTENDS AdminConsole, FiniteSetTheorems, TLAPS

(***************************************************************************)
(* Where the requests stand                                                *)
(***************************************************************************)
\* A request of this kind may come to this step.
Fits(step, kind) ==
    /\ step \in {"validate", "touch"} => kind \in ConsoleKinds
    /\ step \in {"select", "rotate"} => kind = "RotateRefreshToken"
    /\ step = "globalRole" => kind \in ApiKinds
    /\ step = "revoke" => kind \in {"postUserSessionRevoke", "postSessionRevoke"}
    /\ step \in {"findSession", "logout"} => kind = "postLogout"
    /\ step = "create" => kind = "postProjects"
    /\ step = "slug" => kind \in ProjectForms
    /\ step \in ProjectForms => kind = step
    /\ step = "notify" => kind = "postMemberRemove"
    /\ step \in {"role", "write", "audit", "auditCommit"} => kind = "PutIssueHandler"
    /\ step = "list" => kind \in Listings
    /\ step = "project" => kind \in ProjectReads
    /\ step = "issues" => kind = "IssuesHandler"
    /\ step \in {"count", "page"} => kind = "getAudit"

InFlight(q) == at[q] \notin {"idle"} \cup Outcomes

\* The requests are in their types and at steps of their handlers.
ReqInv ==
    /\ at \in [Reqs -> Steps] /\ op \in [Reqs -> Ops]
    /\ late \subseteq Reqs
    /\ \A q \in Reqs : Fits(at[q], op[q].kind)

\* A request in flight goes on to another step of its handler.
Moves(q) ==
    /\ InFlight(q)
    /\ \E to \in Steps \ {"idle"} : /\ at' = [at EXCEPT ![q] = to]
                                    /\ Fits(to, op[q].kind)
    /\ UNCHANGED <<op, late>>

\* What the request of a route carries.
LEMMA OpFacts ==
    ASSUME NEW o \in Ops
    PROVE  /\ o \in OpType /\ o.kind \in Kinds
           /\ o.session \in Sids \cup {NoSession} /\ o.token \in 0..MaxTokens
           /\ o.role \in Roles
BY AdminAssumption DEF OpType

\* How a move is shown.
LEMMA GotoMoves ==
    ASSUME NEW q \in Reqs, NEW from, NEW to \in Steps \ {"idle"}, Goto(q, from, to),
           from \notin {"idle"} \cup Outcomes, Fits(to, op[q].kind), UNCHANGED <<op, late>>
    PROVE  Moves(q)
BY DEF Goto, Moves, InFlight

\* The outcomes fit every request.
LEMMA OutcomesFit ==
    ASSUME NEW to \in Outcomes, NEW kind
    PROVE  to \in Steps \ {"idle"} /\ Fits(to, kind)
BY DEF Outcomes, Steps, Fits, ProjectForms

\* The steps of the session operations are moves.
LEMMA SessionMoves ==
    ASSUME ReqInv, NEW q \in Reqs, SessionStep(q)
    PROVE  Moves(q)
<1>1. op[q].kind \in Kinds /\ Fits(at[q], op[q].kind)
  BY OpFacts DEF ReqInv
<1>2. CASE ValidateWebSession(q)
  BY <1>1, <1>2 DEF ValidateWebSession, Goto, Moves, InFlight, Fits, Outcomes, Steps, ProjectForms
<1>3. CASE Touch(q, Handler(op[q]))
  <2>1. op[q].kind \in ConsoleKinds
    BY <1>1, <1>3 DEF Touch, Goto, Fits
  <2>2. Handler(op[q]) \in Steps \ {"idle"} /\ Fits(Handler(op[q]), op[q].kind)
    BY <2>1 DEF Handler, Fits, Steps, ConsoleKinds, ProjectForms, Outcomes
  <2> QED
    BY <1>3, <2>2, GotoMoves DEF Touch, Outcomes
<1>4. CASE postUserSessionRevoke(q) \/ postSessionRevoke(q)
  BY <1>1, <1>4 DEF postUserSessionRevoke, postSessionRevoke, RevokeTarget, Goto, Moves, InFlight,
                    Fits, Outcomes, Steps, ProjectForms
<1>5. CASE FindSession(q) \/ postLogout(q)
  BY <1>1, <1>5 DEF FindSession, postLogout, Goto, Moves, InFlight, Fits, Outcomes, Steps,
                    ProjectForms
<1>6. CASE SelectByToken(q) \/ RotateRefreshToken(q)
  BY <1>1, <1>6 DEF SelectByToken, RotateRefreshToken, Goto, Moves, InFlight, Fits, Outcomes,
                    Steps, ProjectForms
<1> QED
  BY <1>2, <1>3, <1>4, <1>5, <1>6 DEF SessionStep, RequireWebAuth

\* So are those of the console's pages ...
LEMMA ConsoleMoves ==
    ASSUME ReqInv, NEW q \in Reqs, Console(q)
    PROVE  Moves(q)
<1>1. op[q].kind \in Kinds /\ Fits(at[q], op[q].kind)
  BY OpFacts DEF ReqInv
<1> USE DEF Goto, Moves, InFlight, Fits, Outcomes, Steps, ProjectForms
<1>2. CASE ProjectBySlug(q)
  BY <1>1, <1>2 DEF ProjectBySlug, formUnchanged
<1>3. CASE postProjects(q)
  BY <1>1, <1>3 DEF postProjects, formUnchanged
<1>4. CASE postProject(q)
  BY <1>1, <1>4 DEF postProject, formUnchanged
<1>5. CASE postProjectArchive(q)
  <2>1. Goto(q, "postProjectArchive", "ok") /\ UNCHANGED <<op, late>>
    BY <1>5 DEF postProjectArchive, formUnchanged
  <2> QED
    BY <2>1, GotoMoves, OutcomesFit
<1>6. CASE postMembers(q)
  BY <1>1, <1>6 DEF postMembers, formUnchanged
<1>7. CASE postMemberRole(q)
  <2>1. Goto(q, "postMemberRole", "ok") /\ UNCHANGED <<op, late>>
    BY <1>7 DEF postMemberRole, formUnchanged
  <2> QED
    BY <2>1, GotoMoves, OutcomesFit
<1>8. CASE postMemberRemove(q)
  BY <1>1, <1>8 DEF postMemberRemove, RemoveProjectMember, BroadcastAccessRevoked, formUnchanged
<1>9. CASE CountRows(q) \/ getAudit(q)
  BY <1>1, <1>9 DEF CountRows, getAudit, Show, auditUnchanged
<1> QED
  BY <1>2, <1>3, <1>4, <1>5, <1>6, <1>7, <1>8, <1>9 DEF Console

\* ... and those of the API.
LEMMA ApiMoves ==
    ASSUME ReqInv, NEW q \in Reqs, Api(q)
    PROVE  Moves(q)
<1>1. op[q].kind \in Kinds /\ Fits(at[q], op[q].kind)
  BY OpFacts DEF ReqInv
<1> USE DEF Goto, Moves, InFlight, Fits, Outcomes, Steps, ProjectForms
<1>2. CASE ReadGlobalRole(q)
  BY <1>1, <1>2 DEF ReadGlobalRole, SecondStep, ApiKinds, apiUnchanged
<1>3. CASE ReadMemberRole(q)
  BY <1>1, <1>3 DEF ReadMemberRole, apiUnchanged
<1>4. CASE CommitFile(q) \/ DrawRowId(q) \/ WriteAuditLog(q)
  BY <1>1, <1>4 DEF CommitFile, DrawRowId, WriteAuditLog, apiUnchanged
<1>5. CASE ProjectsForUser(q)
  BY <1>1, <1>5 DEF ProjectsForUser, apiUnchanged
<1>6. CASE ProjectByID(q)
  BY <1>1, <1>6 DEF ProjectByID, apiUnchanged
<1>7. CASE IssuesForProject(q)
  BY <1>1, <1>7 DEF IssuesForProject, apiUnchanged
<1> QED
  BY <1>2, <1>3, <1>4, <1>5, <1>6, <1>7
  DEF Api, FoldersHandler, HostHandler, FolderByIDHandler, IssuesHandler, PutIssueHandler

\* What a step does to the requests: one begins, one moves, or none does.
ReqStep ==
    \/ \E q \in Reqs, o \in Ops : Receive(q, o)
    \/ \E q \in Reqs : Moves(q)
    \/ UNCHANGED <<at, op, late>>

\* Every step of the system moves at most one request.
LEMMA NextReqStep == ReqInv /\ [Next]_vars => ReqStep
BY SessionMoves, ConsoleMoves, ApiMoves
DEF Next, vars, ReqStep, IssueNativeSession, GraceEnds, Expire, ChangeGlobalRole

\* A request stays at a step of its own kind.
LEMMA NextReq == ReqInv /\ ReqStep => ReqInv'
<1> SUFFICES ASSUME ReqInv, ReqStep PROVE ReqInv'
  OBVIOUS
<1>1. ASSUME NEW q \in Reqs, NEW o \in Ops, Receive(q, o) PROVE ReqInv'
  <2>1. /\ at' = [at EXCEPT ![q] = FirstStep(o)] /\ op' = [op EXCEPT ![q] = o]
        /\ late' \subseteq late \cup {q}
    BY <1>1 DEF Receive, Goto
  <2>2. /\ FirstStep(o) \in {"select", "globalRole", "validate"}
        /\ Fits(FirstStep(o), o.kind)
    BY OpFacts DEF FirstStep, Kinds, Fits, ProjectForms
  <2>3. FirstStep(o) \in Steps
    BY <2>2 DEF Steps
  <2> QED
    BY <2>1, <2>2, <2>3 DEF ReqInv
<1>2. ASSUME NEW q \in Reqs, Moves(q) PROVE ReqInv'
  BY <1>2 DEF Moves, ReqInv
<1>3. CASE UNCHANGED <<at, op, late>>
  BY <1>3 DEF ReqInv
<1> QED
  BY <1>1, <1>2, <1>3 DEF ReqStep
-----------------------------------------------------------------------------
(***************************************************************************)
(* The sessions                                                            *)
(***************************************************************************)
SessTypes ==
    /\ hash \in [Sids -> 0..MaxTokens] /\ issued \in [Sids -> 0..MaxTokens]
    /\ revoked \subseteq Sids /\ expired \subseteq Sids /\ recent \subseteq Sids
    /\ spent \subseteq Sids \X (1..MaxTokens)

\* A row holds a token generated for it; a spent token is older than the one
\* the row holds, and the token of a rotation on its way is not newer.
TokenInv ==
    /\ \A s \in Sids : hash[s] <= issued[s]
    /\ \A x \in spent : x[1] \in NativeSessions /\ x[2] < hash[x[1]]
    /\ \A q \in Reqs : at[q] = "rotate" => op[q].token <= hash[op[q].session]

\* A request that came late is refused or about to be: its session stays revoked.
LateInv == \A q \in late : Refusable(q) /\ op[q].session \in revoked

SessInv == SessTypes /\ TokenInv /\ LateInv

\* What a step does to the rows: they may be revoked for good, and the token a
\* row holds only ever gives way to a newer one.
RowStep ==
    /\ SessTypes'
    /\ revoked \subseteq revoked' /\ spent \subseteq spent'
    /\ \A s \in Sids : hash[s] <= hash'[s] /\ hash'[s] <= issued'[s]
    /\ \A x \in spent' : x[1] \in NativeSessions /\ x[2] < hash'[x[1]]

\* A rotation.
LEMMA RotateRows ==
    ASSUME ReqInv, SessInv, NEW q \in Reqs, RotateRefreshToken(q)
    PROVE  RowStep
<1> DEFINE s == op[q].session
           t == op[q].token
<1>1. /\ s \in NativeSessions /\ s \in Sids /\ t \in 1..MaxTokens /\ t <= hash[s]
  BY RouteAssumption DEF RotateRefreshToken, ReqInv, Fits, SessInv, TokenInv, Sids
<1>2. /\ hash[s] \in Nat /\ issued[s] \in Nat /\ MaxTokens \in Nat /\ hash[s] <= issued[s]
      /\ issued[s] < MaxTokens
  BY <1>1, SessionsAssumption DEF SessInv, SessTypes, TokenInv, RotateRefreshToken
<1>3. issued' = [issued EXCEPT ![s] = issued[s] + 1]
  BY DEF RotateRefreshToken
<1>4. /\ issued' \in [Sids -> 0..MaxTokens] /\ issued'[s] = issued[s] + 1
      /\ \A x \in Sids \ {s} : issued'[x] = issued[x]
  BY <1>1, <1>2, <1>3 DEF SessInv, SessTypes
<1>5. CASE Replace(s) /\ spent' \in {spent, spent \cup {<<s, t>>}}
  <2>1. /\ hash' = [hash EXCEPT ![s] = issued[s] + 1]
        /\ expired' = expired \ {s} /\ recent' = recent \cup {s} /\ revoked' = revoked
    BY <1>5 DEF Replace
  <2>2. /\ hash' \in [Sids -> 0..MaxTokens] /\ hash'[s] = issued[s] + 1
        /\ \A x \in Sids \ {s} : hash'[x] = hash[x]
    BY <1>1, <1>2, <2>1 DEF SessInv, SessTypes
  <2>3. SessTypes'
    BY <1>1, <1>4, <1>5, <2>1, <2>2 DEF SessInv, SessTypes
  <2>4. \A x \in Sids : hash[x] <= hash'[x] /\ hash'[x] <= issued'[x]
    <3> SUFFICES ASSUME NEW x \in Sids PROVE hash[x] <= hash'[x] /\ hash'[x] <= issued'[x]
      OBVIOUS
    <3>1. hash[x] \in Nat /\ hash[x] <= issued[x]
      BY DEF SessInv, SessTypes, TokenInv
    <3>2. CASE x = s
      BY <1>2, <1>4, <2>2, <3>2
    <3>3. CASE x # s
      BY <1>4, <2>2, <3>1, <3>3
    <3> QED
      BY <3>2, <3>3
  <2>5. \A x \in spent' : x[1] \in NativeSessions /\ x[2] < hash'[x[1]]
    <3> SUFFICES ASSUME NEW x \in spent' PROVE x[1] \in NativeSessions /\ x[2] < hash'[x[1]]
      OBVIOUS
    <3>1. CASE x = <<s, t>>
      BY <1>1, <1>2, <2>2, <3>1
    <3>2. CASE x \in spent
      <4>1. /\ x[1] \in NativeSessions /\ x[1] \in Sids /\ x[2] \in Nat /\ x[2] < hash[x[1]]
            /\ hash[x[1]] \in Nat /\ hash'[x[1]] \in Nat
        BY <2>2, <3>2 DEF SessInv, SessTypes, TokenInv
      <4> QED
        BY <2>4, <4>1
    <3> QED
      BY <1>5, <3>1, <3>2
  <2> QED
    BY <1>5, <2>1, <2>3, <2>4, <2>5 DEF RowStep
<1>6. CASE UNCHANGED rowVars /\ UNCHANGED spent
  <2>1. \A x \in Sids : hash[x] \in Nat /\ issued[x] \in Nat /\ hash[x] <= issued[x]
    BY DEF SessInv, SessTypes, TokenInv
  <2>2. \A x \in Sids : hash[x] <= issued'[x]
    <3> SUFFICES ASSUME NEW x \in Sids PROVE hash[x] <= issued'[x]
      OBVIOUS
    <3>1. issued'[x] = issued[x] \/ issued'[x] = issued[x] + 1
      BY <1>4
    <3> QED
      BY <2>1, <3>1
  <2>3. SessTypes'
    BY <1>4, <1>6 DEF rowVars, SessInv, SessTypes
  <2> QED
    BY <1>6, <2>1, <2>2, <2>3 DEF rowVars, SessInv, TokenInv, RowStep
<1> QED
  BY <1>5, <1>6 DEF RotateRefreshToken

\* Every step.
LEMMA NextRows ==
    ASSUME ReqInv, SessInv, [Next]_vars
    PROVE  RowStep
<1>0. \A x \in Sids : hash[x] \in Nat /\ issued[x] \in Nat
  BY DEF SessInv, SessTypes
<1>1. ASSUME UNCHANGED <<hash, issued, spent>>, revoked' \subseteq Sids, revoked \subseteq revoked',
             expired' \subseteq Sids, recent' \subseteq Sids
      PROVE  RowStep
  BY <1>0, <1>1 DEF SessInv, SessTypes, TokenInv, RowStep
<1>2. CASE UNCHANGED sessVars
  BY <1>1, <1>2 DEF sessVars, rowVars, SessInv, SessTypes
<1>3. ASSUME NEW q \in Reqs, RevokeTarget(q),
             op[q].kind \in {"postUserSessionRevoke", "postSessionRevoke"}
      PROVE  RowStep
  <2>1. op[q].target \in Sids
    BY <1>3, RouteAssumption DEF ReqInv
  <2> QED
    BY <1>1, <1>3, <2>1 DEF RevokeTarget, Revoke, SessInv, SessTypes
<1>4. ASSUME NEW q \in Reqs, postLogout(q) PROVE RowStep
  <2>1. op[q].kind = "postLogout"
    BY <1>4 DEF postLogout, Goto, ReqInv, Fits
  <2>2. op[q].session \in Sids
    BY <2>1, RouteAssumption DEF ReqInv, Sids, ConsoleKinds
  <2> QED
    BY <1>1, <1>4, <2>2 DEF postLogout, Revoke, SessInv, SessTypes
<1>5. ASSUME NEW q \in Reqs, RotateRefreshToken(q) PROVE RowStep
  BY <1>5, RotateRows
<1>6. ASSUME NEW s \in NativeSessions, IssueNativeSession(s) PROVE RowStep
  <2>1. /\ hash[s] = 0 /\ hash' = [hash EXCEPT ![s] = 1] /\ issued' = [issued EXCEPT ![s] = 1]
        /\ recent' = recent \cup {s} /\ UNCHANGED <<revoked, expired, spent>>
    BY <1>6 DEF IssueNativeSession
  <2>2. s \in Sids /\ 1 \in 0..MaxTokens
    BY SessionsAssumption DEF Sids
  <2>3. /\ hash'[s] = 1 /\ issued'[s] = 1
        /\ \A x \in Sids \ {s} : hash'[x] = hash[x] /\ issued'[x] = issued[x]
    BY <2>1, <2>2 DEF SessInv, SessTypes
  <2>4. SessTypes'
    BY <2>1, <2>2 DEF SessInv, SessTypes
  <2>5. \A x \in Sids : hash[x] <= hash'[x] /\ hash'[x] <= issued'[x]
    BY <1>0, <2>1, <2>3 DEF SessInv, TokenInv
  <2>6. \A x \in spent : x[1] \in NativeSessions /\ x[2] < hash'[x[1]]
    <3> SUFFICES ASSUME NEW x \in spent PROVE x[1] \in NativeSessions /\ x[2] < hash'[x[1]]
      OBVIOUS
    <3>1. /\ x[1] \in NativeSessions /\ x[1] \in Sids /\ x[2] \in Nat /\ x[2] < hash[x[1]]
          /\ hash[x[1]] \in Nat /\ hash'[x[1]] \in Nat
      BY <2>4 DEF SessInv, SessTypes, TokenInv
    <3> QED
      BY <2>5, <3>1
  <2> QED
    BY <2>1, <2>4, <2>5, <2>6 DEF RowStep
<1>7. ASSUME NEW s \in Sids, Expire(s) PROVE RowStep
  BY <1>1, <1>7 DEF Expire, SessInv, SessTypes
<1>8. ASSUME NEW s \in NativeSessions, GraceEnds(s) PROVE RowStep
  BY <1>1, <1>8 DEF GraceEnds, SessInv, SessTypes
<1>9. CASE \E q \in Reqs : Console(q) \/ Api(q)
  BY <1>2, <1>9 DEF Console, ProjectBySlug, postProjects, postProject, postProjectArchive, postMembers,
     postMemberRole, postMemberRemove, RemoveProjectMember, BroadcastAccessRevoked, CountRows,
     getAudit, Show, formUnchanged, auditUnchanged, Api, FoldersHandler, HostHandler, FolderByIDHandler,
     IssuesHandler, PutIssueHandler, ReadGlobalRole, ReadMemberRole, CommitFile, DrawRowId,
     WriteAuditLog, ProjectsForUser, ProjectByID, IssuesForProject, apiUnchanged
<1>10. CASE \E q \in Reqs : SessionStep(q)
  BY <1>2, <1>3, <1>4, <1>5, <1>10
  DEF SessionStep, RequireWebAuth, ValidateWebSession, Touch, postUserSessionRevoke,
      postSessionRevoke, FindSession, SelectByToken
<1>11. CASE UNCHANGED vars \/ (\E u \in Users : ChangeGlobalRole(u))
            \/ \E q \in Reqs, o \in Ops : Receive(q, o)
  BY <1>2, <1>11 DEF vars, ChangeGlobalRole, Receive
<1> QED
  BY <1>6, <1>7, <1>8, <1>9, <1>10, <1>11 DEF Next

\* Where the console's pages and the API are while they run.
LEMMA HandlerSteps ==
    ASSUME ReqInv, NEW q \in Reqs
    PROVE  /\ Console(q) => /\ at[q] \in {"create", "slug", "notify", "count", "page"} \cup ProjectForms
                            /\ op[q].kind \in ConsoleKinds
           /\ Api(q) => op[q].kind \in ApiKinds
<1>1. ASSUME Console(q)
      PROVE  at[q] \in {"create", "slug", "notify", "count", "page"} \cup ProjectForms
  BY <1>1 DEF Console, ProjectBySlug, postProjects, postProject, postProjectArchive, postMembers,
     postMemberRole, postMemberRemove, RemoveProjectMember, BroadcastAccessRevoked, CountRows,
     getAudit, Show, Goto, ProjectForms
<1>2. ASSUME at[q] \in {"create", "slug", "notify", "count", "page"} \cup ProjectForms
      PROVE  op[q].kind \in ConsoleKinds
  BY <1>2 DEF ReqInv, Fits, ConsoleKinds, ProjectForms
<1>3. Api(q) => op[q].kind \in ApiKinds
  BY DEF Api, FoldersHandler, HostHandler, FolderByIDHandler, IssuesHandler, PutIssueHandler,
         ApiKinds, Listings, ProjectReads
<1> QED
  BY <1>1, <1>2, <1>3

\* No request passes the check of a revoked session or of a token that the row
\* does not hold, and only the check leads to a rotation.
Checked(q) ==
    /\ at[q] = "validate" /\ at'[q] # "refused" => op[q].session \notin revoked
    /\ at[q] = "select" /\ at'[q] # "refused" => /\ op[q].session \notin revoked
                                                 /\ hash[op[q].session] = op[q].token
    /\ at'[q] = "rotate" => at[q] = "select"
    /\ at[q] # "refused"

\* Every step of a request makes these checks.
LEMMA MovesChecked ==
    ASSUME ReqInv, NEW q \in Reqs, SessionStep(q) \/ Console(q) \/ Api(q)
    PROVE  Checked(q)
<1>1. Moves(q) /\ at'[q] \in Steps /\ Fits(at[q], op[q].kind) /\ Fits(at'[q], op[q].kind)
  <2>1. Moves(q)
    BY SessionMoves, ConsoleMoves, ApiMoves
  <2> QED
    BY <2>1 DEF Moves, ReqInv
<1>2. at[q] # "refused"
  BY <1>1 DEF Moves, InFlight, Outcomes
<1>3. CASE Console(q) \/ Api(q)
  <2>1. /\ op[q].kind # "RotateRefreshToken" /\ at[q] # "validate"
    BY <1>1, <1>3, HandlerSteps
       DEF Fits, ConsoleKinds, ApiKinds, ProjectForms, Listings, ProjectReads
  <2> QED
    BY <1>1, <1>2, <2>1 DEF Fits, Checked
<1>4. CASE SessionStep(q)
  <2>0. at \in [Reqs -> Steps]
    BY DEF ReqInv
  <2>1. CASE ValidateWebSession(q)
    BY <1>2, <2>0, <2>1 DEF ValidateWebSession, Goto, Checked
  <2>2. CASE SelectByToken(q)
    BY <1>2, <2>0, <2>2 DEF SelectByToken, Goto, Checked
  <2>3. CASE Touch(q, Handler(op[q]))
    <3>1. at[q] = "touch" /\ op[q].kind # "RotateRefreshToken"
      BY <1>1, <2>3 DEF Touch, Goto, Fits, ConsoleKinds, ProjectForms
    <3> QED
      BY <1>1, <1>2, <3>1 DEF Fits, Checked
  <2>4. CASE \/ postUserSessionRevoke(q) \/ postSessionRevoke(q)
             \/ FindSession(q) \/ postLogout(q) \/ RotateRefreshToken(q)
    BY <1>2, <2>0, <2>4 DEF postUserSessionRevoke, postSessionRevoke, RevokeTarget, FindSession,
                            postLogout, RotateRefreshToken, Goto, Checked
  <2> QED
    BY <1>4, <2>1, <2>2, <2>3, <2>4 DEF SessionStep, RequireWebAuth
<1> QED
  BY <1>3, <1>4

\* What a step does to request q: it begins, it moves past its checks, or it
\* stays where it is.
LEMMA RequestSteps ==
    ASSUME ReqInv, [Next]_vars, NEW q \in Reqs
    PROVE  \/ \E o \in Ops : Receive(q, o)
           \/ /\ InFlight(q) /\ Checked(q) /\ op'[q] = op[q] /\ at'[q] # "idle"
              /\ q \in late' <=> q \in late
           \/ /\ at'[q] = at[q] /\ op'[q] = op[q]
              /\ q \in late' <=> q \in late
<1>1. ASSUME NEW r \in Reqs, NEW o \in Ops, Receive(r, o), r # q
      PROVE  /\ at'[q] = at[q] /\ op'[q] = op[q]
             /\ q \in late' <=> q \in late
  BY <1>1 DEF Receive, Goto, ReqInv
<1>2. ASSUME NEW r \in Reqs, SessionStep(r) \/ Console(r) \/ Api(r)
      PROVE  \/ /\ InFlight(q) /\ Checked(q) /\ op'[q] = op[q] /\ at'[q] # "idle"
                /\ q \in late' <=> q \in late
             \/ /\ at'[q] = at[q] /\ op'[q] = op[q]
                /\ q \in late' <=> q \in late
  <2>1. Moves(r) /\ Checked(r)
    BY <1>2, SessionMoves, ConsoleMoves, ApiMoves, MovesChecked
  <2>2. CASE r = q
    BY <2>1, <2>2 DEF Moves, ReqInv
  <2>3. CASE r # q
    BY <2>1, <2>3 DEF Moves, ReqInv
  <2> QED
    BY <2>2, <2>3
<1>3. CASE UNCHANGED <<at, op, late>>
  BY <1>3
<1> QED
  BY <1>1, <1>2, <1>3
  DEF Next, vars, IssueNativeSession, GraceEnds, Expire, ChangeGlobalRole

\* The invariant of the sessions is kept.
LEMMA NextSess ==
    ASSUME ReqInv, SessInv, [Next]_vars
    PROVE  SessInv'
<1>1. RowStep
  BY NextRows
<1>2. \A q \in Reqs : at'[q] = "rotate" => op'[q].token <= hash'[op'[q].session]
  <2> SUFFICES ASSUME NEW q \in Reqs, at'[q] = "rotate"
               PROVE  op'[q].token <= hash'[op'[q].session]
    OBVIOUS
  <2>1. ~\E o \in Ops : Receive(q, o)
    <3> SUFFICES ASSUME NEW o \in Ops, Receive(q, o) PROVE FALSE
      OBVIOUS
    <3>1. at'[q] = FirstStep(o)
      BY DEF Receive, Goto, ReqInv
    <3> QED
      BY <3>1 DEF FirstStep
  <2>2. op'[q] = op[q] /\ (at[q] = "rotate" \/ hash[op[q].session] = op[q].token)
    BY <2>1, RequestSteps DEF Checked
  <2>3. op'[q] \in Ops /\ op'[q].kind = "RotateRefreshToken"
    BY NextReqStep, NextReq DEF ReqInv, Fits
  <2>4. op[q].session \in Sids /\ op[q].token \in Nat
    BY <2>2, <2>3, RouteAssumption DEF Sids
  <2>5. op[q].token <= hash[op[q].session]
    BY <2>2, <2>4 DEF SessInv, TokenInv
  <2>6. /\ hash[op[q].session] \in Nat /\ hash'[op[q].session] \in Nat
        /\ hash[op[q].session] <= hash'[op[q].session]
    BY <1>1, <2>4 DEF RowStep, SessInv, SessTypes
  <2> QED
    BY <2>2, <2>4, <2>5, <2>6
<1>3. TokenInv'
  BY <1>1, <1>2 DEF RowStep, TokenInv
<1>4. LateInv'
  <2> SUFFICES ASSUME NEW q \in Reqs, q \in late'
               PROVE  Refusable(q)' /\ op'[q].session \in revoked'
    BY NextReqStep, NextReq DEF LateInv, ReqInv
  <2>0. q \in late => Refusable(q) /\ op[q].session \in revoked
    BY DEF SessInv, LateInv
  <2>1. ASSUME NEW o \in Ops, Receive(q, o)
        PROVE  Refusable(q)' /\ op'[q].session \in revoked'
    <3>1. /\ at[q] = "idle" /\ at'[q] = FirstStep(o) /\ op'[q] = o
          /\ late' = (IF o.session \in revoked THEN late \cup {q} ELSE late)
          /\ revoked' = revoked
      BY <2>1 DEF Receive, Goto, ReqInv, sessVars, rowVars
    <3>2. q \notin late
      BY <2>0, <3>1 DEF Refusable
    <3>3. o.session \in revoked
      BY <3>1, <3>2
    <3>4. o.session \in Sids
      BY <3>3 DEF SessInv, SessTypes
    <3>5. FirstStep(o) \in {"validate", "select"}
      BY <3>4, AdminAssumption, RouteAssumption DEF FirstStep
    <3> QED
      BY <3>1, <3>3, <3>5 DEF Refusable
  <2>2. CASE /\ at'[q] = at[q] /\ op'[q] = op[q]
             /\ q \in late' <=> q \in late
    BY <1>1, <2>0, <2>2 DEF RowStep, Refusable
  <2>3. CASE /\ InFlight(q) /\ Checked(q) /\ op'[q] = op[q] /\ at'[q] # "idle"
             /\ q \in late' <=> q \in late
    <3>1. at'[q] = "refused"
      BY <2>0, <2>3 DEF Checked, Refusable
    <3> QED
      BY <1>1, <2>0, <2>3, <3>1 DEF RowStep, Refusable
  <2> QED
    BY <2>1, <2>2, <2>3, RequestSteps
<1> QED
  BY <1>1, <1>3, <1>4 DEF SessInv, RowStep

\* Initially no session has been revoked and no token spent.
LEMMA InitSess == Init => ReqInv /\ SessInv
<1> SUFFICES ASSUME Init PROVE ReqInv /\ SessInv
  OBVIOUS
<1>1. ReqInv
  <2>1. (CHOOSE o \in Ops : TRUE) \in Ops
    BY RouteAssumption
  <2>2. \A k : Fits("idle", k)
    BY DEF Fits, ProjectForms
  <2> QED
    BY <2>1, <2>2 DEF Init, SInit, ReqInv, Steps
<1>2. SessTypes
  BY SessionsAssumption DEF Init, SInit, SessTypes
<1>3. TokenInv
  <2>1. hash = issued /\ \A s \in Sids : hash[s] \in Nat
    BY <1>2 DEF Init, SInit, SessTypes
  <2> QED
    BY <2>1 DEF Init, SInit, TokenInv
<1>4. LateInv
  BY DEF Init, SInit, LateInv
<1> QED
  BY <1>1, <1>2, <1>3, <1>4 DEF SessInv

\* The inductive invariant of the requests and the sessions.
THEOREM SessionsCorrect == Spec => [](ReqInv /\ SessInv)
<1>1. ReqInv /\ SessInv /\ [Next]_vars => (ReqInv /\ SessInv)'
  BY NextReqStep, NextReq, NextSess
<1> QED
  BY <1>1, InitSess, PTL DEF Spec

\* A request that begins when its session has been revoked is refused.
THEOREM RevocationIsFinal == Spec => []RevokedIsFinal
<1>1. ReqInv /\ SessInv => RevokedIsFinal
  BY DEF SessInv, LateInv, RevokedIsFinal
<1> QED
  BY <1>1, SessionsCorrect, PTL

\* A step accepts no token that the row no longer holds, and the row never
\* returns to a token that was exchanged.
LEMMA SpentRefused ==
    ASSUME ReqInv, SessInv, [Next]_vars
    PROVE  RefusesSpent
<1> SUFFICES ASSUME NEW q \in Reqs, at[q] = "select", at'[q] = "rotate",
                    <<op[q].session, op[q].token>> \in spent
             PROVE  FALSE
  BY DEF RefusesSpent
<1>1. ~\E o \in Ops : Receive(q, o)
  BY DEF Receive, Goto
<1>2. hash[op[q].session] = op[q].token
  BY <1>1, RequestSteps DEF Checked
<1>3. /\ op[q].token < hash[op[q].session] /\ op[q].token \in Nat
      /\ hash[op[q].session] \in Nat
  BY DEF SessInv, SessTypes, TokenInv
<1> QED
  BY <1>2, <1>3

\* A refresh token that was exchanged is refused by every rotation that comes to
\* look it up afterwards.
THEOREM RotationIsFinal == Spec => SpentIsFinal
<1>1. ReqInv /\ SessInv /\ [Next]_vars => [RefusesSpent]_vars
  BY SpentRefused
<1> QED
  BY <1>1, SessionsCorrect, PTL DEF Spec, SpentIsFinal
-----------------------------------------------------------------------------
(***************************************************************************)
(* Projects and members                                                    *)
(***************************************************************************)
ConsoleTypes ==
    /\ projects \in [Projects -> {"none", "open", "archived"}]
    /\ forms \in [Projects -> Reqs \cup {"none"}]
    /\ members \in [Projects -> [Users -> Roles \cup {"none"}]]
    /\ global \in [Users -> {"admin", "member"}]
    /\ removed \subseteq Reqs /\ told \subseteq Reqs

\* A request that took a member out is about to tell, or has told.
RemovedInv == \A q \in removed : at[q] = "notify" \/ q \in told

\* What the requests about projects and members name.
LEMMA Named ==
    ASSUME ReqInv, NEW q \in Reqs
    PROVE  /\ at[q] \in ProjectForms \cup {"create", "slug", "notify"} => op[q].project \in Projects
           /\ at[q] \in {"postMembers", "postMemberRole", "postMemberRemove"} => op[q].user \in Users
           /\ op[q].kind \in ApiKinds => op[q].user \in Users
           /\ op[q].kind \in {"PutIssueHandler"} \cup ProjectReads => op[q].project \in Projects
           /\ op[q].role \in Roles
<1>1. op[q] \in Ops /\ Fits(at[q], op[q].kind) /\ op[q].role \in Roles
  BY OpFacts DEF ReqInv
<1> QED
  BY <1>1, RouteAssumption DEF Fits, ProjectForms, ApiKinds, ProjectReads

\* A step of the console keeps the types and tells whom it removed.
LEMMA ConsoleForms ==
    ASSUME ReqInv, ConsoleTypes, RemovedInv, NEW q \in Reqs, Console(q)
    PROVE  ConsoleTypes' /\ RemovedInv'
<1>0. at \in [Reqs -> Steps]
  BY DEF ReqInv
<1>1. ASSUME removed' = removed, told' = told, at[q] # "notify",
             NEW to, at' = [at EXCEPT ![q] = to]
      PROVE  RemovedInv'
  BY <1>0, <1>1 DEF ConsoleTypes, RemovedInv
<1>2. CASE CountRows(q) \/ getAudit(q)
  <2>1. UNCHANGED <<projects, forms, members, global, removed, told>>
    BY <1>2 DEF CountRows, getAudit, Show, auditUnchanged, consoleVars
  <2>2. at[q] # "notify" /\ \E to : at' = [at EXCEPT ![q] = to]
    BY <1>2 DEF CountRows, getAudit, Show, Goto
  <2> QED
    BY <1>1, <2>1, <2>2 DEF ConsoleTypes
<1>3. CASE ProjectBySlug(q)
  <2>1. UNCHANGED <<projects, forms, members, global, removed, told>>
    BY <1>3 DEF ProjectBySlug, formUnchanged
  <2>2. at[q] # "notify" /\ \E to : at' = [at EXCEPT ![q] = to]
    BY <1>3 DEF ProjectBySlug, Goto
  <2> QED
    BY <1>1, <2>1, <2>2 DEF ConsoleTypes
<1>4. CASE postProjects(q)
  <2>1. UNCHANGED <<members, global, removed, told>>
    BY <1>4 DEF postProjects, formUnchanged
  <2>2. at[q] = "create" /\ \E to : at' = [at EXCEPT ![q] = to]
    BY <1>4 DEF postProjects, Goto
  <2>3. ConsoleTypes'
    <3>1. op[q].project \in Projects
      BY <2>2, Named
    <3>2. CreateProject(q) \/ UNCHANGED <<projects, forms>>
      BY <1>4 DEF postProjects
    <3>3. projects' \in [Projects -> {"none", "open", "archived"}]
      <4>1. projects' = projects \/ projects' = [projects EXCEPT ![op[q].project] = "open"]
        BY <3>2, Zenon DEF CreateProject
      <4>2. projects \in [Projects -> {"none", "open", "archived"}]
        BY DEF ConsoleTypes
      <4> QED
        BY <3>1, <4>1, <4>2
    <3>4. forms' \in [Projects -> Reqs \cup {"none"}]
      BY <3>1, <3>2 DEF CreateProject, ConsoleTypes
    <3> QED
      BY <2>1, <3>3, <3>4 DEF ConsoleTypes
  <2> QED
    BY <1>1, <2>1, <2>2, <2>3
<1>5. CASE postProject(q)
  <2>1. UNCHANGED <<projects, members, global, removed, told>>
    BY <1>5 DEF postProject, formUnchanged
  <2>2. at[q] = "postProject" /\ \E to : at' = [at EXCEPT ![q] = to]
    BY <1>5 DEF postProject, Goto
  <2>3. ConsoleTypes'
    BY <1>5, <2>1, <2>2, Named DEF postProject, UpdateProject, ConsoleTypes
  <2> QED
    BY <1>1, <2>1, <2>2, <2>3
<1>6. CASE postProjectArchive(q)
  <2>1. UNCHANGED <<forms, members, global, removed, told>>
    BY <1>6 DEF postProjectArchive, formUnchanged
  <2>2. at[q] = "postProjectArchive" /\ \E to : at' = [at EXCEPT ![q] = to]
    BY <1>6 DEF postProjectArchive, Goto
  <2>3. ConsoleTypes'
    BY <1>6, <2>1, <2>2, Named DEF postProjectArchive, ArchiveProject, ConsoleTypes
  <2> QED
    BY <1>1, <2>1, <2>2, <2>3
<1>7. ASSUME NEW r \in Roles \cup {"none"}, members' = members \/ SetRole(q, r),
             at[q] \in {"postMembers", "postMemberRole", "postMemberRemove"}
      PROVE  members' \in [Projects -> [Users -> Roles \cup {"none"}]]
  <2>1. op[q].project \in Projects /\ op[q].user \in Users
    BY <1>7, Named DEF ProjectForms
  <2> QED
    BY <1>7, <2>1 DEF SetRole, ConsoleTypes
<1>8. CASE postMembers(q) \/ postMemberRole(q)
  <2>1. UNCHANGED <<projects, forms, global, removed, told>>
    BY <1>8 DEF postMembers, postMemberRole, formUnchanged
  <2>2. /\ at[q] \in {"postMembers", "postMemberRole", "postMemberRemove"}
        /\ at[q] # "notify" /\ \E to : at' = [at EXCEPT ![q] = to]
    BY <1>8 DEF postMembers, postMemberRole, Goto
  <2>3. members' = members \/ SetRole(q, op[q].role)
    BY <1>8 DEF postMembers, postMemberRole, ChangeProjectMemberRole
  <2>4. ConsoleTypes'
    BY <1>7, <2>1, <2>2, <2>3, Named DEF ConsoleTypes
  <2> QED
    BY <1>1, <2>1, <2>2, <2>4
<1>9. CASE RemoveProjectMember(q)
  <2>1. /\ UNCHANGED <<projects, forms, global, told>> /\ at[q] = "postMemberRemove"
        /\ at'[q] = "notify" /\ \A x \in Reqs \ {q} : at'[x] = at[x]
        /\ removed' \in {removed, removed \cup {q}}
        /\ members' = members \/ SetRole(q, "none")
    BY <1>0, <1>9 DEF RemoveProjectMember, formUnchanged, Goto
  <2>2. ConsoleTypes'
    BY <1>7, <2>1 DEF ConsoleTypes
  <2> QED
    BY <2>1, <2>2 DEF ConsoleTypes, RemovedInv
<1>10. CASE BroadcastAccessRevoked(q)
  <2>1. /\ UNCHANGED <<projects, forms, global, members, removed>> /\ told' = told \cup {q}
        /\ \A x \in Reqs \ {q} : at'[x] = at[x]
    BY <1>0, <1>10 DEF BroadcastAccessRevoked, formUnchanged, Goto
  <2> QED
    BY <2>1 DEF ConsoleTypes, RemovedInv
<1> QED
  BY <1>2, <1>3, <1>4, <1>5, <1>6, <1>8, <1>9, <1>10 DEF Console, postMemberRemove

\* Every step.
LEMMA NextConsole ==
    ASSUME ReqInv, ConsoleTypes, RemovedInv, [Next]_vars
    PROVE  ConsoleTypes' /\ RemovedInv'
<1>0. at \in [Reqs -> Steps]
  BY DEF ReqInv
<1>1. ASSUME UNCHANGED <<projects, forms, members, removed, told>>,
             global' \in [Users -> {"admin", "member"}],
             \A q \in Reqs : at[q] = "notify" => at'[q] = "notify"
      PROVE  ConsoleTypes' /\ RemovedInv'
  BY <1>1 DEF ConsoleTypes, RemovedInv
<1>2. CASE \E q \in Reqs : Console(q)
  BY <1>2, ConsoleForms
<1>3. ASSUME NEW q \in Reqs, Api(q) PROVE ConsoleTypes' /\ RemovedInv'
  <2>1. UNCHANGED apiUnchanged
    BY <1>3 DEF Api, FoldersHandler, HostHandler, FolderByIDHandler, IssuesHandler,
       PutIssueHandler, ReadGlobalRole, ReadMemberRole, CommitFile, DrawRowId, WriteAuditLog,
       ProjectsForUser, ProjectByID, IssuesForProject
  <2>2. at[q] # "notify" /\ \A x \in Reqs \ {q} : at'[x] = at[x]
    BY <1>0, <1>3, ApiMoves, HandlerSteps
       DEF Moves, ReqInv, Fits, ApiKinds, Listings, ProjectReads
  <2> QED
    BY <1>1, <2>1, <2>2 DEF apiUnchanged, ConsoleTypes
<1>4. ASSUME NEW q \in Reqs, SessionStep(q), UNCHANGED <<consoleVars, removed, told>>
      PROVE  ConsoleTypes' /\ RemovedInv'
  <2>1. at[q] # "notify"
    BY <1>4 DEF SessionStep, RequireWebAuth, ValidateWebSession, Touch, postUserSessionRevoke,
       postSessionRevoke, RevokeTarget, FindSession, postLogout, SelectByToken,
       RotateRefreshToken, Goto
  <2>2. \A x \in Reqs \ {q} : at'[x] = at[x]
    BY <1>0, <1>4, SessionMoves DEF Moves
  <2> QED
    BY <1>1, <1>4, <2>1, <2>2 DEF consoleVars, ConsoleTypes
<1>5. ASSUME NEW q \in Reqs, NEW o \in Ops, Receive(q, o) PROVE ConsoleTypes' /\ RemovedInv'
  <2>1. at[q] = "idle" /\ \A x \in Reqs \ {q} : at'[x] = at[x]
    BY <1>0, <1>5 DEF Receive, Goto
  <2> QED
    BY <1>1, <1>5, <2>1 DEF Receive, consoleVars, ConsoleTypes
<1>6. ASSUME NEW u \in Users, ChangeGlobalRole(u) PROVE ConsoleTypes' /\ RemovedInv'
  BY <1>1, <1>6 DEF ChangeGlobalRole, ConsoleTypes
<1>7. CASE UNCHANGED <<at, consoleVars, removed, told>>
  BY <1>1, <1>7 DEF consoleVars, ConsoleTypes
<1> QED
  BY <1>2, <1>3, <1>4, <1>5, <1>6, <1>7
  DEF Next, vars, histVars, IssueNativeSession, GraceEnds, Expire

\* The inductive invariant of the console.
ConsoleInv == ReqInv /\ SessInv /\ ConsoleTypes /\ RemovedInv

\* The console keeps its inductive invariant.
LEMMA ConsoleCorrect == Spec => []ConsoleInv
<1>1. Init => ConsoleInv
  <2> SUFFICES ASSUME Init PROVE ConsoleTypes /\ RemovedInv
    BY InitSess DEF ConsoleInv
  <2> QED
    BY DEF Init, ConsoleTypes, RemovedInv, Roles
<1>2. ConsoleInv /\ [Next]_vars => ConsoleInv'
  BY NextReqStep, NextReq, NextSess, NextConsole DEF ConsoleInv
<1> QED
  BY <1>1, <1>2, PTL DEF Spec

\* Every request whose DELETE took a member out calls BroadcastAccessRevoked
\* before it ends.
THEOREM TheRemovedAreTold == Spec => []RemovedAreTold
<1>1. ConsoleInv => RemovedAreTold
  BY DEF ConsoleInv, RemovedInv, RemovedAreTold, Outcomes
<1> QED
  BY <1>1, ConsoleCorrect, PTL
-----------------------------------------------------------------------------
(***************************************************************************)
(* Roles                                                                   *)
(***************************************************************************)
HistTypes ==
    /\ saw \in [Reqs -> Nat]
    /\ answer \in [Reqs -> SUBSET Projects] /\ held \in [Reqs -> SUBSET Projects]

\* What a request has established about its user it has established while it
\* ran: the roles of this moment are among those held, the project a request
\* writes to or reads has passed, and who was seen to be an admin held all.
Established(q) ==
    /\ at[q] \in {"write", "audit", "auditCommit", "issues"} => op[q].project \in held[q]
    /\ at[q] \in {"list", "project"} /\ saw[q] = 1 => Projects \subseteq held[q]

AccessInv ==
    /\ HistTypes
    /\ \A q \in Reqs : (InFlight(q) => Allowed(q) \subseteq held[q]) /\ Established(q)
    /\ AccessWasHeld

\* The ranks of the roles.
LEMMA Ranks ==
    /\ roleRank["none"] = 0 /\ roleRank["viewer"] = 1
    /\ roleRank["editor"] = 2 /\ roleRank["admin"] = 3
BY DEF roleRank

\* An admin is allowed everything, a member what the role allows.
LEMMA AllowedFacts ==
    ASSUME ReqInv, ConsoleTypes, NEW q \in Reqs, op[q].kind \in ApiKinds
    PROVE  /\ global[op[q].user] = "admin" => Allowed(q) = Projects
           /\ \A p \in Projects :
                 /\ op[q].kind # "PutIssueHandler" /\ members[p][op[q].user] # "none"
                       => p \in Allowed(q)
                 /\ op[q].kind = "PutIssueHandler" /\ RequireRole(members[p][op[q].user], "editor")
                       => p \in Allowed(q)
<1>1. op[q].user \in Users /\ op[q].user # NoUser
  BY Named, AdminAssumption
<1>2. Allowed(q) = {p \in Projects : roleRank[Role(op[q].user, p)] >= roleRank[Needed(op[q])]}
  BY <1>1 DEF Allowed
<1>3. roleRank[Needed(op[q])] = IF op[q].kind = "PutIssueHandler" THEN 2 ELSE 1
  BY Ranks DEF Needed
<1>4. ASSUME NEW p \in Projects
      PROVE  /\ Role(op[q].user, p) =
                   IF global[op[q].user] = "admin" THEN "admin" ELSE members[p][op[q].user]
             /\ members[p][op[q].user] \in {"none", "viewer", "editor", "admin"}
  BY <1>1, <1>4 DEF Role, ConsoleTypes, Roles
<1>5. ASSUME global[op[q].user] = "admin" PROVE Allowed(q) = Projects
  <2>1. \A p \in Projects : roleRank[Role(op[q].user, p)] = 3
    BY <1>4, <1>5, Ranks
  <2> QED
    BY <1>2, <1>3, <2>1
<1>6. ASSUME NEW p \in Projects, op[q].kind # "PutIssueHandler", members[p][op[q].user] # "none"
      PROVE  p \in Allowed(q)
  <2>1. roleRank[Role(op[q].user, p)] \in {1, 2, 3}
    BY <1>4, <1>6, Ranks
  <2> QED
    BY <1>2, <1>3, <1>6, <2>1
<1>7. ASSUME NEW p \in Projects, op[q].kind = "PutIssueHandler",
             RequireRole(members[p][op[q].user], "editor")
      PROVE  p \in Allowed(q)
  <2>1. roleRank[members[p][op[q].user]] >= 2
    BY <1>7, Ranks DEF RequireRole
  <2>2. roleRank[Role(op[q].user, p)] >= 2
    BY <1>4, <2>1, Ranks
  <2> QED
    BY <1>2, <1>3, <1>7, <2>2
<1> QED
  BY <1>5, <1>6, <1>7

\* What a step of request q establishes was held before the step.
StepHeld(q) ==
    /\ at'[q] \in {"write", "audit", "auditCommit", "issues"} => op'[q].project \in held[q]
    /\ at'[q] \in {"list", "project"} /\ saw'[q] = 1 => Projects \subseteq held[q]
    /\ answer'[q] \subseteq held[q] /\ answer'[q] \subseteq Projects
    /\ saw'[q] \in Nat

\* The step leaves request q alone.
Stays(q) == at'[q] = at[q] /\ op'[q] = op[q] /\ saw'[q] = saw[q] /\ answer'[q] = answer[q]

\* The steps of the API handlers.
LEMMA ApiHeld ==
    ASSUME ReqInv, ConsoleTypes, AccessInv, rowId \in Nat, NEW q \in Reqs, Api(q)
    PROVE  /\ StepHeld(q) /\ \A x \in Reqs \ {q} : Stays(x)
           /\ saw' \in [Reqs -> Nat] /\ answer' \in [Reqs -> SUBSET Projects]
<1>1. /\ at \in [Reqs -> Steps] /\ op' = op /\ op[q].kind \in ApiKinds /\ op[q].user \in Users
      /\ InFlight(q) /\ \A x \in Reqs \ {q} : at'[x] = at[x]
      /\ Fits(at[q], op[q].kind)
  BY ApiMoves, HandlerSteps, Named DEF Moves, ReqInv
<1>2. /\ saw \in [Reqs -> Nat] /\ answer \in [Reqs -> SUBSET Projects]
      /\ held[q] \subseteq Projects /\ Allowed(q) \subseteq held[q] /\ Established(q)
      /\ answer[q] \subseteq held[q]
  BY <1>1 DEF AccessInv, HistTypes, AccessWasHeld
<1>3. CASE ReadGlobalRole(q)
  <2>1. /\ answer' = answer /\ at[q] = "globalRole"
        /\ \/ /\ at'[q] = SecondStep(op[q], global[op[q].user] = "admin")
              /\ saw' = [saw EXCEPT ![q] = IF global[op[q].user] = "admin" THEN 1 ELSE 0]
           \/ at'[q] = "failed" /\ saw' = saw
    BY <1>1, <1>3 DEF ReadGlobalRole, Goto
  <2>2. /\ saw' \in [Reqs -> Nat] /\ \A x \in Reqs \ {q} : saw'[x] = saw[x]
        /\ at'[q] # "failed" /\ saw'[q] = 1 => global[op[q].user] = "admin"
    BY <1>2, <2>1 DEF SecondStep
  <2>3. at'[q] \in {"write", "audit", "auditCommit", "issues"} =>
           global[op[q].user] = "admin" /\ op[q].kind = "PutIssueHandler"
    BY <1>1, <2>1 DEF SecondStep, ApiKinds
  <2>4. global[op[q].user] = "admin" => Projects \subseteq held[q]
    BY <1>1, <1>2, AllowedFacts
  <2>5. op[q].kind = "PutIssueHandler" => op[q].project \in Projects
    BY Named
  <2> QED
    BY <1>1, <1>2, <2>1, <2>2, <2>3, <2>4, <2>5 DEF StepHeld, Stays
<1>4. CASE ReadMemberRole(q)
  <2>1. /\ UNCHANGED <<saw, answer>> /\ at[q] = "role"
        /\ at'[q] \in {"write", "refused", "failed"}
        /\ at'[q] = "write" => RequireRole(members[op[q].project][op[q].user], "editor")
    BY <1>1, <1>4 DEF ReadMemberRole, Goto
  <2>2. op[q].kind = "PutIssueHandler" /\ op[q].project \in Projects
    BY <1>1, <2>1, Named DEF Fits
  <2>3. at'[q] = "write" => op[q].project \in held[q]
    BY <1>1, <1>2, <2>1, <2>2, AllowedFacts
  <2> QED
    BY <1>1, <1>2, <2>1, <2>3 DEF StepHeld, Stays
<1>5. CASE CommitFile(q) \/ DrawRowId(q) \/ WriteAuditLog(q)
  <2>1. /\ at[q] \in {"write", "audit", "auditCommit"}
        /\ at'[q] \in {"audit", "auditCommit", "ok", "failed"}
        /\ answer' \in {answer, [answer EXCEPT ![q] = {op[q].project}]}
        /\ saw' \in {saw, [saw EXCEPT ![q] = rowId + 1]}
    BY <1>1, <1>5 DEF CommitFile, DrawRowId, WriteAuditLog, Goto
  <2>2. op[q].project \in held[q]
    BY <1>2, <2>1 DEF Established
  <2> QED
    BY <1>1, <1>2, <2>1, <2>2 DEF StepHeld, Stays
<1>6. ASSUME at[q] \in {"list", "project"}, op[q].kind # "PutIssueHandler"
      PROVE  Listed(q) \subseteq held[q]
  <2> SUFFICES ASSUME NEW p \in Projects, saw[q] = 1 \/ members[p][op[q].user] # "none"
               PROVE  p \in held[q]
    BY DEF Listed
  <2>1. CASE saw[q] = 1
    BY <1>2, <1>6, <2>1 DEF Established
  <2>2. CASE members[p][op[q].user] # "none"
    BY <1>1, <1>2, <1>6, <2>2, AllowedFacts
  <2> QED
    BY <2>1, <2>2
<1>7. CASE ProjectsForUser(q) /\ op[q].kind # "PutIssueHandler"
  <2>1. /\ at[q] = "list" /\ at'[q] \in {"ok", "failed"} /\ saw' = saw
        /\ answer' \in {answer, [answer EXCEPT ![q] = Listed(q)]}
    BY <1>1, <1>7 DEF ProjectsForUser, Goto
  <2>2. Listed(q) \subseteq held[q]
    BY <1>6, <1>7, <2>1
  <2> QED
    BY <1>1, <1>2, <2>1, <2>2 DEF StepHeld, Stays
<1>8. CASE ProjectByID(q) /\ op[q].kind # "PutIssueHandler"
  <2>1. /\ at[q] = "project" /\ at'[q] \in {"issues", "ok", "refused", "failed"} /\ saw' = saw
        /\ answer' # answer => answer' = [answer EXCEPT ![q] = {op[q].project}]
        /\ at'[q] = "issues" \/ answer' # answer => op[q].project \in Listed(q)
    BY <1>1, <1>8 DEF ProjectByID, Goto
  <2>2. Listed(q) \subseteq held[q]
    BY <1>6, <1>8, <2>1
  <2> QED
    BY <1>1, <1>2, <2>1, <2>2 DEF StepHeld, Stays
<1>9. CASE IssuesForProject(q)
  <2>1. /\ at[q] = "issues" /\ at'[q] \in {"ok", "failed"} /\ saw' = saw
        /\ answer' \in {answer, [answer EXCEPT ![q] = {op[q].project}]}
    BY <1>1, <1>9 DEF IssuesForProject, Goto
  <2>2. op[q].project \in held[q]
    BY <1>2, <2>1 DEF Established
  <2> QED
    BY <1>1, <1>2, <2>1, <2>2 DEF StepHeld, Stays
<1> QED
  BY <1>3, <1>4, <1>5, <1>7, <1>8, <1>9
  DEF Api, FoldersHandler, HostHandler, FolderByIDHandler, IssuesHandler, PutIssueHandler

\* The other steps answer nothing and establish nothing.
LEMMA OthersHeld ==
    ASSUME ReqInv, AccessInv, IsFiniteSet(auditLog), [Next]_vars, ~\E q \in Reqs : Api(q)
    PROVE  /\ saw' \in [Reqs -> Nat] /\ answer' = answer
           /\ \A q \in Reqs : \/ at'[q] = at[q] /\ op'[q] = op[q] /\ saw'[q] = saw[q]
                              \/ at'[q] \notin {"write", "audit", "auditCommit", "issues", "list",
                                               "project"}
<1>0. at \in [Reqs -> Steps] /\ op \in [Reqs -> Ops] /\ saw \in [Reqs -> Nat]
  BY DEF ReqInv, AccessInv, HistTypes
<1>1. ASSUME NEW q \in Reqs, Console(q) \/ SessionStep(q)
      PROVE  /\ at'[q] \notin {"write", "audit", "auditCommit", "issues", "list", "project"}
             /\ \A x \in Reqs \ {q} : at'[x] = at[x] /\ op'[x] = op[x]
  <2>1. Moves(q)
    BY <1>1, ConsoleMoves, SessionMoves
  <2>2. op[q].kind \notin ApiKinds
    <3>1. CASE Console(q)
      BY <3>1, HandlerSteps DEF ConsoleKinds, ApiKinds, ProjectForms, Listings, ProjectReads
    <3>2. CASE SessionStep(q)
      <4>1. at[q] \in {"validate", "touch", "revoke", "findSession", "logout", "select", "rotate"}
        BY <3>2 DEF SessionStep, RequireWebAuth, ValidateWebSession, Touch, postUserSessionRevoke,
           postSessionRevoke, RevokeTarget, FindSession, postLogout, SelectByToken,
           RotateRefreshToken, Goto
      <4> QED
        BY <4>1 DEF ReqInv, Fits, ConsoleKinds, ApiKinds, ProjectForms, Listings, ProjectReads
    <3> QED
      BY <1>1, <3>1, <3>2
  <2>3. Fits(at'[q], op[q].kind) /\ \A x \in Reqs \ {q} : at'[x] = at[x] /\ op'[x] = op[x]
    BY <1>0, <2>1 DEF Moves
  <2> QED
    BY <2>2, <2>3 DEF Fits, ApiKinds, Listings, ProjectReads
<1>2. ASSUME NEW q \in Reqs, Console(q)
      PROVE  /\ answer' = answer /\ saw' \in [Reqs -> Nat]
             /\ \A x \in Reqs \ {q} : saw'[x] = saw[x]
  <2>1. /\ answer' = answer /\ saw' \in {saw, [saw EXCEPT ![q] = Cardinality(auditLog)]}
    BY <1>2 DEF Console, ProjectBySlug, postProjects, postProject, postProjectArchive, postMembers,
       postMemberRole, postMemberRemove, RemoveProjectMember, BroadcastAccessRevoked, CountRows,
       getAudit, Show, formUnchanged, auditUnchanged
  <2>2. Cardinality(auditLog) \in Nat
    BY FS_CardinalityType
  <2> QED
    BY <1>0, <2>1, <2>2
<1>3. ASSUME NEW q \in Reqs, NEW o \in Ops, Receive(q, o)
      PROVE  /\ UNCHANGED <<saw, answer>>
             /\ at'[q] \notin {"write", "audit", "auditCommit", "issues", "list", "project"}
             /\ \A x \in Reqs \ {q} : at'[x] = at[x] /\ op'[x] = op[x]
  BY <1>0, <1>3 DEF Receive, Goto, FirstStep
<1>4. CASE UNCHANGED <<at, op, saw, answer>>
  BY <1>0, <1>4
<1>5. ASSUME NEW q \in Reqs, SessionStep(q), UNCHANGED <<saw, answer>>
      PROVE  /\ saw' \in [Reqs -> Nat] /\ answer' = answer
             /\ \A x \in Reqs : \/ at'[x] = at[x] /\ op'[x] = op[x] /\ saw'[x] = saw[x]
                                \/ at'[x] \notin {"write", "audit", "auditCommit", "issues", "list",
                                                  "project"}
  BY <1>0, <1>1, <1>5
<1>6. ASSUME NEW q \in Reqs, Console(q)
      PROVE  /\ saw' \in [Reqs -> Nat] /\ answer' = answer
             /\ \A x \in Reqs : \/ at'[x] = at[x] /\ op'[x] = op[x] /\ saw'[x] = saw[x]
                                \/ at'[x] \notin {"write", "audit", "auditCommit", "issues", "list",
                                                  "project"}
  BY <1>0, <1>1, <1>2, <1>6
<1>7. ASSUME NEW q \in Reqs, NEW o \in Ops, Receive(q, o)
      PROVE  /\ saw' \in [Reqs -> Nat] /\ answer' = answer
             /\ \A x \in Reqs : \/ at'[x] = at[x] /\ op'[x] = op[x] /\ saw'[x] = saw[x]
                                \/ at'[x] \notin {"write", "audit", "auditCommit", "issues", "list",
                                                  "project"}
  BY <1>0, <1>3, <1>7
<1> QED
  BY <1>4, <1>5, <1>6, <1>7
  DEF Next, vars, histVars, IssueNativeSession, GraceEnds, Expire, ChangeGlobalRole

\* Observe adds what the users hold now.
LEMMA HeldGrows ==
    ASSUME AccessInv, [Next]_vars
    PROVE  /\ held' \in [Reqs -> SUBSET Projects]
           /\ \A q \in Reqs : /\ held[q] \subseteq held'[q]
                              /\ InFlight(q)' => Allowed(q)' \subseteq held'[q]
<1>0. \A q \in Reqs : held[q] \subseteq Projects
  BY DEF AccessInv, HistTypes
<1>1. CASE Observe
  <2>1. \A q \in Reqs : Allowed(q)' \subseteq Projects
    BY DEF Allowed
  <2>2. held' = [q \in Reqs |-> IF at'[q] \in {"idle"} \cup Outcomes THEN held[q]
                               ELSE held[q] \cup Allowed(q)']
    BY <1>1 DEF Observe
  <2> QED
    BY <1>0, <2>1, <2>2 DEF InFlight
<1>2. CASE UNCHANGED vars
  <2>1. UNCHANGED <<held, at, op, members, global>>
    BY <1>2 DEF vars, histVars, consoleVars
  <2>2. \A q \in Reqs : InFlight(q)' = InFlight(q) /\ Allowed(q)' = Allowed(q)
    BY <2>1 DEF InFlight, Allowed, Role, Needed
  <2> QED
    BY <2>1, <2>2 DEF AccessInv, HistTypes
<1> QED
  BY <1>1, <1>2 DEF Next

\* Every step keeps what was established and answers only what was held.
LEMMA NextAccess ==
    ASSUME ReqInv, ConsoleTypes, AccessInv, rowId \in Nat, IsFiniteSet(auditLog), [Next]_vars
    PROVE  AccessInv'
<1>1. /\ \A q \in Reqs : StepHeld(q)
      /\ saw' \in [Reqs -> Nat] /\ answer' \in [Reqs -> SUBSET Projects]
  <2>0. \A q \in Reqs : /\ answer[q] \subseteq held[q] /\ answer[q] \subseteq Projects
                        /\ saw[q] \in Nat /\ Established(q)
    BY DEF AccessInv, HistTypes, AccessWasHeld
  <2>1. ASSUME NEW q \in Reqs, Stays(q) PROVE StepHeld(q)
    BY <2>0, <2>1 DEF Stays, StepHeld, Established
  <2>2. ASSUME NEW q \in Reqs, Api(q)
        PROVE  /\ \A x \in Reqs : StepHeld(x)
               /\ saw' \in [Reqs -> Nat] /\ answer' \in [Reqs -> SUBSET Projects]
    BY <2>1, <2>2, ApiHeld
  <2>3. ASSUME ~\E q \in Reqs : Api(q)
        PROVE  /\ \A x \in Reqs : StepHeld(x)
               /\ saw' \in [Reqs -> Nat] /\ answer' \in [Reqs -> SUBSET Projects]
    <3>1. /\ saw' \in [Reqs -> Nat] /\ answer' = answer
          /\ \A q \in Reqs : \/ at'[q] = at[q] /\ op'[q] = op[q] /\ saw'[q] = saw[q]
                             \/ at'[q] \notin {"write", "audit", "auditCommit", "issues", "list",
                                              "project"}
      BY <2>3, OthersHeld
    <3>2. ASSUME NEW q \in Reqs PROVE StepHeld(q)
      BY <2>0, <2>1, <3>1, <3>2 DEF Stays, StepHeld
    <3> QED
      BY <3>1, <3>2 DEF AccessInv, HistTypes
  <2> QED
    BY <2>2, <2>3
<1>2. /\ held' \in [Reqs -> SUBSET Projects]
      /\ \A q \in Reqs : /\ held[q] \subseteq held'[q]
                         /\ InFlight(q)' => Allowed(q)' \subseteq held'[q]
  BY HeldGrows
<1>3. HistTypes'
  BY <1>1, <1>2 DEF HistTypes
<1>4. \A q \in Reqs : Established(q)'
  BY <1>1, <1>2 DEF StepHeld, Established
<1>5. AccessWasHeld'
  BY <1>1, <1>2 DEF StepHeld, AccessWasHeld
<1> QED
  BY <1>2, <1>3, <1>4, <1>5 DEF AccessInv
-----------------------------------------------------------------------------
(***************************************************************************)
(* The audit log                                                           *)
(***************************************************************************)
WalkType == [page : Nat, base : SUBSET (1..MaxRows), seen : SUBSET (1..MaxRows),
             hidden : SUBSET (1..MaxRows), ended : BOOLEAN, moved : BOOLEAN]

AuditTypes ==
    /\ rowId \in 0..MaxRows /\ auditLog \subseteq 1..rowId
    /\ walk \in WalkType
    /\ \A q \in Reqs : at[q] = "auditCommit" => saw[q] \in 1..rowId

\* A request for a page of the audit log.
Paging(q) == op[q].kind = "getAudit" /\ InFlight(q)

\* One page is asked for at a time and none after the last; the rows of the
\* start remain in the log, and each has been shown, was hidden by an error or
\* is still ahead.
WalkInv ==
    /\ \A q \in Reqs : Paging(q) => walk.ended = FALSE
    /\ \A q, r \in Reqs : Paging(q) /\ Paging(r) => q = r
    /\ walk.base \subseteq auditLog
    /\ WalkSkipsNothing
    /\ WalkIsComplete

\* The log is finite.
LEMMA AuditFinite ==
    ASSUME rowId \in 0..MaxRows, auditLog \subseteq 1..rowId
    PROVE  IsFiniteSet(auditLog) /\ Cardinality(auditLog) \in Nat /\ rowId \in Nat
<1>1. rowId \in Nat /\ MaxRows \in Nat
  BY AdminAssumption
<1>2. IsFiniteSet(1..rowId)
  BY <1>1, FS_Interval
<1>3. IsFiniteSet(auditLog)
  BY <1>2, FS_Subset
<1> QED
  BY <1>1, <1>3, FS_CardinalityType

\* The place of a row is between 1 and the number of rows.
LEMMA RankFacts ==
    ASSUME IsFiniteSet(auditLog), NEW i
    PROVE  /\ Rank(i) \in Nat /\ Rank(i) <= Cardinality(auditLog)
           /\ i \in auditLog /\ i \in Nat => Rank(i) >= 1
<1> DEFINE S == {j \in auditLog : j >= i}
<1>1. /\ IsFiniteSet(S) /\ Cardinality(S) <= Cardinality(auditLog) /\ Rank(i) = Cardinality(S)
  BY FS_Subset DEF Rank
<1>2. Cardinality(S) \in Nat
  BY <1>1, FS_CardinalityType
<1>3. ASSUME i \in auditLog, i \in Nat PROVE Cardinality(S) # 0
  <2>1. i \in S
    BY <1>3
  <2>2. S # {}
    BY <2>1
  <2> QED
    BY <1>1, <2>2, FS_EmptySet
<1> QED
  BY <1>1, <1>2, <1>3

\* Rows that are added push a row back, never forward.
LEMMA RankGrows ==
    ASSUME auditLog \subseteq auditLog', IsFiniteSet(auditLog'), NEW i
    PROVE  Rank(i)' \in Nat /\ Rank(i) \in Nat /\ Rank(i) <= Rank(i)'
<1> DEFINE S == {j \in auditLog : j >= i}
           T == {j \in auditLog' : j >= i}
<1>1. S \in SUBSET T /\ T \in SUBSET auditLog'
  OBVIOUS
<1>2. IsFiniteSet(T)
  BY <1>1, FS_Subset
<1>3. IsFiniteSet(S) /\ Cardinality(S) <= Cardinality(T)
  BY <1>1, <1>2, FS_Subset
<1>4. Cardinality(T) \in Nat /\ Cardinality(S) \in Nat
  BY <1>2, <1>3, FS_CardinalityType
<1> QED
  BY <1>3, <1>4 DEF Rank

\* totalPages rounds up: as many pages hold all the rows.
LEMMA PagesHoldAll ==
    ASSUME NEW total \in Nat, NEW n \in Nat, n >= 1, n >= totalPages(total)
    PROVE  total <= n * PageSize
<1>0. PageSize \in Nat /\ PageSize >= 1
  BY AdminAssumption
<1>1. CASE total = 0
  <2>1. \A a, b \in Nat : 0 <= a * b
    OBVIOUS
  <2> QED
    BY <1>0, <1>1, <2>1
<1>2. CASE total # 0
  <2> DEFINE a == total + PageSize - 1
             k == a \div PageSize
  <2>1. totalPages(total) = k /\ a \in Nat
    BY <1>0, <1>2 DEF totalPages
  <2>2. k \in Nat /\ a < (k + 1) * PageSize
    BY <1>0, <2>1
  <2>3. (k + 1) * PageSize = k * PageSize + PageSize
    BY <1>0, <2>2
  <2>4. k * PageSize \in Nat
    BY <1>0, <2>2
  <2>5. total <= k * PageSize
    BY <1>0, <2>1, <2>2, <2>3, <2>4
  <2>6. k * PageSize <= n * PageSize
    BY <1>0, <2>1, <2>2
  <2>7. n * PageSize \in Nat
    BY <1>0
  <2> QED
    BY <2>4, <2>5, <2>6, <2>7
<1> QED
  BY <1>1, <1>2

\* Steps that show no page: rows may be added.
LEMMA WalkStays ==
    ASSUME AuditTypes, WalkInv, walk' = walk, auditLog \subseteq auditLog', AuditTypes'
    PROVE  /\ walk'.base \subseteq auditLog' /\ WalkSkipsNothing' /\ WalkIsComplete'
<1>1. IsFiniteSet(auditLog')
  <2>1. rowId' \in 0..MaxRows /\ auditLog' \subseteq 1..rowId'
    BY DEF AuditTypes
  <2>2. rowId' \in Nat /\ rowId' \in Int
    BY <2>1, AdminAssumption
  <2>3. IsFiniteSet(1..rowId')
    BY <2>2, FS_Interval
  <2> QED
    BY <2>1, <2>3, FS_Subset
<1>2. WalkSkipsNothing'
  <2> SUFFICES ASSUME NEW i \in walk.base
               PROVE  i \in walk.seen \cup walk.hidden \/ Rank(i)' > walk.page * PageSize
    BY DEF WalkSkipsNothing
  <2>1. i \in walk.seen \cup walk.hidden \/ Rank(i) > walk.page * PageSize
    BY DEF WalkInv, WalkSkipsNothing
  <2>2. Rank(i)' \in Nat /\ Rank(i) \in Nat /\ Rank(i) <= Rank(i)'
    BY <1>1, RankGrows
  <2>3. walk.page * PageSize \in Nat
    BY AdminAssumption DEF AuditTypes, WalkType
  <2> QED
    BY <2>1, <2>2, <2>3
<1> QED
  BY <1>2 DEF WalkInv, WalkIsComplete

\* A record with fields of the right types is a walk.
LEMMA WalkRecord ==
    ASSUME NEW p \in Nat, NEW b \in SUBSET (1..MaxRows), NEW s \in SUBSET (1..MaxRows),
           NEW h \in SUBSET (1..MaxRows), NEW e \in BOOLEAN, NEW m \in BOOLEAN
    PROVE  [page |-> p, base |-> b, seen |-> s, hidden |-> h, ended |-> e, moved |-> m]
             \in WalkType
  BY DEF WalkType

\* A page is shown, with some of its rows and some total.
LEMMA PageShown ==
    ASSUME AuditTypes, WalkInv, NEW q \in Reqs, NEW from, UNCHANGED auditLog,
           NEW rows \in SUBSET Page(walk.page + 1), NEW total \in Nat,
           Show(q, from, rows, total)
    PROVE  /\ walk' \in WalkType
           /\ walk'.base \subseteq auditLog' /\ WalkSkipsNothing' /\ WalkIsComplete'
<1> DEFINE n == walk.page + 1
<1>0. /\ IsFiniteSet(auditLog) /\ Cardinality(auditLog) \in Nat /\ rowId \in Nat
      /\ auditLog \subseteq 1..MaxRows
  <2>1. rowId <= MaxRows /\ MaxRows \in Nat
    BY AdminAssumption DEF AuditTypes
  <2> QED
    BY <2>1, AuditFinite DEF AuditTypes
<1>1. /\ walk.page \in Nat /\ n \in Nat /\ n >= 1 /\ n - 1 = walk.page
      /\ PageSize \in Nat /\ n * PageSize \in Nat /\ walk.page * PageSize \in Nat
  BY AdminAssumption DEF AuditTypes, WalkType
<1>2. /\ walk'.page = n /\ walk'.base = (IF n = 1 THEN auditLog ELSE walk.base)
      /\ walk'.seen = walk.seen \cup rows /\ walk'.hidden = walk.hidden \cup (Page(n) \ rows)
      /\ walk'.ended = (n >= totalPages(total)) /\ walk'.moved = (total # Cardinality(auditLog))
  BY DEF Show
<1>3. Page(n) \subseteq auditLog
  BY DEF Page
<1>4. walk' \in WalkType
  <2>1. /\ walk.base \subseteq 1..MaxRows /\ walk.seen \subseteq 1..MaxRows
        /\ walk.hidden \subseteq 1..MaxRows
    BY DEF AuditTypes, WalkType
  <2>2. Page(n) \subseteq 1..MaxRows
    BY <1>0, <1>3
  <2> DEFINE B == IF n = 1 THEN auditLog ELSE walk.base
             S == walk.seen \cup rows
             H == walk.hidden \cup (Page(n) \ rows)
             E == n >= totalPages(total)
             M == total # Cardinality(auditLog)
  <2>3. B \in SUBSET (1..MaxRows)
    BY <1>0, <2>1
  <2>4. S \in SUBSET (1..MaxRows) /\ H \in SUBSET (1..MaxRows)
    BY <2>1, <2>2
  <2>5. E \in BOOLEAN /\ M \in BOOLEAN
    OBVIOUS
  <2>6. walk' = [page |-> n, base |-> B, seen |-> S, hidden |-> H, ended |-> E, moved |-> M]
    BY DEF Show
  <2> HIDE DEF n, B, S, H, E, M
  <2> QED
    BY <1>1, <2>3, <2>4, <2>5, <2>6, WalkRecord
<1>5. walk'.base \subseteq auditLog
  BY <1>2 DEF WalkInv
<1>6. ASSUME NEW i \in walk'.base
      PROVE  i \in walk'.seen \cup walk'.hidden \/ Rank(i)' > n * PageSize
  <2>1. i \in auditLog /\ i \in Nat
    <3>1. i \in auditLog
      BY <1>5
    <3>2. i \in 1..MaxRows
      BY <1>0, <3>1
    <3>3. MaxRows \in Nat
      BY AdminAssumption
    <3> QED
      BY <3>1, <3>2, <3>3
  <2>2. Rank(i) \in Nat /\ Rank(i) >= 1 /\ Rank(i)' = Rank(i)
    BY <1>0, <2>1, RankFacts DEF Rank
  <2>3. i \in walk.seen \cup walk.hidden \/ Rank(i) > walk.page * PageSize
    <3>1. CASE n = 1
      <4>1. walk.page = 0
        BY <1>1, <3>1
      <4>2. walk.page * PageSize = 0
        BY <1>1, <4>1
      <4> QED
        BY <2>2, <4>2
    <3>2. CASE n # 1
      BY <1>2, <3>2 DEF WalkInv, WalkSkipsNothing
    <3> QED
      BY <3>1, <3>2
  <2>4. Rank(i) > walk.page * PageSize /\ Rank(i) <= n * PageSize => i \in Page(n)
    BY <1>1, <2>1 DEF Page
  <2> QED
    BY <1>1, <1>2, <2>2, <2>3, <2>4
<1>7. WalkSkipsNothing'
  BY <1>2, <1>6 DEF WalkSkipsNothing
<1>8. WalkIsComplete'
  <2> SUFFICES ASSUME n >= totalPages(total), total = Cardinality(auditLog),
                      NEW i \in walk'.base
               PROVE  i \in walk'.seen \cup walk'.hidden
    BY <1>2 DEF WalkIsComplete
  <2>1. Cardinality(auditLog) <= n * PageSize
    BY <1>1, PagesHoldAll
  <2>2. Rank(i)' \in Nat /\ Rank(i)' <= Cardinality(auditLog)
    BY <1>0, RankFacts DEF Rank
  <2> QED
    BY <1>0, <1>1, <1>6, <2>1, <2>2
<1> QED
  BY <1>4, <1>5, <1>7, <1>8

\* What a step does to the log.
LogStep ==
    /\ rowId' \in 0..MaxRows /\ auditLog' \subseteq 1..rowId' /\ auditLog \subseteq auditLog'
    /\ rowId <= rowId'
    /\ \A q \in Reqs : at'[q] = "auditCommit" =>
          (at[q] = "auditCommit" /\ saw'[q] = saw[q]) \/ saw'[q] \in 1..rowId'

\* A row is drawn, a row is committed, or the log stays.
LEMMA NextLog ==
    ASSUME ReqInv, AuditTypes, HistTypes, [Next]_vars
    PROVE  LogStep
<1>0. /\ at \in [Reqs -> Steps] /\ saw \in [Reqs -> Nat] /\ rowId \in Nat /\ MaxRows \in Nat
  BY AuditFinite, AdminAssumption DEF ReqInv, AuditTypes, HistTypes
<1>1. ASSUME UNCHANGED <<rowId, auditLog>>,
             \A q \in Reqs : at'[q] = "auditCommit" => at[q] = "auditCommit" /\ saw'[q] = saw[q]
      PROVE  LogStep
  BY <1>0, <1>1 DEF AuditTypes, LogStep
<1>2. ASSUME NEW q \in Reqs, DrawRowId(q) PROVE LogStep
  <2>1. /\ rowId < MaxRows /\ rowId' = rowId + 1 /\ auditLog' = auditLog
        /\ saw' = [saw EXCEPT ![q] = rowId + 1] /\ at' = [at EXCEPT ![q] = "auditCommit"]
    BY <1>2 DEF DrawRowId, Goto
  <2>2. /\ saw'[q] = rowId + 1 /\ \A x \in Reqs \ {q} : saw'[x] = saw[x] /\ at'[x] = at[x]
    BY <1>0, <2>1
  <2>3. /\ rowId' \in 0..MaxRows /\ rowId <= rowId' /\ saw'[q] \in 1..rowId'
        /\ 1..rowId \subseteq 1..rowId'
    BY <1>0, <2>1, <2>2
  <2> QED
    BY <2>1, <2>2, <2>3 DEF AuditTypes, LogStep
<1>3. ASSUME NEW q \in Reqs, WriteAuditLog(q) PROVE LogStep
  <2>1. /\ at[q] = "auditCommit" /\ at' = [at EXCEPT ![q] = "ok"] /\ UNCHANGED <<saw, rowId>>
        /\ auditLog' \in {auditLog, auditLog \cup {saw[q]}}
    BY <1>3 DEF WriteAuditLog, Goto
  <2>2. saw[q] \in 1..rowId
    BY <2>1 DEF AuditTypes
  <2>3. \A x \in Reqs : at'[x] = "auditCommit" => at[x] = "auditCommit"
    BY <1>0, <2>1
  <2> QED
    BY <1>0, <2>1, <2>2, <2>3 DEF AuditTypes, LogStep
<1>4. ASSUME NEW q \in Reqs, Api(q), ~DrawRowId(q), ~WriteAuditLog(q) PROVE LogStep
  <2>1. /\ UNCHANGED <<rowId, auditLog>> /\ at'[q] # "auditCommit"
        /\ \A x \in Reqs \ {q} : at'[x] = at[x] /\ saw'[x] = saw[x]
    <3>1. CASE ReadGlobalRole(q)
      BY <1>0, <3>1 DEF ReadGlobalRole, SecondStep, Goto
    <3>2. CASE ReadMemberRole(q) \/ CommitFile(q) \/ ProjectsForUser(q) \/ ProjectByID(q)
               \/ IssuesForProject(q)
      BY <1>0, <3>2 DEF ReadMemberRole, CommitFile, ProjectsForUser, ProjectByID,
                        IssuesForProject, Goto
    <3> QED
      BY <1>4, <3>1, <3>2 DEF Api, FoldersHandler, HostHandler, FolderByIDHandler, IssuesHandler,
                              PutIssueHandler
  <2> QED
    BY <1>1, <2>1
<1>5. ASSUME NEW q \in Reqs, Console(q) \/ SessionStep(q), UNCHANGED <<rowId, auditLog>>,
             \A x \in Reqs \ {q} : saw'[x] = saw[x]
      PROVE  LogStep
  <2>1. Moves(q) /\ op[q].kind # "PutIssueHandler"
    <3>1. CASE Console(q)
      BY <3>1, ConsoleMoves, HandlerSteps DEF ConsoleKinds, ProjectForms
    <3>2. CASE SessionStep(q)
      <4>1. at[q] \in {"validate", "touch", "revoke", "findSession", "logout", "select", "rotate"}
        BY <3>2 DEF SessionStep, RequireWebAuth, ValidateWebSession, Touch, postUserSessionRevoke,
           postSessionRevoke, RevokeTarget, FindSession, postLogout, SelectByToken,
           RotateRefreshToken, Goto
      <4> QED
        BY <3>2, <4>1, SessionMoves DEF ReqInv, Fits, ConsoleKinds, ProjectForms
    <3> QED
      BY <1>5, <3>1, <3>2
  <2>2. at'[q] # "auditCommit" /\ \A x \in Reqs \ {q} : at'[x] = at[x]
    BY <1>0, <2>1 DEF Moves, Fits
  <2> QED
    BY <1>1, <1>5, <2>2
<1>6. ASSUME NEW q \in Reqs, Console(q)
      PROVE  UNCHANGED <<rowId, auditLog>> /\ \A x \in Reqs \ {q} : saw'[x] = saw[x]
  <2>1. /\ UNCHANGED <<rowId, auditLog>> /\ saw' \in {saw, [saw EXCEPT ![q] = Cardinality(auditLog)]}
    BY <1>6 DEF Console, ProjectBySlug, postProjects, postProject, postProjectArchive, postMembers,
       postMemberRole, postMemberRemove, RemoveProjectMember, BroadcastAccessRevoked, CountRows,
       getAudit, Show, formUnchanged, auditUnchanged, consoleVars
  <2> QED
    BY <1>0, <2>1
<1>7. ASSUME NEW q \in Reqs, NEW o \in Ops, Receive(q, o) PROVE LogStep
  <2>1. /\ at'[q] # "auditCommit" /\ \A x \in Reqs \ {q} : at'[x] = at[x]
        /\ UNCHANGED <<rowId, auditLog, saw>>
    BY <1>0, <1>7 DEF Receive, Goto, FirstStep, consoleVars
  <2> QED
    BY <1>1, <2>1
<1>8. CASE UNCHANGED <<at, rowId, auditLog, saw>>
  BY <1>1, <1>8
<1> QED
  BY <1>2, <1>3, <1>4, <1>5, <1>6, <1>7, <1>8
  DEF Next, vars, consoleVars, IssueNativeSession, GraceEnds, Expire, ChangeGlobalRole

\* The walk changes only where a page is shown.
LEMMA WalkSteps ==
    ASSUME [Next]_vars
    PROVE  walk' = walk \/ \E q \in Reqs : CountRows(q) \/ getAudit(q)
BY DEF Next, vars, Receive, ChangeGlobalRole, Console, ProjectBySlug, postProjects, postProject,
   postProjectArchive, postMembers, postMemberRole, postMemberRemove, RemoveProjectMember,
   BroadcastAccessRevoked, formUnchanged, Api, FoldersHandler, HostHandler,
   FolderByIDHandler, IssuesHandler, PutIssueHandler, ReadGlobalRole, ReadMemberRole, CommitFile,
   DrawRowId, WriteAuditLog, ProjectsForUser, ProjectByID, IssuesForProject, apiUnchanged

\* One page at a time.
LEMMA NextPaging ==
    ASSUME ReqInv, WalkInv, [Next]_vars
    PROVE  /\ \A q, r \in Reqs : Paging(q)' /\ Paging(r)' => q = r
           /\ \A q \in Reqs : Paging(q)' => walk.ended = FALSE
<1>0. at \in [Reqs -> Steps] /\ op \in [Reqs -> Ops]
  BY DEF ReqInv
<1>1. ASSUME NEW q \in Reqs, ~\E o \in Ops : Receive(q, o), Paging(q)' PROVE Paging(q)
  BY <1>1, RequestSteps DEF Paging, InFlight
<1>2. ASSUME NEW q \in Reqs, NEW o \in Ops, Receive(q, o), Paging(q)'
      PROVE  /\ walk.ended = FALSE
             /\ \A r \in Reqs \ {q} : ~Paging(r)'
  <2>1. op'[q] = o /\ \A r \in Reqs \ {q} : at'[r] = at[r] /\ op'[r] = op[r]
    BY <1>0, <1>2 DEF Receive, Goto
  <2>2. o.kind = "getAudit"
    BY <1>2, <2>1 DEF Paging
  <2>3. /\ ~walk.ended
        /\ \A r \in Reqs : op[r].kind = "getAudit" => at[r] \in {"idle"} \cup Outcomes
    BY <1>2, <2>2 DEF Receive, CanBegin
  <2> QED
    BY <2>1, <2>3 DEF Paging, InFlight
<1>3. \A q \in Reqs : Paging(q)' => walk.ended = FALSE
  BY <1>1, <1>2 DEF WalkInv
<1>4. \A q, r \in Reqs : Paging(q)' /\ Paging(r)' => q = r
  BY <1>1, <1>2 DEF WalkInv
<1> QED
  BY <1>3, <1>4

\* Every step keeps the invariant of the walk.
LEMMA NextWalk ==
    ASSUME ReqInv, HistTypes, AuditTypes, WalkInv, [Next]_vars
    PROVE  AuditTypes' /\ WalkInv'
<1>0. at \in [Reqs -> Steps]
  BY DEF ReqInv
<1>1. LogStep /\ rowId \in Nat
  BY NextLog, AuditFinite DEF AuditTypes
<1>2. \A q \in Reqs : at'[q] = "auditCommit" => saw'[q] \in 1..rowId'
  <2> SUFFICES ASSUME NEW q \in Reqs, at'[q] = "auditCommit" PROVE saw'[q] \in 1..rowId'
    OBVIOUS
  <2>1. CASE at[q] = "auditCommit" /\ saw'[q] = saw[q]
    <3>1. saw[q] \in 1..rowId /\ rowId <= rowId' /\ rowId' \in Nat
      BY <1>1, <2>1, AdminAssumption DEF AuditTypes, LogStep
    <3> QED
      BY <1>1, <2>1, <3>1
  <2> QED
    BY <1>1, <2>1 DEF LogStep
<1>3. CASE walk' = walk
  <2>1. AuditTypes'
    BY <1>1, <1>2, <1>3 DEF LogStep, AuditTypes
  <2>2. walk'.base \subseteq auditLog' /\ WalkSkipsNothing' /\ WalkIsComplete'
    BY <1>1, <1>3, <2>1, WalkStays DEF LogStep
  <2> QED
    BY <1>3, <2>1, <2>2, NextPaging DEF WalkInv
<1>4. ASSUME NEW q \in Reqs, CountRows(q) \/ getAudit(q), walk' # walk
      PROVE  AuditTypes' /\ WalkInv'
  <2>0. PICK from \in {"count", "page"}, rows \in SUBSET Page(walk.page + 1), total \in Nat :
           Show(q, from, rows, total)
    <3>1. saw[q] \in Nat
      BY DEF HistTypes
    <3>2. CASE CountRows(q)
      BY <1>4, <3>2 DEF CountRows
    <3>3. CASE getAudit(q)
      BY <3>1, <3>3 DEF getAudit
    <3> QED
      BY <1>4, <3>2, <3>3
  <2>1. /\ at[q] \in {"count", "page"} /\ at' = [at EXCEPT ![q] = "ok"]
        /\ UNCHANGED <<op, auditLog>>
    BY <1>4, <2>0 DEF CountRows, getAudit, Show, Goto, auditUnchanged, consoleVars
  <2>2. /\ walk' \in WalkType
        /\ walk'.base \subseteq auditLog' /\ WalkSkipsNothing' /\ WalkIsComplete'
    BY <2>0, <2>1, PageShown
  <2>3. AuditTypes'
    BY <1>1, <1>2, <2>2 DEF LogStep, AuditTypes
  <2>4. Paging(q)
    BY <2>1 DEF ReqInv, Fits, Paging, InFlight, Outcomes
  <2>5. \A r \in Reqs : ~Paging(r)'
    <3> SUFFICES ASSUME NEW r \in Reqs, Paging(r)' PROVE FALSE
      OBVIOUS
    <3>1. r # q
      BY <1>0, <2>1 DEF Paging, InFlight, Outcomes
    <3>2. at'[r] = at[r] /\ op'[r] = op[r]
      BY <1>0, <2>1, <3>1
    <3>3. Paging(r)
      BY <3>2 DEF Paging, InFlight
    <3> QED
      BY <2>4, <3>1, <3>3 DEF WalkInv
  <2> QED
    BY <2>2, <2>3, <2>5 DEF WalkInv
<1> QED
  BY <1>3, <1>4, WalkSteps
-----------------------------------------------------------------------------
(***************************************************************************)
(* The theorems about roles and the audit log                              *)
(***************************************************************************)
\* The inductive invariant of all of it.
AdminInv == ConsoleInv /\ AccessInv /\ AuditTypes /\ WalkInv

\* Nothing is in flight and nobody has opened the audit log at the start.
LEMMA InitAdmin == Init => AdminInv
<1> SUFFICES ASSUME Init PROVE AdminInv
  OBVIOUS
<1>1. ConsoleInv
  BY InitSess DEF Init, ConsoleInv, ConsoleTypes, RemovedInv, Roles
<1>2. \A q \in Reqs : at[q] = "idle" /\ ~InFlight(q)
  BY DEF Init, InFlight
<1>3. AccessInv
  BY <1>2 DEF Init, AccessInv, HistTypes, AccessWasHeld, Established
<1>4. /\ walk.base = {} /\ walk.ended = FALSE /\ walk \in WalkType
  BY DEF Init, WalkType
<1>5. AuditTypes
  BY <1>2, <1>4, AdminAssumption DEF Init, AuditTypes
<1>6. WalkInv
  BY <1>2, <1>4 DEF WalkInv, Paging, WalkSkipsNothing, WalkIsComplete
<1> QED
  BY <1>1, <1>3, <1>5, <1>6 DEF AdminInv

\* Sessions, memberships, roles and the audit log keep the inductive invariant
\* whatever the requests of the console and of the API do to them.
THEOREM AdminCorrect == Spec => []AdminInv
<1>1. ASSUME AdminInv, [Next]_vars PROVE AdminInv'
  <2>1. ConsoleInv'
    BY <1>1, NextReqStep, NextReq, NextSess, NextConsole DEF AdminInv, ConsoleInv
  <2>2. rowId \in Nat /\ IsFiniteSet(auditLog)
    BY <1>1, AuditFinite DEF AdminInv, AuditTypes
  <2>3. AccessInv'
    BY <1>1, <2>2, NextAccess DEF AdminInv, ConsoleInv
  <2>4. AuditTypes' /\ WalkInv'
    BY <1>1, NextWalk DEF AdminInv, ConsoleInv, AccessInv
  <2> QED
    BY <2>1, <2>3, <2>4 DEF AdminInv
<1> QED
  BY <1>1, InitAdmin, PTL DEF Spec

\* Every variable of the console stays in its type.
THEOREM TypeCorrect == Spec => []TypeOK
<1>1. AdminInv => TypeOK
  BY DEF AdminInv, ConsoleInv, ReqInv, SessInv, SessTypes, ConsoleTypes, AccessInv, HistTypes,
         AuditTypes, WalkType, TypeOK
<1> QED
  BY <1>1, AdminCorrect, PTL

\* Nothing is written to or listed from a project on which the user never held
\* the role during the request.
THEOREM AccessIsHeld == Spec => []AccessWasHeld
<1>1. AdminInv => AccessWasHeld
  BY DEF AdminInv, AccessInv
<1> QED
  BY <1>1, AdminCorrect, PTL

\* Whoever leafs through the audit log passes over no row that was there at
\* the start, whatever rows are added meanwhile and in whatever order, but for
\* rows of a page that an error cut short.
THEOREM WalkIsSound == Spec => []WalkSkipsNothing
<1>1. AdminInv => WalkSkipsNothing
  BY DEF AdminInv, WalkInv
<1> QED
  BY <1>1, AdminCorrect, PTL

\* A walk to the last page has shown every row that was there at the start, or
\* an error hid it, unless the total on that page was not the number of rows.
THEOREM WalkEndsComplete == Spec => []WalkIsComplete
<1>1. AdminInv => WalkIsComplete
  BY DEF AdminInv, WalkInv
<1> QED
  BY <1>1, AdminCorrect, PTL
=============================================================================
