---------------------------- MODULE AdminConsole ----------------------------
(***************************************************************************)
(* The admin console (internal/admin/admin.go) at work on projects,        *)
(* members, sessions and the audit log, beside the API requests that       *)
(* depend on them: the role check of the write handlers (authz.go,         *)
(* ProjectRole) and the listings of projects (folders.go, host.go).        *)
(*                                                                         *)
(* A request of the console is validated by its web session (Sessions) and *)
(* then runs its handler.  Every statement is a step of its own, may fail, *)
(* and may have taken effect although it failed.                           *)
(***************************************************************************)
EXTENDS Sessions

CONSTANTS
    Users,
    Projects,       \* projects, by slug
    Ops,            \* what the requests ask for
    NoUser, NoProject, NoSession,
    PageSize,       \* rows on a page of the audit log, 50
    FirstRows,      \* rows of the audit log at the start
    MaxRows         \* bound on the rows of the audit log

Roles == {"viewer", "editor", "admin"}

roleRank == [none |-> 0, viewer |-> 1, editor |-> 2, admin |-> 3]

ProjectForms == {"postProject", "postProjectArchive", "postMembers", "postMemberRole",
                 "postMemberRemove"}
Listings == {"FoldersHandler", "HostHandler"}
ProjectReads == {"FolderByIDHandler", "IssuesHandler"}
ConsoleKinds == ProjectForms \cup {"postProjects", "postUserSessionRevoke", "postSessionRevoke",
                                   "postLogout", "getAudit"}
ApiKinds == Listings \cup ProjectReads \cup {"PutIssueHandler"}
Kinds == ConsoleKinds \cup ApiKinds \cup {"RotateRefreshToken"}

OpType ==
    [kind : Kinds, session : Sids \cup {NoSession}, token : 0..MaxTokens,
     target : Sids \cup {NoSession}, project : Projects \cup {NoProject},
     user : Users \cup {NoUser}, role : Roles, repoURL : {"", "url"}]

ASSUME AdminAssumption ==
    /\ Ops \subseteq OpType
    /\ NoUser \notin Users /\ NoProject \notin Projects /\ NoSession \notin Sids
    /\ PageSize \in Nat \ {0} /\ MaxRows \in Nat /\ FirstRows \in 0..MaxRows

\* A request has what its route takes: the console's pages the cookie of a web
\* session, the rotation a native session and its token, the API a user, and
\* those about a project, a member or a session its name.
ASSUME RouteAssumption ==
    /\ Ops # {}
    /\ \A o \in Ops :
          /\ o.kind \in ConsoleKinds => o.session \in WebSessions
          /\ o.kind = "RotateRefreshToken" => /\ o.session \in NativeSessions
                                              /\ o.token \in 1..MaxTokens
          /\ o.kind \in ApiKinds => o.session = NoSession /\ o.user \in Users
          /\ o.kind \in ProjectForms \cup ProjectReads \cup {"postProjects", "PutIssueHandler"}
                => o.project \in Projects
          /\ o.kind \in {"postMembers", "postMemberRole", "postMemberRemove"} => o.user \in Users
          /\ o.kind \in {"postUserSessionRevoke", "postSessionRevoke"} => o.target \in Sids

VARIABLES
    \* Postgres
    projects,   \* projects[p]: "none", "open" or "archived"
    forms,      \* forms[p]: the request whose form p was last given
    members,    \* members[p][u]: project_members.role, "none" if there is no row
    global,     \* global[u]: users.global_role
    auditLog,   \* ids of the visible rows of audit_log
    rowId,      \* the last id drawn
    \* the requests
    saw,        \* what each request has read
    \* a person who leafs through the audit log
    walk,       \* the last page shown, the rows seen so far, whether it was the last
    \* history
    removed,    \* requests whose DELETE took a member out
    told,       \* requests that called BroadcastAccessRevoked
    answer,     \* projects written to or listed by a request that succeeded
    held        \* projects on which its user held the role it needs since it began

consoleVars == <<projects, forms, members, global, auditLog, rowId>>
histVars == <<removed, told, answer, held>>
vars == <<sessVars, at, op, late, consoleVars, saw, walk, histVars>>

\* Where each request starts.
FirstStep(o) ==
    CASE o.kind = "RotateRefreshToken" -> "select"
      [] o.kind \in ApiKinds -> "globalRole"
      [] OTHER -> "validate"

\* What the API handlers do when they know the global role.
SecondStep(o, isAdmin) ==
    CASE o.kind \in Listings -> "list"
      [] o.kind \in ProjectReads -> "project"
      [] OTHER -> IF isAdmin THEN "write" ELSE "role"

\* What the handlers of the console do first.
Handler(o) ==
    CASE o.kind \in {"postUserSessionRevoke", "postSessionRevoke"} -> "revoke"
      [] o.kind = "postLogout" -> "findSession"
      [] o.kind = "postProjects" -> "create"
      [] o.kind = "getAudit" -> "count"
      [] OTHER -> "slug"

Role(u, p) == IF global[u] = "admin" THEN "admin" ELSE members[p][u]

Needed(o) == IF o.kind = "PutIssueHandler" THEN "editor" ELSE "viewer"

\* The projects on which the user of q holds the role q needs.
Allowed(q) ==
    IF op[q].user = NoUser THEN {}
    ELSE {p \in Projects : roleRank[Role(op[q].user, p)] >= roleRank[Needed(op[q])]}

Init ==
    /\ SInit
    /\ at = [q \in Reqs |-> "idle"]
    /\ op = [q \in Reqs |-> CHOOSE o \in Ops : TRUE]  \* read once not idle
    /\ projects \in [Projects -> {"none", "open"}]
    /\ forms = [p \in Projects |-> "none"]
    /\ members \in [Projects -> [Users -> {"none", "viewer", "editor"}]]
    /\ \A p \in Projects : projects[p] = "none" => \A u \in Users : members[p][u] = "none"
    /\ global = [u \in Users |-> "member"]
    /\ auditLog = 1..FirstRows /\ rowId = FirstRows
    /\ saw = [q \in Reqs |-> 0]
    /\ walk = [page |-> 0, base |-> {}, seen |-> {}, hidden |-> {}, ended |-> FALSE,
               moved |-> FALSE]
    /\ removed = {} /\ told = {}
    /\ answer = [q \in Reqs |-> {}]
    /\ held = [q \in Reqs |-> {}]

\* One person follows the links from page to page: a page is asked for when
\* the one before has been shown.
CanBegin(o) ==
    o.kind = "getAudit" =>
        /\ ~walk.ended
        /\ \A q \in Reqs : op[q].kind = "getAudit" => at[q] \in {"idle"} \cup Outcomes

Receive(q, o) ==
    /\ Goto(q, "idle", FirstStep(o)) /\ CanBegin(o)
    /\ op' = [op EXCEPT ![q] = o]
    /\ late' = IF o.session \in revoked THEN late \cup {q} ELSE late
    /\ UNCHANGED <<sessVars, consoleVars, saw, walk, removed, told, answer>>
-----------------------------------------------------------------------------
(***************************************************************************)
(* The forms on projects and members                                       *)
(***************************************************************************)
formUnchanged == <<sessVars, op, late, global, auditLog, rowId, saw, walk, answer>>

\* The slug is UNIQUE, and an empty repo URL becomes NULL (nullStr), which the
\* column does not allow.
CreateProject(q) ==
    /\ projects[op[q].project] = "none" /\ op[q].repoURL # ""
    /\ projects' = [projects EXCEPT ![op[q].project] = "open"]
    /\ forms' = [forms EXCEPT ![op[q].project] = q]

postProjects(q) ==
    /\ \/ (Goto(q, "create", "ok") \/ Goto(q, "create", "failed")) /\ CreateProject(q)
       \/ Goto(q, "create", "failed") /\ UNCHANGED <<projects, forms>>
    /\ UNCHANGED <<formUnchanged, members, removed, told>>

\* ProjectBySlug: no row, or an error, is a 404.  Slugs never change and
\* projects are never deleted, so the id it finds remains that of the slug.
ProjectBySlug(q) ==
    /\ \/ Goto(q, "slug", op[q].kind) /\ projects[op[q].project] # "none"
       \/ Goto(q, "slug", "refused")
    /\ UNCHANGED <<formUnchanged, projects, forms, members, removed, told>>

\* All the columns of the form at once.
UpdateProject(q) ==
    /\ op[q].repoURL # ""
    /\ forms' = [forms EXCEPT ![op[q].project] = q]

postProject(q) ==
    /\ \/ /\ Goto(q, "postProject", "ok") \/ Goto(q, "postProject", "failed")
          /\ UpdateProject(q)
       \/ Goto(q, "postProject", "failed") /\ UNCHANGED forms
    /\ UNCHANGED <<formUnchanged, projects, members, removed, told>>

ArchiveProject(q) == projects' = [projects EXCEPT ![op[q].project] = "archived"]

\* The error is only logged.
postProjectArchive(q) ==
    /\ Goto(q, "postProjectArchive", "ok")
    /\ ArchiveProject(q) \/ UNCHANGED projects
    /\ UNCHANGED <<formUnchanged, forms, members, removed, told>>

\* Mutant: no CHECK on the column, and the form names a global role.
SetRole_Unchecked(q, r) ==
    members' = [members EXCEPT ![op[q].project][op[q].user] =
                  IF r = "none" THEN r ELSE "member"]

SetRole(q, r) == members' = [members EXCEPT ![op[q].project][op[q].user] = r]

\* AddProjectMember: INSERT ... ON CONFLICT DO UPDATE.
postMembers(q) ==
    /\ \/ /\ Goto(q, "postMembers", "ok") \/ Goto(q, "postMembers", "failed")
          /\ SetRole(q, op[q].role)
       \/ Goto(q, "postMembers", "failed") /\ UNCHANGED members
    /\ UNCHANGED <<formUnchanged, projects, forms, removed, told>>

\* An UPDATE, which may match no row.
ChangeProjectMemberRole(q) ==
    members[op[q].project][op[q].user] # "none" /\ SetRole(q, op[q].role)

\* The error is only logged.
postMemberRole(q) ==
    /\ Goto(q, "postMemberRole", "ok")
    /\ ChangeProjectMemberRole(q) \/ UNCHANGED members
    /\ UNCHANGED <<formUnchanged, projects, forms, removed, told>>

\* Mutant: an error of the DELETE ends the handler.
RemoveProjectMember_Returns(q) ==
    /\ \/ /\ Goto(q, "postMemberRemove", "notify") \/ Goto(q, "postMemberRemove", "failed")
          /\ members[op[q].project][op[q].user] # "none" /\ SetRole(q, "none")
          /\ removed' = removed \cup {q}
       \/ /\ Goto(q, "postMemberRemove", "notify") \/ Goto(q, "postMemberRemove", "failed")
          /\ UNCHANGED <<members, removed>>
    /\ UNCHANGED <<formUnchanged, projects, forms, told>>

\* The error is only logged.
RemoveProjectMember(q) ==
    /\ Goto(q, "postMemberRemove", "notify")
    /\ \/ /\ members[op[q].project][op[q].user] # "none" /\ SetRole(q, "none")
          /\ removed' = removed \cup {q}
       \/ UNCHANGED <<members, removed>>
    /\ UNCHANGED <<formUnchanged, projects, forms, told>>

\* AccessRevoked in Hub.
BroadcastAccessRevoked(q) ==
    /\ Goto(q, "notify", "ok")
    /\ told' = told \cup {q}
    /\ UNCHANGED <<formUnchanged, projects, forms, members, removed>>

postMemberRemove(q) == RemoveProjectMember(q) \/ BroadcastAccessRevoked(q)
-----------------------------------------------------------------------------
(***************************************************************************)
(* The API requests that depend on roles                                   *)
(***************************************************************************)
apiUnchanged == <<sessVars, op, late, projects, forms, members, global, walk,
                  removed, told>>

\* The first query of ProjectRole, and resolveUser of the reads, which keeps
\* isAdmin for the second query.
ReadGlobalRole(q) ==
    LET isAdmin == global[op[q].user] = "admin" IN
    /\ \/ /\ Goto(q, "globalRole", SecondStep(op[q], isAdmin))
          /\ saw' = [saw EXCEPT ![q] = IF isAdmin THEN 1 ELSE 0]
       \/ Goto(q, "globalRole", "failed") /\ UNCHANGED saw
    /\ UNCHANGED <<apiUnchanged, auditLog, rowId, answer>>

\* Mutant: the comparison of ranks is off by one.
RequireRole_OffByOne(role, min) == roleRank[role] + 1 >= roleRank[min]

\* RequireRole
RequireRole(role, min) == roleRank[role] >= roleRank[min]

\* The second query of ProjectRole: the role in project_members, whether or
\* not the project is archived.
ReadMemberRole(q) ==
    LET role == members[op[q].project][op[q].user] IN
    /\ \/ Goto(q, "role", "write") /\ RequireRole(role, "editor")
       \/ Goto(q, "role", "refused") /\ ~RequireRole(role, "editor")
       \/ Goto(q, "role", "failed")
    /\ UNCHANGED <<apiUnchanged, saw, auditLog, rowId, answer>>

\* The rest of a write handler, in detail in WritePath: the row is committed,
\* or the precondition fails ...
CommitFile(q) ==
    /\ \/ /\ Goto(q, "write", "audit") \/ Goto(q, "write", "failed")
          /\ projects[op[q].project] # "none"
          /\ answer' = [answer EXCEPT ![q] = {op[q].project}]
       \/ Goto(q, "write", "failed") /\ UNCHANGED answer
    /\ UNCHANGED <<apiUnchanged, saw, auditLog, rowId>>

\* ... and the INSERT of WriteAuditLog draws an id ...
DrawRowId(q) ==
    /\ Goto(q, "audit", "auditCommit") /\ rowId < MaxRows
    /\ rowId' = rowId + 1
    /\ saw' = [saw EXCEPT ![q] = rowId + 1]
    /\ UNCHANGED <<apiUnchanged, auditLog, answer>>

\* ... and commits, or fails, which is ignored.
WriteAuditLog(q) ==
    /\ Goto(q, "auditCommit", "ok")
    /\ auditLog' \in {auditLog, auditLog \cup {saw[q]}}
    /\ UNCHANGED <<apiUnchanged, saw, rowId, answer>>

\* Archived projects are left out; isAdmin is from the first query.
Listed(q) ==
    {p \in Projects : /\ projects[p] = "open"
                      /\ saw[q] = 1 \/ members[p][op[q].user] # "none"}

ProjectsForUser(q) ==
    /\ \/ Goto(q, "list", "ok") /\ answer' = [answer EXCEPT ![q] = Listed(q)]
       \/ Goto(q, "list", "failed") /\ UNCHANGED answer
    /\ UNCHANGED <<apiUnchanged, saw, auditLog, rowId>>

\* No row is a 404.  FolderByIDHandler answers with the row itself.
ProjectByID(q) ==
    LET p == op[q].project IN
    /\ \/ /\ Goto(q, "project", IF op[q].kind = "IssuesHandler" THEN "issues" ELSE "ok")
          /\ p \in Listed(q)
          /\ answer' = IF op[q].kind = "IssuesHandler" THEN answer
                       ELSE [answer EXCEPT ![q] = {p}]
       \/ Goto(q, "project", "refused") /\ p \notin Listed(q) /\ UNCHANGED answer
       \/ Goto(q, "project", "failed") /\ UNCHANGED answer
    /\ UNCHANGED <<apiUnchanged, saw, auditLog, rowId>>

\* The rows themselves, in a query of its own that no longer asks who reads.
IssuesForProject(q) ==
    /\ \/ Goto(q, "issues", "ok") /\ answer' = [answer EXCEPT ![q] = {op[q].project}]
       \/ Goto(q, "issues", "failed") /\ UNCHANGED answer
    /\ UNCHANGED <<apiUnchanged, saw, auditLog, rowId>>

FoldersHandler(q) ==
    op[q].kind = "FoldersHandler" /\ (ReadGlobalRole(q) \/ ProjectsForUser(q))

HostHandler(q) ==
    op[q].kind = "HostHandler" /\ (ReadGlobalRole(q) \/ ProjectsForUser(q))

FolderByIDHandler(q) ==
    op[q].kind = "FolderByIDHandler" /\ (ReadGlobalRole(q) \/ ProjectByID(q))

IssuesHandler(q) ==
    op[q].kind = "IssuesHandler" /\ (ReadGlobalRole(q) \/ ProjectByID(q) \/ IssuesForProject(q))

PutIssueHandler(q) ==
    /\ op[q].kind = "PutIssueHandler"
    /\ \/ ReadGlobalRole(q) \/ ReadMemberRole(q) \/ CommitFile(q) \/ DrawRowId(q)
       \/ WriteAuditLog(q)

Api(q) ==
    \/ FoldersHandler(q) \/ HostHandler(q) \/ FolderByIDHandler(q) \/ IssuesHandler(q)
    \/ PutIssueHandler(q)

\* The enrollment of an existing user may overwrite the global role (ensureUser,
\* InsertUser in Enrollment).
ChangeGlobalRole(u) ==
    /\ global' = [global EXCEPT ![u] = IF @ = "admin" THEN "member" ELSE "admin"]
    /\ UNCHANGED <<sessVars, at, op, late, projects, forms, members, auditLog,
                   rowId, saw, walk, removed, told, answer>>
-----------------------------------------------------------------------------
(***************************************************************************)
(* The audit log, page by page                                             *)
(***************************************************************************)
auditUnchanged == <<sessVars, op, late, consoleVars, removed, told, answer>>

\* The place of row i in the order of descending ids.
Rank(i) == Cardinality({j \in auditLog : j >= i})

\* Mutant: pages are counted from 0.
Page_FromZero(n) ==
    {i \in auditLog : n * PageSize < Rank(i) /\ Rank(i) <= (n + 1) * PageSize}

\* ORDER BY id DESC LIMIT PageSize OFFSET (n - 1) * PageSize
Page(n) ==
    {i \in auditLog : (n - 1) * PageSize < Rank(i) /\ Rank(i) <= n * PageSize}

\* Mutant: the last page is left out when it is not full.
totalPages_Floor(total) == IF total < PageSize THEN 1 ELSE total \div PageSize

totalPages(total) ==
    IF total = 0 THEN 1 ELSE (total + PageSize - 1) \div PageSize

\* The next page as it is shown, always with status 200: the rows and the total
\* that AuditLog returned, and a link to the page after it only if by that total
\* there is one.
Show(q, from, rows, total) ==
    LET n == walk.page + 1 IN
    /\ Goto(q, from, "ok")
    /\ walk' = [page |-> n,
                base |-> IF n = 1 THEN auditLog ELSE walk.base,
                seen |-> walk.seen \cup rows,
                hidden |-> walk.hidden \cup (Page(n) \ rows),
                ended |-> n >= totalPages(total),
                moved |-> total # Cardinality(auditLog)]

\* AuditLog, its first query: SELECT count(*).  An error is only logged, and
\* shows no rows and the total 0.
CountRows(q) ==
    /\ \/ /\ Goto(q, "count", "page") /\ UNCHANGED walk
          /\ saw' = [saw EXCEPT ![q] = Cardinality(auditLog)]
       \/ Show(q, "count", {}, 0) /\ UNCHANGED saw
    /\ UNCHANGED auditUnchanged

\* Its second query.  An error of the query, or of the scan of a row, again
\* shows no rows and the total 0; an error in between, which only rows.Err()
\* tells of, shows the rows that came before it, and the total of the count.
getAudit(q) ==
    LET rows == Page(walk.page + 1) IN
    /\ \/ Show(q, "page", rows, saw[q])
       \/ Show(q, "page", {}, 0)
       \/ \E i \in rows : Show(q, "page", {j \in rows : j > i}, saw[q])
    /\ UNCHANGED <<auditUnchanged, saw>>
-----------------------------------------------------------------------------
\* The routes of the console; all of them pass RequireWebAuth first.
Console(q) ==
    \/ ProjectBySlug(q) \/ postProjects(q) \/ postProject(q) \/ postProjectArchive(q)
    \/ postMembers(q) \/ postMemberRole(q) \/ postMemberRemove(q)
    \/ CountRows(q) \/ getAudit(q)

RequireWebAuth(q) == ValidateWebSession(q) \/ Touch(q, Handler(op[q]))

SessionStep(q) ==
    \/ RequireWebAuth(q) \/ postUserSessionRevoke(q) \/ postSessionRevoke(q)
    \/ FindSession(q) \/ postLogout(q) \/ SelectByToken(q) \/ RotateRefreshToken(q)

\* After every step the roles of the users of the requests in flight are noted.
Observe ==
    held' = [q \in Reqs |->
        IF at'[q] \in {"idle"} \cup Outcomes THEN held[q]
        ELSE held[q] \cup Allowed(q)']

Next ==
    /\ \/ \E q \in Reqs, o \in Ops : Receive(q, o)
       \/ /\ \/ \E q \in Reqs : SessionStep(q)
             \/ \E s \in NativeSessions : IssueNativeSession(s) \/ GraceEnds(s)
             \/ \E s \in Sids : Expire(s)
          /\ UNCHANGED <<consoleVars, saw, walk, removed, told, answer>>
       \/ \E q \in Reqs : Console(q) \/ Api(q)
       \/ \E u \in Users : ChangeGlobalRole(u)
    /\ Observe

Spec == Init /\ [][Next]_vars
-----------------------------------------------------------------------------
(***************************************************************************)
(* Properties                                                              *)
(***************************************************************************)
Steps == {"idle", "validate", "touch", "revoke", "findSession", "logout", "select",
          "rotate", "create", "slug", "notify", "globalRole", "role", "write", "audit",
          "auditCommit", "list", "project", "issues", "count", "page"}
         \cup ProjectForms \cup Outcomes

\* Every variable stays in its type.
TypeOK ==
    /\ hash \in [Sids -> 0..MaxTokens] /\ issued \in [Sids -> 0..MaxTokens]
    /\ revoked \subseteq Sids /\ expired \subseteq Sids /\ recent \subseteq Sids
    /\ spent \subseteq Sids \X (1..MaxTokens)
    /\ at \in [Reqs -> Steps] /\ op \in [Reqs -> Ops]
    /\ late \subseteq Reqs
    /\ projects \in [Projects -> {"none", "open", "archived"}]
    /\ forms \in [Projects -> Reqs \cup {"none"}]
    /\ members \in [Projects -> [Users -> Roles \cup {"none"}]]
    /\ global \in [Users -> {"admin", "member"}]
    /\ rowId \in 0..MaxRows /\ auditLog \subseteq 1..rowId
    /\ saw \in [Reqs -> Nat]
    /\ walk \in [page : Nat, base : SUBSET (1..MaxRows), seen : SUBSET (1..MaxRows),
                 hidden : SUBSET (1..MaxRows), ended : BOOLEAN, moved : BOOLEAN]
    /\ removed \subseteq Reqs /\ told \subseteq Reqs
    /\ answer \in [Reqs -> SUBSET Projects] /\ held \in [Reqs -> SUBSET Projects]

\* What a request writes or is shown belongs to projects on which its user held
\* the role it takes at some instant of the request, although the global role,
\* the membership and the data are read and written by separate statements and
\* members come, go and change roles in between.
AccessWasHeld == \A q \in Reqs : answer[q] \subseteq held[q]

\* A member who was removed is told: every request whose DELETE took effect
\* ends by calling BroadcastAccessRevoked, also when the call reported an error.
RemovedAreTold == \A q \in removed : at[q] \in Outcomes => q \in told

\* A refresh token that was exchanged is refused by every rotation that comes to
\* look it up afterwards, also by one that was under way, however rotations of
\* the session race or fail.  (Rotations that had looked it up before the first
\* of them exchanged it all go through.)
SpentIsFinal == [][RefusesSpent]_vars

\* Rows added while someone leafs through the audit log, in whatever order
\* their ids become visible, push older ones to later pages and make none
\* disappear: a row that was there at the start has been shown, is still ahead,
\* or was on a page that an error cut short, which the code only logs.
WalkSkipsNothing ==
    \A i \in walk.base :
        i \in walk.seen \cup walk.hidden \/ Rank(i) > walk.page * PageSize

\* At the page without a link to a next one every row of the start has been
\* shown, but for those an error hid, provided the total on it is the number of
\* rows: not one from before a row was added, and not the 0 of an error.
WalkIsComplete ==
    (walk.ended /\ ~walk.moved) => walk.base \subseteq walk.seen \cup walk.hidden
=============================================================================
