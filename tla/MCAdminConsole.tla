-------------------------- MODULE MCAdminConsole --------------------------
(***************************************************************************)
(* AdminConsole on small instances: a few requests of every kind, all of   *)
(* the console's in one session.                                           *)
(***************************************************************************)
EXTENDS AdminConsole, TLC

CONSTANT Fourth     \* one of Reqs

Op(kind) ==
    [kind |-> kind, session |-> NoSession, token |-> 0, target |-> NoSession,
     project |-> NoProject, user |-> NoUser, role |-> "editor", repoURL |-> "url"]

Web(kind) == {[Op(kind) EXCEPT !.session = s] : s \in WebSessions}

OnProject(kind) == {[o EXCEPT !.project = p] : o \in Web(kind), p \in Projects}

OnMember(kind) == {[o EXCEPT !.user = u] : o \in OnProject(kind), u \in Users}

ApiOp(kind) == {[Op(kind) EXCEPT !.project = p, !.user = u] : p \in Projects, u \in Users}

MemberOps ==
    OnMember("postMembers") \cup OnMember("postMemberRemove")
    \cup {[o EXCEPT !.role = "viewer"] : o \in OnMember("postMemberRole")}

\* What is about members and what they may write ...
WriteOps == MemberOps \cup ApiOp("PutIssueHandler")

\* ... and what they may see ...
ListOps == MemberOps \cup ApiOp("FoldersHandler") \cup ApiOp("IssuesHandler")

\* ... about projects that come and go ...
ProjectOps ==
    OnProject("postProjects") \cup OnProject("postProjectArchive")
    \cup {[o EXCEPT !.repoURL = ""] : o \in OnProject("postProjects")}
    \cup ApiOp("HostHandler") \cup ApiOp("FolderByIDHandler")

\* ... about sessions ...
SessionOps ==
    OnProject("postProject") \cup Web("postLogout")
    \cup {[o EXCEPT !.target = s] : o \in Web("postSessionRevoke"), s \in WebSessions}
    \cup {[o EXCEPT !.target = s] : o \in Web("postUserSessionRevoke"), s \in NativeSessions}
    \cup {[Op("RotateRefreshToken") EXCEPT !.session = s, !.token = n]
             : s \in NativeSessions, n \in 1..(MaxTokens - 1)}

\* ... and about the audit log.
AuditOps == Web("getAudit") \cup ApiOp("PutIssueHandler")

MCOps == WriteOps \cup ListOps \cup ProjectOps \cup SessionOps \cup AuditOps

\* Requests that share no table are not followed together, nor time and roles
\* where the requests do not depend on them.  A fourth request takes part in the
\* audit log only, where two writers and the readers of two pages meet.
OneTopic ==
    LET asked == {op[q] : q \in {x \in Reqs : at[x] # "idle"}}
        three == at[Fourth] = "idle"
        still == expired = {} /\ \A s \in NativeSessions : hash[s] = 0
        role(r) == \A u \in Users : /\ global[u] = "member"
                                    /\ \A p \in Projects : members[p][u] = r IN
    \/ three /\ asked \subseteq SessionOps /\ role("none")
    \/ three /\ asked \subseteq WriteOps /\ still
    \/ three /\ asked \subseteq ListOps /\ still
    \/ three /\ asked \subseteq ProjectOps /\ still
    \/ asked \subseteq AuditOps /\ still /\ role("editor")

\* The behaviours that keep to one topic.
TopicSpec == Init /\ [][Next /\ OneTopic']_vars

Symmetry == Permutations(Reqs \ {Fourth})
=============================================================================
