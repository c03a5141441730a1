---------------------------- MODULE MCWritePath ----------------------------
(***************************************************************************)
(* WritePath on small instances.  MCSha256 and MCQuote are free            *)
(* constructors: different contents have different ETags, and a quoted     *)
(* ETag is never an ETag.                                                  *)
(***************************************************************************)
EXTENDS WritePath, TLC

MCSha256(b) == <<"sha256", b>>
MCQuote(e) == <<"quoted", e>>

Request(h, p, b, m, c) ==
    [handler |-> h, path |-> p, body |-> b, ifMatch |-> m, ifNoneMatch |-> c,
     role |-> IF h = "put_project_json" THEN "admin" ELSE "editor", fault |-> "ok"]

AnyBody == CHOOSE b \in Bodies : TRUE
AnyIssue == CHOOSE p \in Issues : TRUE

\* Well-formed, authorised requests on issues: conditional updates and
\* deletes, creates of both kinds.
IssueWrites ==
    {Request("put_issue", p, b, MCSha256(m), FALSE)
        : p \in Issues, b \in Bodies, m \in Bodies}
    \cup {Request("put_issue", p, b, NoETag, TRUE) : p \in Issues, b \in Bodies}
    \cup {Request("post_issue", p, b, NoETag, FALSE) : p \in Issues, b \in Bodies}
    \cup {Request("delete_issue", p, AnyBody, MCSha256(m), FALSE)
        : p \in Issues, m \in Bodies}

\* A PUT that fails each of the checks before storage in turn.
RefusedWrites ==
    LET r == Request("put_issue", AnyIssue, AnyBody, NoETag, TRUE) IN
    {[r EXCEPT !.fault = f] : f \in Faults \ {"ok"}}
    \cup {[r EXCEPT !.role = v] : v \in {"none", "viewer"}}
    \cup {[r EXCEPT !.ifNoneMatch = FALSE]}
    \cup {[r EXCEPT !.handler = "delete_issue"]}

\* Few requests, chosen so that three of them collide in every way: an update,
\* a create and a delete of the version the update replaces.
CollidingWrites ==
    LET b == AnyBody
        c == CHOOSE x \in Bodies : x # b IN
    {Request("put_issue", AnyIssue, c, MCSha256(b), FALSE),
     Request("post_issue", AnyIssue, b, NoETag, FALSE),
     Request("delete_issue", AnyIssue, b, MCSha256(b), FALSE)}

IssueInputs == CollidingWrites \cup RefusedWrites

\* An update and a delete of the same version of an issue, a replace of an
\* attachment and its unconditional delete, and a replace of project.json.
MixedWrites ==
    LET b == AnyBody
        c == CHOOSE x \in Bodies : x # b IN
    {Request("put_issue", p, c, MCSha256(b), FALSE) : p \in Issues}
    \cup {Request("delete_issue", p, b, MCSha256(b), FALSE) : p \in Issues}
    \cup {Request("put_attachment", p, c, MCSha256(b), FALSE) : p \in Attachments}
    \cup {Request("delete_attachment", p, b, NoETag, FALSE) : p \in Attachments}
    \cup {Request("put_project_json", p, c, MCSha256(b), FALSE) : p \in ProjectFiles}

\* All files exist, in the version the requests name.
AllExist == Init /\ \A p \in Paths : s3[p] = AnyBody

LiveSpec == AllExist /\ [][Next]_vars /\ Fairness

Symmetry == Permutations(Reqs)
=============================================================================
