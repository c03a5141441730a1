----------------------------- MODULE MCReadPath -----------------------------
(***************************************************************************)
(* ReadPath on small instances: a read of an issue or an attachment beside *)
(* two writes, which collide on an issue, on an attachment or on           *)
(* project.json.                                                           *)
(***************************************************************************)
EXTENDS ReadPath, TLC

MCSha256(b) == <<"sha256", b>>
MCS3ETag(b) == <<"md5", b>>
MCQuote(e) == <<"quoted", e>>

FirstBody == CHOOSE b \in Bodies : TRUE
OtherBody == CHOOSE b \in Bodies : b # FirstBody

Write(h, p, b, m, c) ==
    [handler |-> h, path |-> p, body |-> b, ifMatch |-> m, ifNoneMatch |-> c,
     role |-> IF h = "put_project_json" THEN "admin" ELSE "editor", fault |-> "ok"]

\* An update and a delete that race for the same version of an issue.
IssueRace ==
    {Write("put_issue", p, OtherBody, MCSha256(FirstBody), FALSE) : p \in Issues}
    \cup {Write("delete_issue", p, FirstBody, MCSha256(FirstBody), FALSE) : p \in Issues}

\* The handlers of attachments and of project.json: a replace and a create of
\* each, a replace that names the version in quotes, as the ETag header of the
\* server does, and the unconditional delete of an attachment.
OtherWrites ==
    UNION {{Write("put_attachment", p, OtherBody, MCSha256(FirstBody), FALSE),
            Write("put_attachment", p, FirstBody, NoETag, TRUE),
            Write("put_attachment", p, OtherBody, MCQuote(MCSha256(FirstBody)), FALSE),
            Write("delete_attachment", p, FirstBody, NoETag, FALSE)} : p \in Attachments}
    \cup UNION {{Write("put_project_json", p, OtherBody, MCSha256(FirstBody), FALSE),
                 Write("put_project_json", p, FirstBody, NoETag, TRUE)} : p \in ProjectFiles}

RacingWrites == IssueRace \cup OtherWrites

\* All files exist, with the same bytes, or none does.
MCInit ==
    /\ RInit
    /\ \A p, x \in Paths : s3[p] = s3[x] /\ s3[p] # OtherBody

\* Requests on different files share nothing but the channel to the hub: only
\* those on one file are followed.
OneFile ==
    Cardinality({Path(q) : q \in {x \in Reqs : pc[x] # "idle"}}
                \cup {rpath[r] : r \in {x \in Readers : rpc[x] # "idle"}}) <= 1

MCSpec == MCInit /\ [][RNext]_allVars

Symmetry == Permutations(Reqs)
=============================================================================
