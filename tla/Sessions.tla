------------------------------ MODULE Sessions ------------------------------
(***************************************************************************)
(* The sessions of internal/auth/session.go: the web sessions of the admin *)
(* console, checked on every request by RequireWebAuth, and the native     *)
(* sessions with their rotating refresh tokens; revocation and the lookup  *)
(* of logout are in internal/storage/admin_queries.go.                     *)
(*                                                                         *)
(* Every operation is a SELECT, checks in the process, and an UPDATE, with *)
(* no transaction around them.  A token is known by its number within its  *)
(* session; the row holds the hash of one of them.                         *)
(***************************************************************************)
EXTENDS Naturals, FiniteSets

CONSTANTS
    Reqs,           \* requests
    WebSessions,    \* rows of sessions with kind 'web'
    NativeSessions, \* rows of sessions with kind 'native'
    MaxTokens       \* bound on the tokens of a session

ASSUME SessionsAssumption ==
    /\ WebSessions \cap NativeSessions = {}
    /\ MaxTokens \in Nat \ {0}

Sids == WebSessions \cup NativeSessions

VARIABLES
    \* Postgres
    hash,       \* hash[s]: the token the row of s holds, 0 if there is no row
    revoked,    \* sessions with revoked_at set
    expired,    \* sessions whose expires_at is past
    recent,     \* native sessions last seen within refreshGraceWindow
    \* the requests
    at,         \* the statement each request runs next, or its outcome
    op,         \* what it asks for
    \* history
    issued,     \* issued[s]: tokens generated for s
    spent,      \* <<s, n>>: token n of s was exchanged by a rotation
    late        \* requests that began when their session had been revoked

rowVars  == <<hash, revoked, expired, recent>>
sessVars == <<rowVars, issued, spent>>

\* Where requests end.
Outcomes == {"ok", "refused", "failed"}

SInit ==
    /\ hash = [s \in Sids |-> IF s \in WebSessions THEN 1 ELSE 0]
    /\ issued = hash
    /\ revoked = {} /\ expired = {} /\ recent = {} /\ spent = {} /\ late = {}

Goto(q, from, to) ==
    /\ at[q] = from
    /\ at' = [at EXCEPT ![q] = to]

-----------------------------------------------------------------------------
(***************************************************************************)
(* Time, and the insert of a session                                       *)
(***************************************************************************)
\* IssueNativeSession: last_seen_at is now() by default.
IssueNativeSession(s) ==
    /\ hash[s] = 0
    /\ hash' = [hash EXCEPT ![s] = 1]
    /\ issued' = [issued EXCEPT ![s] = 1]
    /\ recent' = recent \cup {s}
    /\ UNCHANGED <<revoked, expired, spent, at, op, late>>

\* expires_at passes.
Expire(s) ==
    /\ hash[s] # 0 /\ s \notin expired
    /\ expired' = expired \cup {s}
    /\ UNCHANGED <<hash, revoked, recent, issued, spent, at, op, late>>

\* refreshGraceWindow passes.
GraceEnds(s) ==
    /\ s \in recent
    /\ recent' = recent \ {s}
    /\ UNCHANGED <<hash, revoked, expired, issued, spent, at, op, late>>
-----------------------------------------------------------------------------
(***************************************************************************)
(* RequireWebAuth, ValidateWebSession                                      *)
(***************************************************************************)
\* The SELECT and the checks; a session that is not valid, or a query that
\* fails, redirects to the login page.
ValidateWebSession(q) ==
    /\ \/ /\ Goto(q, "validate", "touch")
          /\ op[q].session \notin revoked \cup expired
       \/ Goto(q, "validate", "refused")
    /\ UNCHANGED <<sessVars, op, late>>

\* UPDATE ... SET last_seen_at = now(): its error is ignored, and nothing but
\* the pages that show it reads it of a web session.
Touch(q, to) ==
    /\ Goto(q, "touch", to)
    /\ UNCHANGED <<sessVars, op, late>>

\* RevokeSession: UPDATE ... SET revoked_at = now() WHERE id = s.
Revoke(s) == revoked' = revoked \cup {s}

\* The error is only logged.
RevokeTarget(q) ==
    /\ Goto(q, "revoke", "ok")
    /\ Revoke(op[q].target) \/ UNCHANGED revoked
    /\ UNCHANGED <<hash, expired, recent, issued, spent, op, late>>

\* By an administrator, and by the owner.
postUserSessionRevoke(q) == op[q].kind = "postUserSessionRevoke" /\ RevokeTarget(q)

postSessionRevoke(q) == op[q].kind = "postSessionRevoke" /\ RevokeTarget(q)

\* postLogout: SessionByToken, then RevokeSession of what it found; the
\* cookie is cleared and the answer is the same in every case.
FindSession(q) ==
    /\ \/ op[q].session \notin revoked \cup expired /\ Goto(q, "findSession", "logout")
       \/ Goto(q, "findSession", "ok")
    /\ UNCHANGED <<sessVars, op, late>>

postLogout(q) ==
    /\ Goto(q, "logout", "ok")
    /\ Revoke(op[q].session) \/ UNCHANGED revoked
    /\ UNCHANGED <<hash, expired, recent, issued, spent, op, late>>
-----------------------------------------------------------------------------
(***************************************************************************)
(* RotateRefreshToken                                                      *)
(***************************************************************************)
\* The SELECT by the hash of the old token, and the checks.
SelectByToken(q) ==
    LET s == op[q].session IN
    /\ \/ /\ Goto(q, "select", "rotate")
          /\ hash[s] = op[q].token /\ s \notin revoked \cup expired \cup recent
       \/ Goto(q, "select", "refused")
    /\ UNCHANGED <<sessVars, op, late>>

\* Mutant: the UPDATE also sets revoked_at = NULL.
Replace_Revives(s) ==
    /\ hash' = [hash EXCEPT ![s] = issued[s] + 1]
    /\ expired' = expired \ {s} /\ recent' = recent \cup {s}
    /\ revoked' = revoked \ {s}

\* Mutant: refresh_token_hash is not in the SET list.
Replace_KeepsHash(s) ==
    /\ expired' = expired \ {s} /\ recent' = recent \cup {s}
    /\ UNCHANGED <<hash, revoked>>

\* UPDATE sessions SET refresh_token_hash, last_seen_at, expires_at WHERE id = s
Replace(s) ==
    /\ hash' = [hash EXCEPT ![s] = issued[s] + 1]
    /\ expired' = expired \ {s} /\ recent' = recent \cup {s}
    /\ UNCHANGED revoked

\* A fresh token replaces whatever the row holds by now; when the call fails
\* the client has no new token.
RotateRefreshToken(q) ==
    LET s == op[q].session IN
    /\ at[q] = "rotate" /\ issued[s] < MaxTokens
    /\ issued' = [issued EXCEPT ![s] = @ + 1]
    /\ \/ /\ Goto(q, "rotate", "ok") /\ Replace(s)
          /\ spent' = spent \cup {<<s, op[q].token>>}
       \/ /\ Goto(q, "rotate", "failed") /\ UNCHANGED spent
          /\ Replace(s) \/ UNCHANGED rowVars
    /\ UNCHANGED <<op, late>>
-----------------------------------------------------------------------------
(***************************************************************************)
(* Properties                                                              *)
(***************************************************************************)
Refusable(q) == at[q] \in {"validate", "select", "refused"}

\* Revocation is final: a request that begins when its session has been
\* revoked, by an administrator, by its owner or by a logout, is refused,
\* whatever checks, touches and rotations of the session were in flight at
\* that moment.
RevokedIsFinal == \A q \in late : Refusable(q)

\* The SELECT of a rotation accepts no token that has been exchanged by then.
RefusesSpent ==
    \A q \in Reqs : at[q] = "select" /\ at'[q] = "rotate" =>
                        <<op[q].session, op[q].token>> \notin spent
=============================================================================
