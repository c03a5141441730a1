----------------------------- MODULE Enrollment -----------------------------
(***************************************************************************)
(* How the service starts and users enter it: Migrate                      *)
(* (internal/db/migrate.go) and Bootstrap (internal/auth/bootstrap.go),    *)
(* which main runs in this order, the invite tokens (invite.go), the       *)
(* enrollment, login and device pages of the admin console                 *)
(* (internal/admin/admin.go) and the WebAuthn ceremonies and web sessions  *)
(* they use (webauthn.go, session.go).                                     *)
(*                                                                         *)
(* A ceremony is two requests: one that begins it and leaves its data in   *)
(* the in-memory map waSessions under a fresh nonce, and one that takes    *)
(* the data out again and completes it.  Every database call is a step of  *)
(* its own, may fail, and may have taken effect although it failed.        *)
(***************************************************************************)
EXTENDS Naturals, Sequences, FiniteSets

CONSTANTS
    Emails,         \* users are identified by their (unique) email
    AdminEmail,     \* ADMIN_EMAIL
    Tokens,         \* invite tokens, each minted at most once
    NoToken,
    Begins,         \* requests GET /admin/enroll and POST /admin/login; the
                    \* nonce of a ceremony is named by the request that began it
    Finishes,       \* requests POST /admin/enroll and POST /admin/login/complete
    Migrations,     \* number of migration files
    MaxCrashes      \* bound on process crashes

ASSUME EnrollmentAssumption ==
    /\ AdminEmail \in Emails /\ NoToken \notin Tokens
    /\ Begins # {} /\ Migrations \in Nat /\ MaxCrashes \in Nat

Roles == {"admin", "member"}
Nobody == [status |-> "none", role |-> "member"]

VARIABLES
    \* Postgres
    schema,     \* schema_migrations: the versions recorded
    users,      \* users[e]: status and global_role, Nobody if there is no row
    invites,    \* invites[t]: the row of token t
    passkeys,   \* rows of passkeys: [finish, email]
    sessions,   \* rows of sessions with kind 'web': [finish, email]
    \* the process
    boot,       \* where main stands; "serving" once Bootstrap returned nil
    mig,        \* the migration Migrate has come to
    waSessions, \* nonces of the ceremonies begun and not completed
    begin,      \* begin[b]: pc, kind, email and token of the request
    finish,     \* finish[f]: pc, kind and nonce of the request
    crashes,
    \* the world
    expired,    \* tokens past their expiry
    urls,       \* tokens whose enrollment URL was printed or logged
    \* history
    executed,   \* the migrations executed, in order
    registered, \* every passkey ever inserted
    redeemed,   \* <<t, b>>: request b redeemed token t
    bootTokens  \* tokens minted by Bootstrap

dbVars == <<users, invites, passkeys, sessions>>
startVars == <<schema, mig, executed>>
vars == <<startVars, registered, dbVars, boot, waSessions, begin, finish, crashes, expired, urls,
          redeemed, bootTokens>>

NoInvite == [minted |-> FALSE, email |-> AdminEmail, role |-> "member",
             used |-> FALSE]

Init ==
    /\ users = [e \in Emails |-> Nobody]
    /\ invites = [t \in Tokens |-> NoInvite]
    /\ passkeys = {} /\ sessions = {}
    /\ schema = {} /\ executed = <<>> /\ mig = 1 /\ registered = {}
    /\ boot = "migrate" /\ waSessions = {}
    /\ begin = [b \in Begins |-> [pc |-> "idle", kind |-> "enroll",
                                  email |-> AdminEmail, token |-> NoToken]]
    /\ finish = [f \in Finishes |-> [pc |-> "idle", kind |-> "enroll",
                                     nonce |-> CHOOSE b \in Begins : TRUE]]
    /\ crashes = 0 /\ expired = {} /\ urls = {} /\ redeemed = {} /\ bootTokens = {}

Serving == boot = "serving"
-----------------------------------------------------------------------------
(***************************************************************************)
(* Migrate and Bootstrap.  An error makes main exit; the service is then   *)
(* restarted and begins again, which is the step Restart.                  *)
(***************************************************************************)
migrateUnchanged == <<dbVars, registered, waSessions, begin, finish, crashes,
                      expired, urls, redeemed, bootTokens>>

\* SELECT COUNT(*) FROM schema_migrations: a version on record is skipped.
CheckMigration ==
    /\ boot = "migrate" /\ mig <= Migrations
    /\ \/ mig \in schema /\ mig' = mig + 1 /\ UNCHANGED boot
       \/ mig \notin schema /\ boot' = "apply" /\ UNCHANGED mig
    /\ UNCHANGED <<schema, executed, migrateUnchanged>>

\* Mutant: no transaction around the script and its record.
ApplyMigration_NoTx ==
    /\ boot = "apply"
    /\ executed' = Append(executed, mig)
    /\ \/ schema' = schema \cup {mig} /\ boot' = "migrate" /\ mig' = mig + 1
       \/ UNCHANGED <<schema, boot, mig>>
    /\ UNCHANGED migrateUnchanged

\* One transaction: the script of the migration and its record.
ApplyMigration ==
    /\ boot = "apply"
    /\ executed' = Append(executed, mig)
    /\ schema' = schema \cup {mig}
    /\ boot' = "migrate" /\ mig' = mig + 1
    /\ UNCHANGED migrateUnchanged

MigrationsDone ==
    /\ boot = "migrate" /\ mig > Migrations
    /\ boot' = "check"
    /\ UNCHANGED <<startVars, migrateUnchanged>>

bootUnchanged == <<startVars, registered, passkeys, sessions, waSessions, begin, finish, crashes,
                   expired, redeemed>>

\* Mutant: an existing admin is given a new URL at every start.
BootCheck_AlwaysMints ==
    /\ boot = "check"
    /\ boot' = IF users[AdminEmail] = Nobody THEN "insert" ELSE "mint"
    /\ UNCHANGED <<users, invites, urls, bootTokens, bootUnchanged>>

\* SELECT id FROM users WHERE email = adminEmail
BootCheck ==
    /\ boot = "check"
    /\ boot' = IF users[AdminEmail] = Nobody THEN "insert" ELSE "serving"
    /\ UNCHANGED <<users, invites, urls, bootTokens, bootUnchanged>>

\* INSERT INTO users: only this process inserts before it serves.
BootInsert ==
    /\ boot = "insert"
    /\ boot' = "mint"
    /\ users' = [users EXCEPT ![AdminEmail] = [status |-> "active", role |-> "admin"]]
    /\ UNCHANGED <<invites, urls, bootTokens, bootUnchanged>>

\* MintInviteTokenWithDuration: sign a fresh token and insert its row.
Mint(t, e, r) ==
    /\ ~invites[t].minted
    /\ invites' = [invites EXCEPT ![t] =
                     [minted |-> TRUE, email |-> e, role |-> r, used |-> FALSE]]

BootMint(t) ==
    /\ boot = "mint"
    /\ Mint(t, AdminEmail, "admin")
    /\ boot' = "print"
    /\ bootTokens' = bootTokens \cup {t}
    /\ UNCHANGED <<users, urls, bootUnchanged>>

BootPrint ==
    /\ boot = "print"
    /\ boot' = "serving"
    /\ urls' = urls \cup bootTokens
    /\ UNCHANGED <<users, invites, bootTokens, bootUnchanged>>

\* The process dies, or exits because a step of Migrate or Bootstrap failed:
\* the requests in flight and waSessions are lost.
Restart ==
    /\ crashes < MaxCrashes
    /\ crashes' = crashes + 1
    /\ boot' = "migrate" /\ mig' = 1 /\ waSessions' = {}
    /\ begin' = [b \in Begins |-> IF begin[b].pc = "idle" THEN begin[b]
                                  ELSE [begin[b] EXCEPT !.pc = "done"]]
    /\ finish' = [f \in Finishes |-> IF finish[f].pc = "idle" THEN finish[f]
                                     ELSE [finish[f] EXCEPT !.pc = "done"]]
    /\ UNCHANGED <<schema, executed, registered, dbVars, expired, urls, redeemed,
                   bootTokens>>
-----------------------------------------------------------------------------
(***************************************************************************)
(* The console: invitations and deactivation, by anyone with a session     *)
(***************************************************************************)
\* postUsersInvite; the URL is logged.
postUsersInvite(t, e, r) ==
    /\ Serving /\ sessions # {}
    /\ Mint(t, e, r)
    /\ urls' = urls \cup {t}
    /\ UNCHANGED <<startVars, registered, users, passkeys, sessions, boot, waSessions,
                   begin, finish, crashes, expired, redeemed, bootTokens>>

\* postUserDeactivate, DeactivateUser
postUserDeactivate(e) ==
    /\ Serving /\ sessions # {}
    /\ users[e].status = "active"
    /\ users' = [users EXCEPT ![e].status = "disabled"]
    /\ UNCHANGED <<startVars, registered, invites, passkeys, sessions, boot, waSessions,
                   begin, finish, crashes, expired, urls, redeemed, bootTokens>>

\* postDeviceRemove, DeletePasskey
postDeviceRemove(k) ==
    /\ Serving /\ sessions # {}
    /\ passkeys' = passkeys \ {k}
    /\ UNCHANGED <<startVars, registered, users, invites, sessions, boot, waSessions,
                   begin, finish, crashes, expired, urls, redeemed, bootTokens>>

\* Time passes.
Expire(t) ==
    /\ invites[t].minted /\ t \notin expired
    /\ expired' = expired \cup {t}
    /\ UNCHANGED <<startVars, registered, dbVars, boot, waSessions, begin, finish,
                   crashes, urls, redeemed, bootTokens>>
-----------------------------------------------------------------------------
(***************************************************************************)
(* getEnroll and postLogin: the first half of a ceremony                   *)
(***************************************************************************)
beginUnchanged == <<startVars, registered, passkeys, sessions, boot, finish, crashes, expired, urls,
                    bootTokens>>

GotoBegin(b, from, to) ==
    /\ begin[b].pc = from
    /\ begin' = [begin EXCEPT ![b].pc = to]

\* RedeemInviteToken up to its query: the signature and expiry of the token,
\* then the row; a used token is refused.
SelectInvite(b, t) ==
    /\ Serving /\ begin[b].pc = "idle" /\ t \in urls
    /\ begin' = [begin EXCEPT ![b] =
         [pc |-> IF t \in expired \/ invites[t].used THEN "done" ELSE "mark",
          kind |-> "enroll", email |-> invites[t].email, token |-> t]]
    /\ UNCHANGED <<users, invites, waSessions, redeemed, beginUnchanged>>

\* Mutant: the token is not marked.
MarkUsed_Forgets(b) ==
    /\ GotoBegin(b, "mark", "find")
    /\ redeemed' = redeemed \cup {<<begin[b].token, b>>}
    /\ UNCHANGED <<users, invites, waSessions, beginUnchanged>>

\* UPDATE invites SET used_at: no condition on used_at.  On an error the
\* handler answers 400, whether or not the row was updated.
MarkUsed(b) ==
    /\ \/ /\ GotoBegin(b, "mark", "find")
          /\ invites' = [invites EXCEPT ![begin[b].token].used = TRUE]
          /\ redeemed' = redeemed \cup {<<begin[b].token, b>>}
       \/ /\ GotoBegin(b, "mark", "done")
          /\ invites' \in {invites, [invites EXCEPT ![begin[b].token].used = TRUE]}
          /\ UNCHANGED redeemed
    /\ UNCHANGED <<users, waSessions, beginUnchanged>>

\* ensureUser, its query: an error is taken for "no such user".  The project
\* ids of every invite are empty, so no membership is added.
FindUser(b) ==
    /\ \/ users[begin[b].email] # Nobody /\ GotoBegin(b, "find", "challenge")
       \/ GotoBegin(b, "find", "insert")
    /\ UNCHANGED <<users, invites, waSessions, redeemed, beginUnchanged>>

\* Mutant: the role of a member of a project as the global role.
InsertUser_ProjectRole(b) ==
    /\ GotoBegin(b, "insert", "challenge")
    /\ users' = [users EXCEPT ![begin[b].email] =
           [status |-> "active", role |-> "editor"]]
    /\ UNCHANGED <<invites, waSessions, redeemed, beginUnchanged>>

\* ensureUser, its INSERT ... ON CONFLICT (email) DO UPDATE.
InsertUser(b) ==
    /\ \/ /\ GotoBegin(b, "insert", "challenge") \/ GotoBegin(b, "insert", "done")
          /\ users' = [users EXCEPT ![begin[b].email] =
                 [status |-> "active", role |-> invites[begin[b].token].role]]
       \/ GotoBegin(b, "insert", "done") /\ UNCHANGED users
    /\ UNCHANGED <<invites, waSessions, redeemed, beginUnchanged>>

\* BeginRegistration loads the user, who must be active; storeWASession.
BeginRegistration(b) ==
    /\ \/ /\ users[begin[b].email].status = "active"
          /\ GotoBegin(b, "challenge", "done")
          /\ waSessions' = waSessions \cup {b}
       \/ GotoBegin(b, "challenge", "done") /\ UNCHANGED waSessions
    /\ UNCHANGED <<users, invites, redeemed, beginUnchanged>>

\* postLogin: BeginAssertion needs an active user with a passkey.
postLogin(b, e) ==
    /\ Serving /\ begin[b].pc = "idle"
    /\ users[e].status = "active" /\ \E k \in passkeys : k.email = e
    /\ begin' = [begin EXCEPT ![b] =
         [pc |-> "done", kind |-> "login", email |-> e, token |-> NoToken]]
    /\ waSessions' = waSessions \cup {b}
    /\ UNCHANGED <<users, invites, redeemed, beginUnchanged>>

getEnroll(b) == MarkUsed(b) \/ FindUser(b) \/ InsertUser(b) \/ BeginRegistration(b)
-----------------------------------------------------------------------------
(***************************************************************************)
(* postEnroll and postLoginComplete: the second half                       *)
(***************************************************************************)
finishUnchanged == <<startVars, users, invites, boot, begin, crashes, expired, urls,
                     redeemed, bootTokens>>

GotoFinish(f, from, to) ==
    /\ finish[f].pc = from
    /\ finish' = [finish EXCEPT ![f].pc = to]

\* The user a ceremony was begun for.
UserOf(f) == begin[finish[f].nonce].email

\* Mutant: the entry is read and left in the map.
popWASession_Leaves(f, kind, n) ==
    /\ Serving /\ finish[f].pc = "idle"
    /\ finish' = [finish EXCEPT ![f] =
         [pc |-> IF n \in waSessions THEN "load" ELSE "done",
          kind |-> kind, nonce |-> n]]
    /\ UNCHANGED <<waSessions, passkeys, registered, sessions, finishUnchanged>>

\* popWASession, under the mutex: an unknown nonce is refused.
popWASession(f, kind, n) ==
    /\ Serving /\ finish[f].pc = "idle"
    /\ finish' = [finish EXCEPT ![f] =
         [pc |-> IF n \in waSessions THEN "load" ELSE "done",
          kind |-> kind, nonce |-> n]]
    /\ waSessions' = waSessions \ {n}
    /\ UNCHANGED <<passkeys, registered, sessions, finishUnchanged>>

\* loadUser, then the verification by the WebAuthn library (external).  One map
\* holds the data of both kinds of ceremonies; the library refuses to register
\* with the data of a login, which name no parameters of a credential, and
\* accepts a login only with a passkey the user still has.
LoadUser(f) ==
    /\ \/ /\ users[UserOf(f)].status = "active"
          /\ finish[f].kind = "enroll" => begin[finish[f].nonce].kind = "enroll"
          /\ finish[f].kind = "login" => \E k \in passkeys : k.email = UserOf(f)
          /\ GotoFinish(f, "load", IF finish[f].kind = "enroll" THEN "passkey"
                                                                ELSE "session")
       \/ GotoFinish(f, "load", "done")
    /\ UNCHANGED <<waSessions, passkeys, registered, sessions, finishUnchanged>>

AddPasskey(f) ==
    LET k == [finish |-> f, email |-> UserOf(f)] IN
    passkeys' = passkeys \cup {k} /\ registered' = registered \cup {k}

\* Mutant: the error of the INSERT is ignored.
InsertPasskey_IgnoresError(f) ==
    /\ GotoFinish(f, "passkey", "session")
    /\ AddPasskey(f) \/ UNCHANGED <<passkeys, registered>>
    /\ UNCHANGED <<waSessions, sessions, finishUnchanged>>

\* INSERT INTO passkeys
InsertPasskey(f) ==
    /\ \/ /\ GotoFinish(f, "passkey", "session") \/ GotoFinish(f, "passkey", "done")
          /\ AddPasskey(f)
       \/ GotoFinish(f, "passkey", "done") /\ UNCHANGED <<passkeys, registered>>
    /\ UNCHANGED <<waSessions, sessions, finishUnchanged>>

\* INSERT INTO sessions
IssueWebSession(f) ==
    /\ GotoFinish(f, "session", "done")
    /\ sessions' \in {sessions, sessions \cup {[finish |-> f, email |-> UserOf(f)]}}
    /\ UNCHANGED <<waSessions, passkeys, registered, finishUnchanged>>

postEnroll(f, n) == popWASession(f, "enroll", n)

postLoginComplete(f, n) == popWASession(f, "login", n)

Complete(f) == LoadUser(f) \/ InsertPasskey(f) \/ IssueWebSession(f)
-----------------------------------------------------------------------------
Migrate == CheckMigration \/ ApplyMigration \/ MigrationsDone

Bootstrap == BootCheck \/ BootInsert \/ (\E t \in Tokens : BootMint(t)) \/ BootPrint

Next ==
    \/ Migrate
    \/ Bootstrap
    \/ Restart
    \/ \E t \in Tokens : \/ Expire(t)
                         \/ \E e \in Emails, r \in Roles : postUsersInvite(t, e, r)
    \/ \E e \in Emails : postUserDeactivate(e)
    \/ \E k \in passkeys : postDeviceRemove(k)
    \/ \E b \in Begins : \/ \E t \in Tokens : SelectInvite(b, t)
                         \/ \E e \in Emails : postLogin(b, e)
                         \/ getEnroll(b)
    \/ \E f \in Finishes : \/ \E n \in Begins : \/ postEnroll(f, n)
                                                \/ postLoginComplete(f, n)
                           \/ Complete(f)

Spec == Init /\ [][Next]_vars
-----------------------------------------------------------------------------
(***************************************************************************)
(* Properties                                                              *)
(***************************************************************************)
\* Every variable stays in its type.
TypeOK ==
    /\ users \in [Emails -> [status : {"none", "active", "disabled"}, role : Roles]]
    /\ invites \in [Tokens -> [minted : BOOLEAN, email : Emails, role : Roles,
                               used : BOOLEAN]]
    /\ passkeys \subseteq [finish : Finishes, email : Emails]
    /\ sessions \subseteq [finish : Finishes, email : Emails]
    /\ schema \subseteq 1..Migrations /\ mig \in 1..(Migrations + 1)
    /\ executed \in Seq(1..Migrations)
    /\ registered \subseteq [finish : Finishes, email : Emails]
    /\ boot \in {"migrate", "apply", "check", "insert", "mint", "print", "serving"}
    /\ waSessions \subseteq Begins
    /\ begin \in [Begins -> [pc : {"idle", "mark", "find", "insert", "challenge", "done"},
                             kind : {"enroll", "login"}, email : Emails,
                             token : Tokens \cup {NoToken}]]
    /\ finish \in [Finishes -> [pc : {"idle", "load", "passkey", "session", "done"},
                                kind : {"enroll", "login"}, nonce : Begins]]
    /\ crashes \in 0..MaxCrashes
    /\ expired \subseteq Tokens /\ urls \subseteq Tokens /\ bootTokens \subseteq Tokens
    /\ redeemed \subseteq Tokens \X Begins

\* A ceremony is completed at most once: two requests that present the same
\* nonce, at the same time or one after the other, never both leave a passkey
\* or a session.
CeremonyCompletesOnce ==
    \A r, s \in registered \cup sessions :
        finish[r.finish].nonce = finish[s.finish].nonce => r.finish = s.finish

\* Every passkey is that of an invited user: it was registered in a ceremony
\* begun with a token minted for that email, and the token is now spent.
PasskeysWereInvited ==
    \A k \in registered :
        LET b == begin[finish[k.finish].nonce] IN
        /\ b.token # NoToken
        /\ invites[b.token].minted /\ invites[b.token].used
        /\ invites[b.token].email = k.email

\* Every session is one of a user who has registered a passkey, although the
\* passkey and the session are two inserts and the process may die in between.
SessionsHavePasskeys ==
    \A s \in sessions : \E k \in registered : k.email = s.email

\* Bootstrap mints at most one enrollment token, however often the service is
\* restarted and wherever an earlier run of Bootstrap was interrupted.
BootstrapMintsOnce == Cardinality(bootTokens) <= 1

\* Every migration is executed once and in the order of the files, however
\* often the start is interrupted, and the service runs on the whole schema.
MigrationsRunOnce ==
    /\ executed = [i \in 1..Len(executed) |-> i]
    /\ schema = 1..Len(executed)
    /\ boot \notin {"migrate", "apply"} => Len(executed) = Migrations
-----------------------------------------------------------------------------
(***************************************************************************)
(* What the documents and comments say and the code does not do            *)
(***************************************************************************)
\* RemoteSync.md: the invite token is "JWT, 7-day expiry, single-use".  The
\* query and the update of RedeemInviteToken are two statements.
InviteIsSingleUse ==
    \A x, y \in redeemed : x[1] = y[1] => x[2] = y[2]
=============================================================================
