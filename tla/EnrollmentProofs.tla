-------------------------- MODULE EnrollmentProofs --------------------------
(***************************************************************************)
(* The start of the service and the ways into it, for any number of        *)
(* migrations, users, tokens, requests and crashes.                        *)
(***************************************************************************)
EXTENDS Enrollment, FiniteSetTheorems, TLAPS

\* The rows and the requests.
UserRow == [status : {"none", "active", "disabled"}, role : Roles]
InviteRow == [minted : BOOLEAN, email : Emails, role : Roles, used : BOOLEAN]
RecordRow == [finish : Finishes, email : Emails]
BeginReq == [pc : {"idle", "mark", "find", "insert", "challenge", "done"},
             kind : {"enroll", "login"}, email : Emails, token : Tokens \cup {NoToken}]
FinishReq == [pc : {"idle", "load", "passkey", "session", "done"},
              kind : {"enroll", "login"}, nonce : Begins]

\* TypeOK, in parts.
StartTypes ==
    /\ schema \subseteq 1..Migrations /\ mig \in 1..(Migrations + 1)
    /\ executed \in Seq(1..Migrations)
    /\ boot \in {"migrate", "apply", "check", "insert", "mint", "print", "serving"}
    /\ crashes \in 0..MaxCrashes

TokenTypes ==
    /\ users \in [Emails -> UserRow] /\ invites \in [Tokens -> InviteRow]
    /\ expired \subseteq Tokens /\ urls \subseteq Tokens /\ bootTokens \subseteq Tokens

CeremonyTypes ==
    /\ passkeys \subseteq RecordRow /\ sessions \subseteq RecordRow
    /\ registered \subseteq RecordRow
    /\ waSessions \subseteq Begins
    /\ begin \in [Begins -> BeginReq] /\ finish \in [Finishes -> FinishReq]
    /\ redeemed \subseteq Tokens \X Begins

TypeInv == StartTypes /\ TokenTypes /\ CeremonyTypes

\* The parts make up TypeOK.
LEMMA TypesInParts == TypeInv <=> TypeOK
BY DEF TypeInv, StartTypes, TokenTypes, CeremonyTypes, UserRow, InviteRow, RecordRow,
       BeginReq, FinishReq, TypeOK
-----------------------------------------------------------------------------
(***************************************************************************)
(* The start                                                               *)
(***************************************************************************)
\* Migrate never gets ahead of the schema: the migration it has come to is at
\* most the first one not executed, and the one it applies is exactly that one.
StartInv ==
    /\ MigrationsRunOnce
    /\ Len(executed) <= Migrations /\ mig <= Len(executed) + 1
    /\ boot = "apply" => mig = Len(executed) + 1 /\ mig <= Migrations

\* Initially no migration has run.
LEMMA InitStart == Init => TypeInv /\ StartInv
<1> SUFFICES ASSUME Init PROVE TypeInv /\ StartInv
  OBVIOUS
<1>1. TypeInv
  BY EnrollmentAssumption DEF Init, TypeInv, StartTypes, TokenTypes, CeremonyTypes, UserRow,
     InviteRow, RecordRow, BeginReq, FinishReq, Nobody, NoInvite, Roles
<1>2. /\ Len(executed) = 0 /\ schema = {} /\ mig = 1 /\ boot = "migrate"
      /\ executed = <<>>
  BY DEF Init
<1>3. executed = [i \in 1..Len(executed) |-> i]
  BY <1>2
<1>4. schema = 1..Len(executed)
  BY <1>2
<1> QED
  BY <1>1, <1>2, <1>3, <1>4, EnrollmentAssumption DEF StartInv, MigrationsRunOnce

\* The steps of Migrate keep the record and the executions together.
LEMMA NextStart ==
    ASSUME StartTypes, StartInv, [Next]_vars
    PROVE  StartTypes' /\ StartInv'
<1>0. /\ executed \in Seq(1..Migrations) /\ Len(executed) \in Nat
      /\ mig \in Nat /\ mig >= 1 /\ Migrations \in Nat /\ MaxCrashes \in Nat
      /\ schema = 1..Len(executed) /\ executed = [i \in 1..Len(executed) |-> i]
  <2>1. executed \in Seq(1..Migrations) /\ mig \in 1..(Migrations + 1)
    BY DEF StartTypes
  <2>2. Len(executed) \in Nat
    BY <2>1
  <2>3. mig \in Nat /\ mig >= 1 /\ Migrations \in Nat /\ MaxCrashes \in Nat
    BY <2>1, EnrollmentAssumption
  <2>4. schema = 1..Len(executed) /\ executed = [i \in 1..Len(executed) |-> i]
    BY DEF StartInv, MigrationsRunOnce
  <2> QED
    BY <2>1, <2>2, <2>3, <2>4
<1>1. CASE CheckMigration
  <2>1. /\ UNCHANGED <<schema, executed, crashes>>
        /\ boot = "migrate" /\ mig <= Migrations
        /\ \/ mig <= Len(executed) /\ mig' = mig + 1 /\ boot' = boot
           \/ mig > Len(executed) /\ mig' = mig /\ boot' = "apply"
    BY <1>0, <1>1 DEF CheckMigration, migrateUnchanged
  <2>2. StartTypes'
    BY <1>0, <2>1 DEF StartTypes
  <2>3. MigrationsRunOnce'
    BY <2>1 DEF StartInv, MigrationsRunOnce
  <2> QED
    BY <1>0, <2>1, <2>2, <2>3 DEF StartInv
<1>2. CASE ApplyMigration
  <2>1. /\ mig = Len(executed) + 1 /\ mig <= Migrations /\ crashes' = crashes
        /\ executed' = Append(executed, mig) /\ schema' = schema \cup {mig}
        /\ boot' = "migrate" /\ mig' = mig + 1
    BY <1>2 DEF ApplyMigration, migrateUnchanged, StartInv
  <2>2. executed' \in Seq(1..Migrations) /\ Len(executed') = Len(executed) + 1
    BY <1>0, <2>1
  <2>3. executed' = [i \in 1..Len(executed') |-> i]
    <3>1. \A i \in 1..Len(executed') : executed'[i] = i
      <4> SUFFICES ASSUME NEW i \in 1..(Len(executed) + 1) PROVE executed'[i] = i
        BY <2>2
      <4>1. CASE i \in 1..Len(executed)
        <5>1. executed'[i] = executed[i]
          BY <1>0, <2>1, <4>1
        <5> QED
          BY <1>0, <4>1, <5>1
      <4>2. CASE i = Len(executed) + 1
        BY <1>0, <2>1, <4>2
      <4> QED
        BY <1>0, <4>1, <4>2
    <3>2. DOMAIN executed' = 1..Len(executed') /\ executed' = [i \in DOMAIN executed' |-> executed'[i]]
      BY <2>2
    <3> QED
      BY <3>1, <3>2
  <2>4. schema' = 1..Len(executed')
    BY <1>0, <2>1, <2>2
  <2>5. StartTypes'
    BY <1>0, <2>1, <2>2, <2>4 DEF StartTypes
  <2>6. MigrationsRunOnce'
    BY <2>1, <2>3, <2>4 DEF MigrationsRunOnce
  <2> QED
    BY <1>0, <2>1, <2>2, <2>5, <2>6 DEF StartInv
<1>3. CASE MigrationsDone
  <2>1. /\ boot' = "check" /\ mig > Migrations
        /\ UNCHANGED <<schema, mig, executed, crashes>>
    BY <1>3 DEF MigrationsDone, startVars, migrateUnchanged
  <2>2. Len(executed) <= Migrations /\ mig <= Len(executed) + 1
    BY DEF StartInv
  <2>3. Len(executed) = Migrations
    <3>1. \A a, b, c \in Nat : a <= c /\ b <= a + 1 /\ b > c => a = c
      OBVIOUS
    <3>2. Len(executed) \in Nat /\ mig \in Nat /\ Migrations \in Nat
      BY <1>0
    <3> QED
      BY <2>1, <2>2, <3>1, <3>2
  <2> QED
    <3>1. StartTypes'
      BY <2>1 DEF StartTypes
    <3>2. MigrationsRunOnce'
      BY <2>1, <2>3 DEF StartInv, MigrationsRunOnce
    <3> QED
      BY <1>0, <2>1, <2>2, <3>1, <3>2 DEF StartInv
<1>4. CASE Bootstrap
  <2>1. /\ boot \notin {"migrate", "apply"} /\ boot' \in {"insert", "mint", "print", "serving"}
        /\ UNCHANGED <<schema, mig, executed, crashes>>
    BY <1>4 DEF Bootstrap, BootCheck, BootInsert, BootMint, BootPrint, bootUnchanged, startVars
  <2> QED
    BY <2>1 DEF StartTypes, StartInv, MigrationsRunOnce
<1>5. CASE Restart
  <2>1. /\ boot' = "migrate" /\ mig' = 1 /\ crashes' = crashes + 1 /\ crashes < MaxCrashes
        /\ UNCHANGED <<schema, executed>>
    BY <1>5 DEF Restart
  <2>2. StartTypes'
    BY <1>0, <2>1 DEF StartTypes
  <2>3. MigrationsRunOnce'
    BY <2>1 DEF StartInv, MigrationsRunOnce
  <2> QED
    BY <1>0, <2>1, <2>2, <2>3 DEF StartInv
<1>6. CASE UNCHANGED <<startVars, boot, crashes>>
  BY <1>6 DEF StartTypes, StartInv, MigrationsRunOnce, startVars
<1> QED
  BY <1>1, <1>2, <1>3, <1>4, <1>5, <1>6
  DEF Next, Migrate, Expire, postUsersInvite, postUserDeactivate, postDeviceRemove,
      SelectInvite, postLogin, getEnroll, MarkUsed, FindUser, InsertUser, BeginRegistration,
      beginUnchanged, postEnroll, postLoginComplete, popWASession, Complete, LoadUser,
      InsertPasskey, IssueWebSession, finishUnchanged, vars

\* Every migration is executed once, in order, and none is missing when the
\* service runs, for any number of migrations and of interrupted starts.
THEOREM MigrationsAreExact == Spec => []MigrationsRunOnce
<1>1. TypeInv /\ StartInv => StartTypes /\ StartInv
  BY DEF TypeInv
<1>2. StartTypes /\ StartInv /\ [Next]_vars => (StartTypes /\ StartInv)'
  BY NextStart
<1>3. StartInv => MigrationsRunOnce
  BY DEF StartInv
<1> QED
  BY <1>1, <1>2, <1>3, InitStart, PTL DEF Spec
-----------------------------------------------------------------------------
(***************************************************************************)
(* The tokens                                                              *)
(***************************************************************************)
\* The step leaves the tokens and the users alone.
TokensStay == UNCHANGED <<users, invites, expired, urls, bootTokens>>

\* The step leaves the ceremonies alone, but for passkeys removed.
CeremoniesStay ==
    /\ UNCHANGED <<sessions, registered, waSessions, begin, finish, redeemed>>
    /\ passkeys' \subseteq passkeys

\* A minted token stays minted for its email, and a used one used.
InvitesKept ==
    \A t \in Tokens : invites[t].minted =>
        /\ invites'[t].minted /\ invites'[t].email = invites[t].email
        /\ invites[t].used => invites'[t].used

\* Bootstrap comes to the mint at most once: as long as the admin is missing
\* nothing has been minted, and it is the admin's insertion that leads there.
BootInv ==
    /\ users[AdminEmail] = Nobody => bootTokens = {}
    /\ boot \in {"insert", "mint"} => bootTokens = {}
    /\ boot \in {"mint", "print"} => users[AdminEmail] # Nobody
    /\ bootTokens = {} \/ \E t \in Tokens : bootTokens = {t}

\* A URL leads to a token that was minted.
UrlInv == \A t \in urls \cup bootTokens : invites[t].minted

TokenInv == TokenTypes /\ BootInv /\ UrlInv

\* What a step does to the tokens and the users.
TokenStep == TokenTypes' /\ InvitesKept /\ BootInv' /\ UrlInv'

\* A step of the start of the service.
LEMMA StartTokens ==
    ASSUME TokenInv, Migrate \/ Bootstrap
    PROVE  TokenStep /\ CeremoniesStay
<1> USE EnrollmentAssumption
<1>1. CASE Migrate
  <2>1. TokensStay /\ CeremoniesStay /\ boot' \in {"migrate", "apply", "check"}
    BY <1>1 DEF Migrate, CheckMigration, ApplyMigration, MigrationsDone, migrateUnchanged,
                dbVars, TokensStay, CeremoniesStay
  <2> QED
    BY <2>1 DEF TokensStay, TokenStep, TokenInv, TokenTypes, BootInv, UrlInv, InvitesKept
<1>2. CASE BootCheck
  <2>1. TokensStay /\ CeremoniesStay
        /\ boot' = IF users[AdminEmail] = Nobody THEN "insert" ELSE "serving"
    BY <1>2 DEF BootCheck, bootUnchanged, TokensStay, CeremoniesStay
  <2> QED
    BY <2>1 DEF TokensStay, TokenStep, TokenInv, TokenTypes, BootInv, UrlInv, InvitesKept
<1>3. CASE BootInsert
  <2>1. /\ CeremoniesStay /\ UNCHANGED <<invites, expired, urls, bootTokens>>
        /\ boot = "insert" /\ boot' = "mint"
        /\ users' = [users EXCEPT ![AdminEmail] = [status |-> "active", role |-> "admin"]]
    BY <1>3 DEF BootInsert, bootUnchanged, CeremoniesStay
  <2>2. users' \in [Emails -> UserRow] /\ users'[AdminEmail] # Nobody
    BY <2>1 DEF TokenInv, TokenTypes, UserRow, Roles, Nobody
  <2> QED
    BY <2>1, <2>2 DEF TokenStep, TokenInv, TokenTypes, BootInv, UrlInv, InvitesKept
<1>4. ASSUME NEW t \in Tokens, BootMint(t) PROVE TokenStep /\ CeremoniesStay
  <2>1. /\ CeremoniesStay /\ UNCHANGED <<users, expired, urls>>
        /\ boot = "mint" /\ boot' = "print" /\ bootTokens' = bootTokens \cup {t}
        /\ ~invites[t].minted
        /\ invites' = [invites EXCEPT ![t] = [minted |-> TRUE, email |-> AdminEmail,
                                              role |-> "admin", used |-> FALSE]]
    BY <1>4 DEF BootMint, Mint, bootUnchanged, CeremoniesStay
  <2>2. /\ invites' \in [Tokens -> InviteRow] /\ invites'[t].minted
        /\ \A u \in Tokens \ {t} : invites'[u] = invites[u]
    BY <2>1 DEF TokenInv, TokenTypes, InviteRow, Roles
  <2>3. bootTokens = {}
    BY <2>1 DEF TokenInv, BootInv
  <2> QED
    BY <2>1, <2>2, <2>3 DEF TokenStep, TokenInv, TokenTypes, BootInv, UrlInv, InvitesKept
<1>5. CASE BootPrint
  <2>1. /\ CeremoniesStay /\ UNCHANGED <<users, invites, expired, bootTokens>>
        /\ boot' = "serving" /\ urls' = urls \cup bootTokens
    BY <1>5 DEF BootPrint, bootUnchanged, CeremoniesStay
  <2> QED
    BY <2>1 DEF TokenStep, TokenInv, TokenTypes, BootInv, UrlInv, InvitesKept
<1> QED
  BY <1>1, <1>2, <1>3, <1>4, <1>5 DEF Bootstrap

\* A step of the console or of time.
LEMMA ConsoleTokens ==
    ASSUME TokenInv,
           \/ \E t \in Tokens : Expire(t) \/ \E e \in Emails, r \in Roles : postUsersInvite(t, e, r)
           \/ \E e \in Emails : postUserDeactivate(e)
           \/ \E k \in passkeys : postDeviceRemove(k)
    PROVE  TokenStep /\ CeremoniesStay
<1>1. ASSUME NEW t \in Tokens, Expire(t) PROVE TokenStep /\ CeremoniesStay
  BY <1>1 DEF Expire, dbVars, CeremoniesStay, TokenStep, TokenInv, TokenTypes, BootInv, UrlInv,
              InvitesKept
<1>2. ASSUME NEW t \in Tokens, NEW e \in Emails, NEW r \in Roles, postUsersInvite(t, e, r)
      PROVE  TokenStep /\ CeremoniesStay
  <2>1. /\ CeremoniesStay /\ UNCHANGED <<users, expired, bootTokens, boot>>
        /\ urls' = urls \cup {t} /\ ~invites[t].minted
        /\ invites' = [invites EXCEPT ![t] = [minted |-> TRUE, email |-> e,
                                              role |-> r, used |-> FALSE]]
    BY <1>2 DEF postUsersInvite, Mint, CeremoniesStay
  <2>2. /\ invites' \in [Tokens -> InviteRow] /\ invites'[t].minted
        /\ \A u \in Tokens \ {t} : invites'[u] = invites[u]
    BY <2>1 DEF TokenInv, TokenTypes, InviteRow
  <2> QED
    BY <2>1, <2>2 DEF TokenStep, TokenInv, TokenTypes, BootInv, UrlInv, InvitesKept
<1>3. ASSUME NEW e \in Emails, postUserDeactivate(e) PROVE TokenStep /\ CeremoniesStay
  <2>1. /\ CeremoniesStay /\ UNCHANGED <<invites, expired, urls, bootTokens, boot>>
        /\ users' = [users EXCEPT ![e].status = "disabled"]
    BY <1>3 DEF postUserDeactivate, CeremoniesStay
  <2>2. /\ users' \in [Emails -> UserRow]
        /\ \A u \in Emails : users'[u] = users[u] \/ users'[u] # Nobody
    BY <2>1 DEF TokenInv, TokenTypes, UserRow, Nobody
  <2> QED
    BY <2>1, <2>2, EnrollmentAssumption
    DEF TokenStep, TokenInv, TokenTypes, BootInv, UrlInv, InvitesKept
<1>4. ASSUME NEW k \in passkeys, postDeviceRemove(k) PROVE TokenStep /\ CeremoniesStay
  BY <1>4 DEF postDeviceRemove, CeremoniesStay, TokenStep, TokenInv, TokenTypes, BootInv, UrlInv,
              InvitesKept
<1> QED
  BY <1>1, <1>2, <1>3, <1>4
-----------------------------------------------------------------------------
(***************************************************************************)
(* The ceremonies                                                          *)
(***************************************************************************)
\* Request b holds a token minted for its email.
Holds(b) ==
    /\ begin[b].kind = "enroll" /\ begin[b].token \in Tokens
    /\ invites[begin[b].token].minted
    /\ invites[begin[b].token].email = begin[b].email

\* The token of request b is marked used.
Spent(b) == invites[begin[b].token].used

\* The ceremony b enrolls with a token minted for its email and marked used.
Redeemed(b) == begin[b].kind = "enroll" => Holds(b) /\ Spent(b)

\* While getEnroll runs it holds a token minted for the email, marked used once
\* the handler is past the UPDATE.
Enrolling(b) ==
    /\ begin[b].pc \in {"mark", "find", "insert", "challenge"} => Holds(b)
    /\ begin[b].pc \in {"find", "insert", "challenge"} => Spent(b)

\* Request f took a ceremony out of the map and may complete it, or did.
Claims(f) ==
    \/ finish[f].pc \in {"load", "passkey", "session"}
    \/ \E r \in registered \cup sessions : r.finish = f

\* A claimed ceremony is no longer in the map, and its first half is over.
Claimed(f) ==
    /\ finish[f].pc # "idle" /\ finish[f].nonce \notin waSessions
    /\ begin[finish[f].nonce].pc = "done" /\ Redeemed(finish[f].nonce)

\* A ceremony is in the map or claimed by one request, never both and never by
\* two; what is registered is registered for the user of a redeemed token.
CeremonyInv ==
    /\ \A b \in Begins : Enrolling(b)
    /\ \A n \in waSessions : begin[n].pc = "done" /\ Redeemed(n)
    /\ \A f \in Finishes : Claims(f) => Claimed(f)
    /\ \A f, g \in Finishes :
          Claims(f) /\ Claims(g) /\ finish[f].nonce = finish[g].nonce => f = g
    /\ \A f \in Finishes : finish[f].pc = "passkey" => begin[finish[f].nonce].kind = "enroll"
    /\ \A k \in registered : /\ k.email = UserOf(k.finish)
                             /\ begin[finish[k.finish].nonce].kind = "enroll"
    /\ passkeys \subseteq registered

\* A request that is to issue a session is one of a user with a passkey.
SessionInv ==
    /\ \A f \in Finishes : finish[f].pc = "session" => \E k \in registered : k.email = UserOf(f)
    /\ SessionsHavePasskeys

EnrollInv == TokenInv /\ CeremonyTypes /\ CeremonyInv /\ SessionInv

\* A request keeps the token it holds.
LEMMA TokenKept ==
    ASSUME InvitesKept, NEW b \in Begins, begin'[b].kind = begin[b].kind,
           begin'[b].email = begin[b].email, begin'[b].token = begin[b].token
    PROVE  (Holds(b) => Holds(b)') /\ (Holds(b) /\ Spent(b) => Spent(b)')
BY DEF InvitesKept, Holds, Spent

\* Steps that leave the ceremonies alone keep the invariant.
LEMMA CeremoniesKept ==
    ASSUME EnrollInv, TokenStep, CeremoniesStay
    PROVE  EnrollInv'
<1>1. CeremonyTypes'
  BY DEF EnrollInv, CeremoniesStay, CeremonyTypes
<1>2. \A b \in Begins : Redeemed(b) => Redeemed(b)'
  BY TokenKept DEF CeremoniesStay, TokenStep, Redeemed
<1>3. \A b \in Begins : Enrolling(b) => Enrolling(b)'
  BY TokenKept DEF CeremoniesStay, TokenStep, Enrolling
<1>4. \A f \in Finishes : Claims(f)' = Claims(f)
  BY DEF CeremoniesStay, Claims
<1>5. \A f \in Finishes : finish[f].nonce \in Begins /\ UserOf(f)' = UserOf(f)
  BY DEF CeremoniesStay, UserOf, EnrollInv, CeremonyTypes, FinishReq
<1>6. \A f \in Finishes : Claimed(f) => Claimed(f)'
  BY <1>2, <1>5 DEF Claimed, CeremoniesStay
<1>7. \A r \in registered : r.finish \in Finishes
  BY DEF EnrollInv, CeremonyTypes, RecordRow
<1>8. CeremonyInv'
  BY <1>2, <1>3, <1>4, <1>5, <1>6, <1>7 DEF EnrollInv, CeremonyTypes, CeremonyInv, CeremoniesStay
<1>9. SessionInv'
  BY <1>5 DEF EnrollInv, SessionInv, SessionsHavePasskeys, CeremoniesStay
<1> QED
  BY <1>1, <1>8, <1>9 DEF EnrollInv, TokenStep, TokenInv

\* What a step of the first half of ceremony b does.
BeginStep(b) ==
    /\ begin[b].pc # "done"
    /\ \A x \in Begins \ {b} : begin'[x] = begin[x]
    /\ UNCHANGED <<finish, registered, sessions, passkeys>>
    /\ waSessions' \subseteq waSessions \cup {b}
    /\ Enrolling(b)'
    /\ b \in waSessions' => begin'[b].pc = "done" /\ Redeemed(b)'

\* Steps of the first half keep the invariant.
LEMMA BeginKept ==
    ASSUME EnrollInv, TokenStep, CeremonyTypes', NEW b \in Begins, BeginStep(b)
    PROVE  EnrollInv'
<1>1. \A x \in Begins \ {b} : (Redeemed(x) => Redeemed(x)') /\ (Enrolling(x) => Enrolling(x)')
  BY TokenKept DEF BeginStep, TokenStep, Redeemed, Enrolling
<1>2. \A f \in Finishes : Claims(f)' = Claims(f)
  BY DEF BeginStep, Claims
<1>3. \A f \in Finishes : finish[f].nonce \in Begins
  BY DEF EnrollInv, CeremonyTypes, FinishReq
<1>4. \A f \in Finishes : Claims(f) => /\ Claimed(f) /\ finish[f].nonce # b
  BY DEF EnrollInv, CeremonyInv, Claimed, BeginStep
<1>5. \A f \in Finishes : Claims(f) => Claimed(f)' /\ UserOf(f)' = UserOf(f)
  BY <1>1, <1>3, <1>4 DEF Claimed, BeginStep, UserOf
<1>6. \A r \in registered \cup sessions : r.finish \in Finishes /\ Claims(r.finish)
  BY DEF EnrollInv, CeremonyTypes, RecordRow, Claims
<1>7. \A f \in Finishes : finish[f].pc \in {"passkey", "session"} => Claims(f)
  BY DEF Claims
<1>8. \A x \in Begins : Enrolling(x)'
  BY <1>1 DEF EnrollInv, CeremonyInv, BeginStep
<1>9. \A n \in waSessions' : begin'[n].pc = "done" /\ Redeemed(n)'
  BY <1>1 DEF EnrollInv, CeremonyInv, CeremonyTypes, BeginStep
<1>10. \A f \in Finishes : Claims(f)' => Claimed(f)'
  BY <1>2, <1>5
<1>11. \A f, g \in Finishes :
          Claims(f)' /\ Claims(g)' /\ finish'[f].nonce = finish'[g].nonce => f = g
  BY <1>2 DEF EnrollInv, CeremonyInv, BeginStep
<1>12. \A f \in Finishes : finish'[f].pc = "passkey" => begin'[finish'[f].nonce].kind = "enroll"
  BY <1>3, <1>4, <1>7 DEF EnrollInv, CeremonyInv, BeginStep
<1>13. \A k \in registered' : /\ k.email = UserOf(k.finish)'
                              /\ begin'[finish'[k.finish].nonce].kind = "enroll"
  BY <1>3, <1>4, <1>5, <1>6 DEF EnrollInv, CeremonyInv, BeginStep
<1>14. CeremonyInv'
  BY <1>8, <1>9, <1>10, <1>11, <1>12, <1>13 DEF EnrollInv, CeremonyInv, BeginStep
<1>15. SessionInv'
  BY <1>5, <1>7 DEF EnrollInv, SessionInv, SessionsHavePasskeys, BeginStep
<1> QED
  BY <1>14, <1>15 DEF EnrollInv, TokenStep, TokenInv

\* The first halves: getEnroll, call by call, and postLogin.
LEMMA BeginSteps ==
    ASSUME EnrollInv, NEW b \in Begins,
           \/ \E t \in Tokens : SelectInvite(b, t)
           \/ \E e \in Emails : postLogin(b, e)
           \/ getEnroll(b)
    PROVE  EnrollInv'
<1>0. /\ begin \in [Begins -> BeginReq] /\ begin[b] \in BeginReq /\ Enrolling(b)
      /\ users \in [Emails -> UserRow] /\ invites \in [Tokens -> InviteRow]
      /\ begin[b].email \in Emails
      /\ begin[b].pc # "done" => b \notin waSessions
  BY DEF EnrollInv, TokenInv, TokenTypes, CeremonyTypes, CeremonyInv, BeginReq
<1>1. ASSUME UNCHANGED <<users, invites, boot>>, UNCHANGED beginUnchanged PROVE TokenStep
  BY <1>1 DEF beginUnchanged, EnrollInv, TokenInv, TokenStep, TokenTypes, BootInv, UrlInv,
              InvitesKept
<1>2. ASSUME NEW to \in {"mark", "find", "insert", "challenge", "done"},
             begin' = [begin EXCEPT ![b].pc = to]
      PROVE  /\ begin' \in [Begins -> BeginReq]
             /\ \A x \in Begins \ {b} : begin'[x] = begin[x]
             /\ begin'[b].pc = to /\ begin'[b].kind = begin[b].kind
             /\ begin'[b].email = begin[b].email /\ begin'[b].token = begin[b].token
  BY <1>0, <1>2 DEF BeginReq
<1>3. ASSUME NEW t \in Tokens, SelectInvite(b, t) PROVE EnrollInv'
  <2>1. /\ UNCHANGED <<users, invites, waSessions, redeemed>> /\ UNCHANGED beginUnchanged
        /\ begin[b].pc = "idle" /\ t \in urls
        /\ begin' = [begin EXCEPT ![b] =
              [pc |-> IF t \in expired \/ invites[t].used THEN "done" ELSE "mark",
               kind |-> "enroll", email |-> invites[t].email, token |-> t]]
    BY <1>3 DEF SelectInvite
  <2>2. invites[t].minted /\ invites[t].email \in Emails
    BY <1>0, <2>1 DEF EnrollInv, TokenInv, UrlInv, InviteRow
  <2>3. /\ begin' \in [Begins -> BeginReq]
        /\ \A x \in Begins \ {b} : begin'[x] = begin[x]
        /\ begin'[b].pc \in {"done", "mark"} /\ begin'[b].kind = "enroll"
        /\ begin'[b].email = invites[t].email /\ begin'[b].token = t
    BY <1>0, <2>1, <2>2 DEF BeginReq
  <2>4. CeremonyTypes'
    BY <2>1, <2>3 DEF EnrollInv, CeremonyTypes, beginUnchanged
  <2>5. BeginStep(b)
    <3>1. Holds(b)'
      BY <2>1, <2>2, <2>3 DEF Holds
    <3> QED
      BY <1>0, <2>1, <2>3, <3>1 DEF BeginStep, beginUnchanged, Enrolling
  <2>6. TokenStep
    BY <1>1, <2>1 DEF beginUnchanged
  <2> QED
    BY <2>4, <2>5, <2>6, BeginKept
<1>4. ASSUME NEW e \in Emails, postLogin(b, e) PROVE EnrollInv'
  <2>1. /\ UNCHANGED <<users, invites, redeemed>> /\ UNCHANGED beginUnchanged
        /\ begin[b].pc = "idle" /\ waSessions' = waSessions \cup {b}
        /\ begin' = [begin EXCEPT ![b] =
              [pc |-> "done", kind |-> "login", email |-> e, token |-> NoToken]]
    BY <1>4 DEF postLogin
  <2>3. /\ begin' \in [Begins -> BeginReq]
        /\ \A x \in Begins \ {b} : begin'[x] = begin[x]
        /\ begin'[b].pc = "done" /\ begin'[b].kind = "login"
    BY <1>0, <2>1 DEF BeginReq
  <2>4. CeremonyTypes'
    BY <2>1, <2>3 DEF EnrollInv, CeremonyTypes, beginUnchanged
  <2>5. BeginStep(b)
    BY <1>0, <2>1, <2>3 DEF BeginStep, beginUnchanged, Enrolling, Redeemed
  <2>6. TokenStep
    BY <1>1, <2>1 DEF beginUnchanged
  <2> QED
    BY <2>4, <2>5, <2>6, BeginKept
<1>5. CASE MarkUsed(b)
  <2>1. /\ begin[b].pc = "mark" /\ UNCHANGED <<users, waSessions>> /\ UNCHANGED beginUnchanged
        /\ invites' \in {invites, [invites EXCEPT ![begin[b].token].used = TRUE]}
        /\ redeemed' \subseteq redeemed \cup {<<begin[b].token, b>>}
    BY <1>5 DEF MarkUsed, GotoBegin
  <2>2. Holds(b) /\ begin[b].token \in Tokens
    BY <1>0, <2>1 DEF Enrolling, Holds
  <2>3. invites' \in [Tokens -> InviteRow] /\ InvitesKept
    <3>1. CASE invites' = invites
      BY <1>0, <3>1 DEF InvitesKept
    <3>2. CASE invites' = [invites EXCEPT ![begin[b].token].used = TRUE]
      BY <1>0, <2>2, <3>2 DEF InviteRow, InvitesKept
    <3> QED
      BY <2>1, <3>1, <3>2
  <2>4. PICK to \in {"find", "done"} :
           /\ begin' = [begin EXCEPT ![b].pc = to]
           /\ to = "find" => invites' = [invites EXCEPT ![begin[b].token].used = TRUE]
    BY <1>5 DEF MarkUsed, GotoBegin
  <2>5. to = "find" => Spent(b)'
    <3> SUFFICES ASSUME to = "find" PROVE invites'[begin'[b].token].used
      BY DEF Spent
    <3>1. begin'[b].token = begin[b].token
      BY <1>2, <2>4
    <3> QED
      BY <1>0, <2>2, <2>4, <3>1 DEF InviteRow
  <2>6. TokenStep
    <3>1. TokenTypes' /\ InvitesKept
      BY <2>1, <2>3 DEF EnrollInv, TokenInv, TokenTypes, beginUnchanged, InvitesKept
    <3>2. BootInv' /\ UrlInv'
      BY <2>1, <2>3 DEF EnrollInv, TokenInv, TokenTypes, beginUnchanged, BootInv, UrlInv,
                        InvitesKept
    <3> QED
      BY <3>1, <3>2 DEF TokenStep
  <2>7. /\ begin' \in [Begins -> BeginReq]
        /\ \A x \in Begins \ {b} : begin'[x] = begin[x]
        /\ begin'[b].pc = to /\ begin'[b].kind = begin[b].kind
        /\ begin'[b].email = begin[b].email /\ begin'[b].token = begin[b].token
    BY <1>2, <2>4
  <2>8. CeremonyTypes'
    BY <2>1, <2>2, <2>7 DEF EnrollInv, CeremonyTypes, beginUnchanged
  <2>9. BeginStep(b)
    <3>1. Holds(b)'
      BY <2>2, <2>3, <2>7, TokenKept
    <3> QED
      BY <1>0, <2>1, <2>5, <2>7, <3>1 DEF BeginStep, beginUnchanged, Enrolling
  <2> QED
    BY <2>6, <2>8, <2>9, BeginKept
<1>6. CASE FindUser(b)
  <2>1. /\ begin[b].pc = "find" /\ UNCHANGED <<users, invites, waSessions, redeemed>>
        /\ UNCHANGED beginUnchanged
    BY <1>6 DEF FindUser, GotoBegin
  <2>2. PICK to \in {"challenge", "insert"} : begin' = [begin EXCEPT ![b].pc = to]
    BY <1>6 DEF FindUser, GotoBegin
  <2>3. /\ begin' \in [Begins -> BeginReq]
        /\ \A x \in Begins \ {b} : begin'[x] = begin[x]
        /\ begin'[b].pc = to /\ begin'[b].kind = begin[b].kind
        /\ begin'[b].email = begin[b].email /\ begin'[b].token = begin[b].token
    BY <1>2, <2>2
  <2>4. CeremonyTypes'
    BY <2>1, <2>3 DEF EnrollInv, CeremonyTypes, beginUnchanged
  <2>5. BeginStep(b)
    <3>1. Holds(b) /\ Spent(b) /\ InvitesKept
      BY <1>0, <2>1 DEF Enrolling, InvitesKept
    <3>2. Holds(b)' /\ Spent(b)'
      BY <2>3, <3>1, TokenKept
    <3> QED
      BY <1>0, <2>1, <2>3, <3>2 DEF BeginStep, beginUnchanged, Enrolling
  <2>6. TokenStep
    BY <1>1, <2>1 DEF beginUnchanged
  <2> QED
    BY <2>4, <2>5, <2>6, BeginKept
<1>7. CASE InsertUser(b)
  <2>1. /\ begin[b].pc = "insert" /\ UNCHANGED <<invites, waSessions, redeemed>>
        /\ UNCHANGED beginUnchanged
        /\ \/ users' = users
           \/ users' = [users EXCEPT ![begin[b].email] =
                 [status |-> "active", role |-> invites[begin[b].token].role]]
    BY <1>7 DEF InsertUser, GotoBegin
  <2>2. PICK to \in {"challenge", "done"} : begin' = [begin EXCEPT ![b].pc = to]
    BY <1>7 DEF InsertUser, GotoBegin
  <2>3. /\ begin' \in [Begins -> BeginReq]
        /\ \A x \in Begins \ {b} : begin'[x] = begin[x]
        /\ begin'[b].pc = to /\ begin'[b].kind = begin[b].kind
        /\ begin'[b].email = begin[b].email /\ begin'[b].token = begin[b].token
    BY <1>2, <2>2
  <2>4. CeremonyTypes'
    BY <2>1, <2>3 DEF EnrollInv, CeremonyTypes, beginUnchanged
  <2>5. BeginStep(b)
    <3>1. Holds(b) /\ Spent(b) /\ InvitesKept
      BY <1>0, <2>1 DEF Enrolling, InvitesKept
    <3>2. Holds(b)' /\ Spent(b)'
      BY <2>3, <3>1, TokenKept
    <3> QED
      BY <1>0, <2>1, <2>3, <3>2 DEF BeginStep, beginUnchanged, Enrolling
  <2>6. TokenStep
    <3>1. begin[b].token \in Tokens
      BY <1>0, <2>1 DEF Enrolling, Holds
    <3>2. invites[begin[b].token].role \in Roles
      BY <1>0, <3>1 DEF InviteRow
    <3>3. /\ users' \in [Emails -> UserRow]
          /\ \A u \in Emails : users'[u] = users[u] \/ users'[u] # Nobody
      BY <1>0, <2>1, <3>2 DEF UserRow, Nobody
    <3> QED
      BY <2>1, <3>3, EnrollmentAssumption
      DEF beginUnchanged, EnrollInv, TokenInv, TokenStep, TokenTypes, BootInv, UrlInv, InvitesKept
  <2> QED
    BY <2>4, <2>5, <2>6, BeginKept
<1>8. CASE BeginRegistration(b)
  <2>1. /\ begin[b].pc = "challenge" /\ UNCHANGED <<users, invites, redeemed>>
        /\ UNCHANGED beginUnchanged /\ waSessions' \in {waSessions, waSessions \cup {b}}
        /\ begin' = [begin EXCEPT ![b].pc = "done"]
    BY <1>8 DEF BeginRegistration, GotoBegin
  <2>3. /\ begin' \in [Begins -> BeginReq]
        /\ \A x \in Begins \ {b} : begin'[x] = begin[x]
        /\ begin'[b].pc = "done" /\ begin'[b].kind = begin[b].kind
        /\ begin'[b].email = begin[b].email /\ begin'[b].token = begin[b].token
    BY <1>2, <2>1
  <2>4. CeremonyTypes'
    BY <2>1, <2>3 DEF EnrollInv, CeremonyTypes, beginUnchanged
  <2>5. BeginStep(b)
    <3>1. Holds(b) /\ Spent(b) /\ InvitesKept
      BY <1>0, <2>1 DEF Enrolling, InvitesKept
    <3>2. Holds(b)' /\ Spent(b)'
      BY <2>3, <3>1, TokenKept
    <3> QED
      BY <1>0, <2>1, <2>3, <3>2 DEF BeginStep, beginUnchanged, Enrolling, Redeemed
  <2>6. TokenStep
    BY <1>1, <2>1 DEF beginUnchanged
  <2> QED
    BY <2>4, <2>5, <2>6, BeginKept
<1> QED
  BY <1>3, <1>4, <1>5, <1>6, <1>7, <1>8 DEF getEnroll

\* The second halves: what a request does to its own entry.
LEMMA FinishEntry ==
    ASSUME CeremonyTypes, NEW f \in Finishes,
           NEW to \in {"load", "passkey", "session", "done"},
           finish' = [finish EXCEPT ![f].pc = to]
    PROVE  /\ finish' \in [Finishes -> FinishReq]
           /\ finish'[f].pc = to
           /\ \A g \in Finishes : finish'[g].nonce = finish[g].nonce
           /\ \A g \in Finishes \ {f} : finish'[g] = finish[g]
BY DEF CeremonyTypes, FinishReq

\* postEnroll and postLoginComplete take the ceremony out of the map.
LEMMA PopSteps ==
    ASSUME EnrollInv, NEW f \in Finishes, NEW n \in Begins, NEW kind \in {"enroll", "login"},
           popWASession(f, kind, n)
    PROVE  EnrollInv'
<1>1. /\ finish[f].pc = "idle" /\ waSessions' = waSessions \ {n}
      /\ UNCHANGED <<passkeys, registered, sessions, users, invites, boot, begin, expired,
                     urls, redeemed, bootTokens>>
      /\ finish' = [finish EXCEPT ![f] = [pc |-> IF n \in waSessions THEN "load" ELSE "done",
                                          kind |-> kind, nonce |-> n]]
  BY DEF popWASession, finishUnchanged
<1>2. /\ finish' \in [Finishes -> FinishReq] /\ finish'[f].nonce = n
      /\ finish'[f].pc = IF n \in waSessions THEN "load" ELSE "done"
      /\ \A g \in Finishes \ {f} : finish'[g] = finish[g]
  BY <1>1 DEF EnrollInv, CeremonyTypes, FinishReq
<1>3. ~Claims(f)
  BY <1>1 DEF EnrollInv, CeremonyInv, Claimed
<1>4. /\ \A g \in Finishes \ {f} : Claims(g)' = Claims(g)
      /\ Claims(f)' => n \in waSessions
  BY <1>1, <1>2, <1>3 DEF Claims
<1>5. \A b \in Begins : Redeemed(b)' = Redeemed(b) /\ Enrolling(b)' = Enrolling(b)
  BY <1>1 DEF Redeemed, Enrolling, Holds, Spent
<1>6. \A g \in Finishes : Claims(g)' => Claimed(g)'
  <2> SUFFICES ASSUME NEW g \in Finishes, Claims(g)' PROVE Claimed(g)'
    OBVIOUS
  <2>1. CASE g = f
    BY <1>1, <1>2, <1>4, <1>5, <2>1 DEF EnrollInv, CeremonyInv, Claimed
  <2>2. CASE g # f
    <3>1. Claimed(g) /\ finish[g].nonce \in Begins
      BY <1>4, <2>2 DEF EnrollInv, CeremonyInv, CeremonyTypes, FinishReq
    <3> QED
      BY <1>1, <1>2, <1>5, <2>2, <3>1 DEF Claimed
  <2> QED
    BY <2>1, <2>2
<1>7. \A g, h \in Finishes :
         Claims(g)' /\ Claims(h)' /\ finish'[g].nonce = finish'[h].nonce => g = h
  <2>1. \A g \in Finishes \ {f} : Claims(g) => finish[g].nonce \notin waSessions
    BY DEF EnrollInv, CeremonyInv, Claimed
  <2>2. \A g \in Finishes \ {f} : Claims(g)' /\ Claims(f)' => finish'[g].nonce # finish'[f].nonce
    BY <1>2, <1>4, <2>1
  <2>3. \A g, h \in Finishes \ {f} :
          Claims(g)' /\ Claims(h)' /\ finish'[g].nonce = finish'[h].nonce => g = h
    BY <1>2, <1>4 DEF EnrollInv, CeremonyInv
  <2> QED
    BY <2>2, <2>3
<1>8. \A r \in registered \cup sessions : r.finish \in Finishes \ {f}
  BY <1>3 DEF EnrollInv, CeremonyTypes, RecordRow, Claims
<1>9. \A g \in Finishes \ {f} : UserOf(g)' = UserOf(g)
  BY <1>1, <1>2 DEF UserOf
<1>10. CeremonyInv'
  <2>1. \A g \in Finishes : finish'[g].pc = "passkey" => begin'[finish'[g].nonce].kind = "enroll"
    BY <1>1, <1>2 DEF EnrollInv, CeremonyInv
  <2>2. \A k \in registered' : /\ k.email = UserOf(k.finish)'
                               /\ begin'[finish'[k.finish].nonce].kind = "enroll"
    BY <1>1, <1>2, <1>8, <1>9 DEF EnrollInv, CeremonyInv
  <2>3. /\ \A b \in Begins : Enrolling(b)'
        /\ \A b \in waSessions' : begin'[b].pc = "done" /\ Redeemed(b)'
    BY <1>1, <1>5 DEF EnrollInv, CeremonyInv, CeremonyTypes
  <2> QED
    BY <1>1, <1>6, <1>7, <2>1, <2>2, <2>3 DEF EnrollInv, CeremonyInv
<1>11. SessionInv'
  BY <1>1, <1>2, <1>9 DEF EnrollInv, SessionInv, SessionsHavePasskeys
<1>12. CeremonyTypes'
  BY <1>1, <1>2 DEF EnrollInv, CeremonyTypes
<1>13. TokenInv'
  BY <1>1 DEF EnrollInv, TokenInv, TokenTypes, BootInv, UrlInv
<1> QED
  BY <1>10, <1>11, <1>12, <1>13 DEF EnrollInv

\* What a step after popWASession does: request f moves on, and leaves a record
\* at most for the user of its ceremony.
CompleteStep(f, to) ==
    /\ finish[f].pc \in {"load", "passkey", "session"}
    /\ finish' = [finish EXCEPT ![f].pc = to]
    /\ UNCHANGED <<waSessions, users, invites, boot, begin, expired, urls, redeemed, bootTokens>>
    /\ registered \subseteq registered'
    /\ \A k \in registered' \ registered :
          k = [finish |-> f, email |-> UserOf(f)] /\ finish[f].pc = "passkey"
    /\ sessions' \subseteq sessions \cup {[finish |-> f, email |-> UserOf(f)]}
    /\ sessions' # sessions => finish[f].pc = "session"
    /\ passkeys' \subseteq registered'
    /\ to = "passkey" => begin[finish[f].nonce].kind = "enroll"
    /\ to = "session" => \E k \in registered' : k.email = UserOf(f)

\* Steps after popWASession keep the invariant.
LEMMA CompleteKept ==
    ASSUME EnrollInv, NEW f \in Finishes, NEW to \in {"passkey", "session", "done"},
           CompleteStep(f, to)
    PROVE  EnrollInv'
<1> DEFINE row == [finish |-> f, email |-> UserOf(f)]
<1>1. /\ finish' \in [Finishes -> FinishReq] /\ finish'[f].pc = to
      /\ \A g \in Finishes : finish'[g].nonce = finish[g].nonce
      /\ \A g \in Finishes \ {f} : finish'[g] = finish[g]
  BY FinishEntry DEF CompleteStep, EnrollInv
<1>2. UNCHANGED <<waSessions, users, invites, boot, begin, expired, urls, redeemed, bootTokens>>
  BY DEF CompleteStep
<1>3. /\ finish[f].nonce \in Begins /\ begin[finish[f].nonce].email \in Emails
      /\ row \in RecordRow /\ row.finish = f /\ row.email = UserOf(f)
  BY DEF EnrollInv, CeremonyTypes, FinishReq, BeginReq, RecordRow, UserOf
<1>4. Claims(f) /\ Claimed(f)
  BY DEF CompleteStep, Claims, EnrollInv, CeremonyInv
<1>5. /\ registered' \subseteq registered \cup {row} /\ sessions' \subseteq sessions \cup {row}
      /\ registered \subseteq registered' /\ passkeys' \subseteq registered'
  BY DEF CompleteStep, EnrollInv, CeremonyInv
<1>6. \A g \in Finishes : Claims(g)' => Claims(g)
  <2> SUFFICES ASSUME NEW g \in Finishes, g # f, Claims(g)' PROVE Claims(g)
    BY <1>4
  <2> QED
    BY <1>1, <1>3, <1>5 DEF Claims
<1>7. \A b \in Begins : Redeemed(b)' = Redeemed(b) /\ Enrolling(b)' = Enrolling(b)
  BY <1>2 DEF Redeemed, Enrolling, Holds, Spent
<1>8. \A g \in Finishes : UserOf(g)' = UserOf(g) /\ finish[g].nonce \in Begins
  BY <1>1, <1>2 DEF UserOf, EnrollInv, CeremonyTypes, FinishReq
<1>9. \A g \in Finishes : Claims(g)' => Claimed(g)'
  <2> SUFFICES ASSUME NEW g \in Finishes, Claims(g)' PROVE Claimed(g)'
    OBVIOUS
  <2>1. Claimed(g)
    BY <1>6 DEF EnrollInv, CeremonyInv
  <2>2. finish'[g].pc # "idle"
    BY <1>1, <2>1 DEF Claimed
  <2> QED
    BY <1>1, <1>2, <1>7, <1>8, <2>1, <2>2 DEF Claimed
<1>10. \A r \in registered \cup sessions : r.finish \in Finishes
  BY DEF EnrollInv, CeremonyTypes, RecordRow
<1>11. CeremonyInv'
  <2>1. \A g, h \in Finishes :
           Claims(g)' /\ Claims(h)' /\ finish'[g].nonce = finish'[h].nonce => g = h
    BY <1>1, <1>6 DEF EnrollInv, CeremonyInv
  <2>2. \A g \in Finishes : finish'[g].pc = "passkey" => begin'[finish'[g].nonce].kind = "enroll"
    BY <1>1, <1>2 DEF EnrollInv, CeremonyInv, CompleteStep
  <2>3. ASSUME NEW k \in registered'
        PROVE  /\ k.email = UserOf(k.finish)'
               /\ begin'[finish'[k.finish].nonce].kind = "enroll"
    <3>1. CASE k \in registered
      BY <1>1, <1>2, <1>8, <1>10, <3>1 DEF EnrollInv, CeremonyInv
    <3>2. CASE k \notin registered
      <4>1. k = row /\ finish[f].pc = "passkey"
        BY <2>3, <3>2 DEF CompleteStep
      <4> QED
        BY <1>1, <1>2, <1>3, <1>8, <4>1 DEF EnrollInv, CeremonyInv
    <3> QED
      BY <3>1, <3>2
  <2>4. /\ \A b \in Begins : Enrolling(b)'
        /\ \A b \in waSessions' : begin'[b].pc = "done" /\ Redeemed(b)'
    BY <1>2, <1>7 DEF EnrollInv, CeremonyInv, CeremonyTypes
  <2> QED
    BY <1>5, <1>9, <2>1, <2>2, <2>3, <2>4 DEF CeremonyInv
<1>12. SessionInv'
  <2>1. \A g \in Finishes : finish'[g].pc = "session" => \E k \in registered' : k.email = UserOf(g)'
    BY <1>1, <1>5, <1>8 DEF EnrollInv, SessionInv, CompleteStep
  <2>2. \A s \in sessions' : \E k \in registered' : k.email = s.email
    <3> SUFFICES ASSUME NEW s \in sessions' PROVE \E k \in registered' : k.email = s.email
      OBVIOUS
    <3>1. CASE s \in sessions
      BY <1>5, <3>1 DEF EnrollInv, SessionInv, SessionsHavePasskeys
    <3>2. CASE s \notin sessions
      <4>1. s = row /\ finish[f].pc = "session"
        BY <3>2 DEF CompleteStep
      <4>2. PICK k \in registered : k.email = UserOf(f)
        BY <4>1 DEF EnrollInv, SessionInv
      <4> QED
        BY <1>3, <1>5, <4>1, <4>2
    <3> QED
      BY <3>1, <3>2
  <2> QED
    BY <2>1, <2>2 DEF SessionInv, SessionsHavePasskeys
<1>13. CeremonyTypes'
  BY <1>1, <1>2, <1>3, <1>5 DEF EnrollInv, CeremonyTypes
<1>14. TokenInv'
  BY <1>2 DEF EnrollInv, TokenInv, TokenTypes, BootInv, UrlInv
<1> QED
  BY <1>11, <1>12, <1>13, <1>14 DEF EnrollInv

\* loadUser and the verification, the insertion of the passkey, the session.
LEMMA CompleteSteps ==
    ASSUME EnrollInv, NEW f \in Finishes, Complete(f)
    PROVE  EnrollInv'
<1>1. CASE LoadUser(f)
  <2>1. PICK to \in {"passkey", "session", "done"} :
           /\ finish' = [finish EXCEPT ![f].pc = to]
           /\ to = "passkey" => begin[finish[f].nonce].kind = "enroll"
           /\ to = "session" => \E k \in passkeys : k.email = UserOf(f)
    <3>0. finish[f].kind \in {"enroll", "login"}
      BY DEF EnrollInv, CeremonyTypes, FinishReq
    <3>1. CASE GotoFinish(f, "load", "done")
      BY <3>1 DEF GotoFinish
    <3>2. CASE /\ finish[f].kind = "enroll" => begin[finish[f].nonce].kind = "enroll"
               /\ finish[f].kind = "login" => \E k \in passkeys : k.email = UserOf(f)
               /\ GotoFinish(f, "load", IF finish[f].kind = "enroll" THEN "passkey"
                                                                     ELSE "session")
      <4>1. CASE finish[f].kind = "enroll"
        BY <3>2, <4>1 DEF GotoFinish
      <4>2. CASE finish[f].kind = "login"
        BY <3>2, <4>2 DEF GotoFinish
      <4> QED
        BY <3>0, <4>1, <4>2
    <3> QED
      BY <1>1, <3>1, <3>2 DEF LoadUser
  <2>2. /\ finish[f].pc = "load" /\ UNCHANGED <<waSessions, passkeys, registered, sessions>>
        /\ UNCHANGED finishUnchanged
    BY <1>1 DEF LoadUser, GotoFinish
  <2>3. CompleteStep(f, to)
    BY <2>1, <2>2 DEF CompleteStep, finishUnchanged, EnrollInv, CeremonyInv
  <2> QED
    BY <2>3, CompleteKept
<1>2. CASE InsertPasskey(f)
  <2>0. /\ finish[f].pc = "passkey" /\ UNCHANGED <<waSessions, sessions>>
        /\ UNCHANGED finishUnchanged
    BY <1>2 DEF InsertPasskey, GotoFinish
  <2>1. PICK to \in {"session", "done"} :
           /\ finish' = [finish EXCEPT ![f].pc = to]
           /\ \/ AddPasskey(f)
              \/ to = "done" /\ UNCHANGED <<passkeys, registered>>
    BY <1>2 DEF InsertPasskey, GotoFinish
  <2>2. CASE AddPasskey(f)
    <3>1. /\ passkeys' = passkeys \cup {[finish |-> f, email |-> UserOf(f)]}
          /\ registered' = registered \cup {[finish |-> f, email |-> UserOf(f)]}
      BY <2>2 DEF AddPasskey
    <3>2. [finish |-> f, email |-> UserOf(f)].email = UserOf(f)
      OBVIOUS
    <3>3. \E k \in registered' : k.email = UserOf(f)
      BY <3>1, <3>2
    <3>4. passkeys' \subseteq registered'
      BY <3>1 DEF EnrollInv, CeremonyInv
    <3>5. CompleteStep(f, to)
      BY <2>0, <2>1, <3>1, <3>3, <3>4 DEF CompleteStep, finishUnchanged
    <3> QED
      BY <3>5, CompleteKept
  <2>3. CASE to = "done" /\ UNCHANGED <<passkeys, registered>>
    <3>1. CompleteStep(f, to)
      BY <2>0, <2>1, <2>3 DEF CompleteStep, finishUnchanged, EnrollInv, CeremonyInv
    <3> QED
      BY <3>1, CompleteKept
  <2> QED
    BY <2>1, <2>2, <2>3
<1>3. CASE IssueWebSession(f)
  <2>1. /\ finish[f].pc = "session" /\ UNCHANGED <<waSessions, passkeys, registered>>
        /\ UNCHANGED finishUnchanged /\ finish' = [finish EXCEPT ![f].pc = "done"]
        /\ sessions' \in {sessions, sessions \cup {[finish |-> f, email |-> UserOf(f)]}}
    BY <1>3 DEF IssueWebSession, GotoFinish
  <2>2. CompleteStep(f, "done")
    BY <2>1 DEF CompleteStep, finishUnchanged, EnrollInv, CeremonyInv
  <2> QED
    BY <2>2, CompleteKept
<1> QED
  BY <1>1, <1>2, <1>3 DEF Complete

\* A restart empties the map and ends every request in flight.
LEMMA RestartKept ==
    ASSUME EnrollInv, Restart
    PROVE  EnrollInv'
<1>1. /\ boot' = "migrate" /\ waSessions' = {}
      /\ UNCHANGED <<registered, users, invites, passkeys, sessions, expired, urls, redeemed,
                     bootTokens>>
      /\ begin' = [b \in Begins |-> IF begin[b].pc = "idle" THEN begin[b]
                                    ELSE [begin[b] EXCEPT !.pc = "done"]]
      /\ finish' = [f \in Finishes |-> IF finish[f].pc = "idle" THEN finish[f]
                                       ELSE [finish[f] EXCEPT !.pc = "done"]]
  BY DEF Restart, dbVars
<1>2. /\ begin' \in [Begins -> BeginReq]
      /\ \A b \in Begins : /\ begin'[b].kind = begin[b].kind /\ begin'[b].email = begin[b].email
                           /\ begin'[b].token = begin[b].token
                           /\ begin'[b].pc \in {"idle", "done"}
                           /\ begin[b].pc = "done" => begin'[b].pc = "done"
  BY <1>1 DEF EnrollInv, CeremonyTypes, BeginReq
<1>3. /\ finish' \in [Finishes -> FinishReq]
      /\ \A f \in Finishes : /\ finish'[f].nonce = finish[f].nonce
                             /\ finish'[f].pc \in {"idle", "done"}
                             /\ finish[f].pc # "idle" => finish'[f].pc = "done"
  BY <1>1 DEF EnrollInv, CeremonyTypes, FinishReq
<1>4. \A f \in Finishes : Claims(f)' => Claims(f)
  BY <1>1, <1>3 DEF Claims
<1>5. InvitesKept
  BY <1>1 DEF InvitesKept
<1>6. \A b \in Begins : (Redeemed(b) => Redeemed(b)') /\ Enrolling(b)'
  BY <1>2, <1>5, TokenKept DEF Redeemed, Enrolling
<1>7. \A f \in Finishes : finish[f].nonce \in Begins
  BY DEF EnrollInv, CeremonyTypes, FinishReq
<1>8. \A f \in Finishes : UserOf(f)' = UserOf(f)
  BY <1>2, <1>3, <1>7 DEF UserOf
<1>9. \A f \in Finishes : Claims(f)' => Claimed(f)'
  <2> SUFFICES ASSUME NEW f \in Finishes, Claims(f)' PROVE Claimed(f)'
    OBVIOUS
  <2>1. Claimed(f)
    BY <1>4 DEF EnrollInv, CeremonyInv
  <2>2. /\ finish'[f].pc # "idle" /\ finish'[f].nonce = finish[f].nonce
        /\ begin'[finish[f].nonce].pc = "done" /\ waSessions' = {}
    BY <1>1, <1>2, <1>3, <1>7, <2>1 DEF Claimed
  <2>3. Redeemed(finish[f].nonce)'
    BY <1>6, <1>7, <2>1, <2>2 DEF Claimed
  <2> QED
    BY <2>2, <2>3 DEF Claimed
<1>10. \A r \in registered \cup sessions : r.finish \in Finishes
  BY DEF EnrollInv, CeremonyTypes, RecordRow
<1>11. CeremonyInv'
  <2>1. \A g, h \in Finishes :
           Claims(g)' /\ Claims(h)' /\ finish'[g].nonce = finish'[h].nonce => g = h
    BY <1>3, <1>4 DEF EnrollInv, CeremonyInv
  <2>2. \A g \in Finishes : finish'[g].pc = "passkey" => begin'[finish'[g].nonce].kind = "enroll"
    BY <1>3
  <2>3. \A k \in registered' : /\ k.email = UserOf(k.finish)'
                               /\ begin'[finish'[k.finish].nonce].kind = "enroll"
    BY <1>1, <1>2, <1>3, <1>7, <1>8, <1>10 DEF EnrollInv, CeremonyInv
  <2> QED
    BY <1>1, <1>6, <1>9, <2>1, <2>2, <2>3 DEF EnrollInv, CeremonyInv
<1>12. SessionInv'
  BY <1>1, <1>3, <1>8 DEF EnrollInv, SessionInv, SessionsHavePasskeys
<1>13. CeremonyTypes'
  BY <1>1, <1>2, <1>3 DEF EnrollInv, CeremonyTypes
<1>14. TokenInv'
  BY <1>1 DEF EnrollInv, TokenInv, TokenTypes, BootInv, UrlInv
<1> QED
  BY <1>11, <1>12, <1>13, <1>14 DEF EnrollInv

\* Initially there is no ceremony, and every step keeps the invariant.
LEMMA InitEnroll == Init => EnrollInv
<1> SUFFICES ASSUME Init PROVE EnrollInv
  OBVIOUS
<1>1. TokenTypes /\ CeremonyTypes
  BY InitStart DEF TypeInv
<1>2. BootInv /\ UrlInv
  BY EnrollmentAssumption DEF Init, BootInv, UrlInv, Nobody
<1>3. /\ \A b \in Begins : begin[b].pc = "idle"
      /\ \A f \in Finishes : finish[f].pc = "idle"
      /\ registered = {} /\ sessions = {} /\ passkeys = {} /\ waSessions = {}
  BY DEF Init
<1>4. CeremonyInv /\ SessionInv
  BY <1>3 DEF CeremonyInv, SessionInv, SessionsHavePasskeys, Enrolling, Claims
<1> QED
  BY <1>1, <1>2, <1>4 DEF EnrollInv, TokenInv

\* Every step of the start, of an administrator or of a ceremony.
LEMMA NextEnroll ==
    ASSUME EnrollInv, [Next]_vars
    PROVE  EnrollInv'
<1>1. CASE \/ Migrate \/ Bootstrap
           \/ \E t \in Tokens : Expire(t) \/ \E e \in Emails, r \in Roles : postUsersInvite(t, e, r)
           \/ \E e \in Emails : postUserDeactivate(e)
           \/ \E k \in passkeys : postDeviceRemove(k)
  BY <1>1, StartTokens, ConsoleTokens, CeremoniesKept DEF EnrollInv
<1>2. CASE Restart
  BY <1>2, RestartKept
<1>3. ASSUME NEW b \in Begins,
             \/ \E t \in Tokens : SelectInvite(b, t)
             \/ \E e \in Emails : postLogin(b, e)
             \/ getEnroll(b)
      PROVE  EnrollInv'
  BY <1>3, BeginSteps
<1>4. ASSUME NEW f \in Finishes, NEW n \in Begins, postEnroll(f, n) \/ postLoginComplete(f, n)
      PROVE  EnrollInv'
  BY <1>4, PopSteps DEF postEnroll, postLoginComplete
<1>5. ASSUME NEW f \in Finishes, Complete(f) PROVE EnrollInv'
  BY <1>5, CompleteSteps
<1>6. CASE UNCHANGED vars
  <2>1. TokenStep /\ CeremoniesStay
    BY <1>6 DEF vars, dbVars, CeremoniesStay, EnrollInv, TokenInv, TokenStep, TokenTypes, BootInv,
                UrlInv, InvitesKept
  <2> QED
    BY <2>1, CeremoniesKept
<1> QED
  BY <1>1, <1>2, <1>3, <1>4, <1>5, <1>6 DEF Next
-----------------------------------------------------------------------------
(***************************************************************************)
(* The theorems                                                            *)
(***************************************************************************)
\* The inductive invariant of the ceremonies.
THEOREM EnrollCorrect == Spec => []EnrollInv
<1>1. EnrollInv /\ [Next]_vars => EnrollInv'
  BY NextEnroll
<1> QED
  BY <1>1, InitEnroll, PTL DEF Spec

\* Every variable of the service stays in its type.
THEOREM TypeCorrect == Spec => []TypeOK
<1>1. StartTypes /\ StartInv /\ [Next]_vars => (StartTypes /\ StartInv)'
  BY NextStart
<1>2. TypeInv /\ StartInv => StartTypes /\ StartInv
  BY DEF TypeInv
<1>3. StartTypes /\ EnrollInv => TypeOK
  BY TypesInParts DEF TypeInv, EnrollInv, TokenInv
<1> QED
  BY <1>1, <1>2, <1>3, InitStart, EnrollCorrect, PTL DEF Spec

\* Two requests with one nonce never both leave a passkey or a session,
\* whatever their order and wherever the process dies.
THEOREM CeremoniesCompleteOnce == Spec => []CeremonyCompletesOnce
<1>1. EnrollInv => CeremonyCompletesOnce
  <2> SUFFICES ASSUME EnrollInv, NEW r \in registered \cup sessions,
                      NEW s \in registered \cup sessions,
                      finish[r.finish].nonce = finish[s.finish].nonce
               PROVE  r.finish = s.finish
    BY DEF CeremonyCompletesOnce
  <2>1. \A x \in registered \cup sessions : x.finish \in Finishes /\ Claims(x.finish)
    BY DEF EnrollInv, CeremonyTypes, RecordRow, Claims
  <2> QED
    BY <2>1 DEF EnrollInv, CeremonyInv
<1> QED
  BY <1>1, EnrollCorrect, PTL

\* Whoever has a passkey was invited, under that email, with a token that is
\* spent by now.
THEOREM OnlyTheInvited == Spec => []PasskeysWereInvited
<1>1. EnrollInv => PasskeysWereInvited
  <2> SUFFICES ASSUME EnrollInv, NEW k \in registered
               PROVE  /\ begin[finish[k.finish].nonce].token # NoToken
                      /\ invites[begin[finish[k.finish].nonce].token].minted
                      /\ invites[begin[finish[k.finish].nonce].token].used
                      /\ invites[begin[finish[k.finish].nonce].token].email = k.email
    BY DEF PasskeysWereInvited
  <2>1. k.finish \in Finishes /\ Claims(k.finish)
    BY DEF EnrollInv, CeremonyTypes, RecordRow, Claims
  <2>2. /\ Redeemed(finish[k.finish].nonce) /\ k.email = UserOf(k.finish)
        /\ begin[finish[k.finish].nonce].kind = "enroll"
    BY <2>1 DEF EnrollInv, CeremonyInv, Claimed
  <2> QED
    BY <2>2, EnrollmentAssumption DEF Redeemed, Holds, Spent, UserOf
<1> QED
  BY <1>1, EnrollCorrect, PTL

\* Whoever has a session has registered a passkey.
THEOREM NoSessionWithoutPasskey == Spec => []SessionsHavePasskeys
<1>1. EnrollInv => SessionsHavePasskeys
  BY DEF EnrollInv, SessionInv
<1> QED
  BY <1>1, EnrollCorrect, PTL

\* Bootstrap mints one token at most, however often it is interrupted.
THEOREM OneBootstrapToken == Spec => []BootstrapMintsOnce
<1>1. EnrollInv => BootstrapMintsOnce
  <2> SUFFICES ASSUME EnrollInv PROVE Cardinality(bootTokens) <= 1
    BY DEF BootstrapMintsOnce
  <2>1. CASE bootTokens = {}
    BY <2>1, FS_EmptySet
  <2>2. ASSUME NEW t \in Tokens, bootTokens = {t} PROVE Cardinality(bootTokens) <= 1
    BY <2>2, FS_Singleton
  <2> QED
    BY <2>1, <2>2 DEF EnrollInv, TokenInv, BootInv
<1> QED
  BY <1>1, EnrollCorrect, PTL
=============================================================================
