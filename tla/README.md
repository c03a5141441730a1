# A TLA+ model of IssuesSyncServer

`issued` is a single Go process that synchronises folders of issue files between
Macs.  File contents live in S3, everything else in Postgres; clients write over
HTTP with ETag preconditions and hear of changes over a WebSocket.  There are no
transactions around a request and few locks in the process, so most of what can
go wrong lies between two calls.  That is what these modules model.

## 1. Inventory

| Part | State | Operations | Interacts with |
|---|---|---|---|
| Write API (`api/v1/write.go`, `storage/queries.go`, `s3write.go`) | rows of `files`, `audit_log`, `events`; S3 objects | PUT/POST/DELETE issue, PUT/DELETE attachment, PUT project.json | reads and writes Postgres and S3 in a fixed order of calls; sends to `hub.broadcast` |
| Authorization (`authz.go`, `folders.go`, `auth/middleware.go`) | `project_members`, `users` (read) | `ProjectRole`, `RequireRole`, `resolveUser` | first steps of every handler |
| Read API (`issues.go`, `attachments.go`, `s3read.go`, `folders.go`, `host.go`) | none | GET of contents and of listings | reads what the write API writes |
| Hub and connections (`ws/hub.go`, `handler.go`) | client map, three channels; per connection a send channel, a subscriptions map and up to three goroutines | register, unregister, broadcast, subscribe, accessRevoked | write handlers and the admin console send to it |
| Event log (`ws/replay.go`, `gc.go`) | `events` | append, replay since an id, hourly GC | written by handlers, read by replay goroutines, trimmed by the GC |
| LRU cache (`storage/cache.go`) | list, map, byte counter | Get, Set, Delete | the write handlers call `Delete`; nothing calls `Set` yet |
| Enrollment (`auth/bootstrap.go`, `invite.go`, `webauthn.go`, `session.go`, `admin/admin.go`) | `users`, `invites`, `passkeys`, `sessions`, the map `waSessions` | Bootstrap, mint and redeem an invite, enroll, login, deactivate | the browser holds the nonce between the two halves of a ceremony |
| Sessions (`session.go`, `middleware.go`, `storage/admin_queries.go`) | `sessions` | validate, touch, revoke, logout; issue and rotate native tokens (no caller in the repository) | every request of the console |
| Admin console (`admin.go`, `storage/admin_queries.go`) | `projects`, `project_members` | create, update, archive, add, remove, change role, leaf through the audit log | roles decide over API requests in flight; `accessRevoked` frames through the hub |
| Migrations and start (`db/migrate.go`, `main.go`) | `schema_migrations` | check, apply and record each script, then Bootstrap, then serve | the service manager restarts the process |
| Mailer, templates, configuration | - | pure I/O | - |

What makes each part correct, and what is hard about it:

* **Write API.**  A conditional write replaces exactly the version its client
  named; an answer, an audit row and an event tell the truth about it.  Hard:
  interleaved requests, calls that fail after taking effect, crashes between
  calls, a blocking send at the end of every handler.
* **Read API.**  A GET returns a version with its bytes.  Hard: it is two reads.
* **Hub.**  A channel is never used after it is closed; a slow client disturbs
  nobody; a closed connection leaves nothing behind.  Hard: four goroutines share
  a channel that only one of them closes, and a map without a lock.
* **Event log.**  A client that comes back receives what it missed or is told to
  resync.  Hard: ids against commit order, the GC, the replay limit.
* **Cache.**  List, map and counter agree; only the last value is served.
* **Enrollment.**  An invite and a ceremony count once; sessions belong to users
  with a passkey; the first admin can enroll; migrations run once.  Hard:
  check-then-act on rows, a crash at start.
* **Sessions.**  Revocation and rotation are final.  Hard: a check, a touch, a
  rotation and a revocation of the same row, in any order.
* **Console and roles.**  What a request writes or shows, its user was entitled to;
  a member who is removed is told; leafing through the audit log skips nothing.  Hard:
  every check and its use are separate statements, and errors are only logged.

`PROJECT.json` lists the hazards line by line with the properties that cover them.

## 2. Modules

| Module | Models |
|---|---|
| `ETagRegister` | abstract specification: a compare-and-set register per file |
| `WritePath` | the six write handlers; refines `ETagRegister` |
| `ReadPath` | `EXTENDS WritePath` with the two content GETs |
| `Hub` | the hub loop, the goroutines of every connection, the events table with replay and GC |
| `LRUCache` | the cache |
| `Enrollment` | migrations, bootstrap, invites, ceremonies, devices |
| `Sessions` | web and native sessions |
| `AdminConsole` | `EXTENDS Sessions`: the console's forms and audit log beside the API requests that depend on roles |
| `WritePathProofs`, `WritePathTraceProofs`, `WritePathRefinement` | theorems about the writes: the index, what requests leave behind and are told, the refinement of `ETagRegister` |
| `ReadPathProofs` | theorems about the reads, and that readers change nothing for the writers |
| `HubProofs`, `LRUCacheProofs`, `EnrollmentProofs`, `AdminConsoleProofs` | theorems about these components (`AdminConsoleProofs` also about `Sessions`) |
| `MC*` | instances for TLC; one `.cfg` per run |

An operator whose comment starts with *Mutant* is a plausible slip in the code; it is used only
to show that a property would notice it.

### WritePath

`pc[q]` is the storage call request `q` makes next: `fileExists`, `putObject`,
`upsertFile` (or `deleteRow`, `rowProbe`, `deleteObject`), `auditLog`,
`appendEvent`, `hubSend`, `respond`.  One call is one action, in the code's order.
The checks that need only the request (authentication, ids, role, headers, body)
are one action, `Receive`, with the statuses in the order the code tests them.
`files[p]` is the `etag` column, `s3[p]` the object; contents are model values and
`Sha256` is an injective constant operator.  Every call may fail; a write that
fails may have taken effect (a connection lost after the server executed it, or a
context cancelled because the client left).  `Crash` loses requests and the
channel and keeps the stores.  `versions`, `uploaded` and `handed` are history
variables and guard nothing.  `HubTake` is the receive of `Hub.Run`; the fan-out behind it
is `Hub`.

The cache is not part of this state: the handlers call `Cache.Delete`, but no code
ever fills the cache.

### ReadPath

A reader reads the row, then the object.  `CutBody` is a body whose stream broke
midway.  `S3ETag` is the ETag S3 computes, which is not the SHA-256.

### Hub

The three channels are sequences with their capacities.  The fan-out visits the
clients of the map one at a time in any order (`todo`), and reader, writer and
replay goroutines run in between, as they may under the read lock.  A reader's
write to `c.subscriptions` spans two states; a read by the hub in between may be
detected by the runtime (`fatal = "mapRace"`) or return either value.  A send on a
closed channel is `fatal = "sendOnClosed"`.  Writes to the socket have a
deadline, so they end; the peer is never assumed to read.

An event is the id its INSERT draws.  `fanOutEvent` takes three steps (`AppendEvent` draws
the id, `Appended` makes the row visible or not, `Broadcast` sends to the hub), and those of
different requests interleave, so that the orders of ids, of commits and of broadcasts
differ.  `RunGC` deletes the visible rows up to an id: `created_at` follows the ids closely
enough, for an INSERT ends within the five seconds of its context and the retention is a day.
Every message with a `since` starts a replay goroutine of its own (`rp[c][k]`, by the
number `k` of the message); several may be at work on one connection.  `Missed` is the set of
rows the query selects, `InOrder` its ORDER BY, `Answer` what is sent for it.  A frame of a
replay and a resync carry the number of their message, so that the properties can tell which
replay sent them.  `sent`, `due`, `delivered`, `replayed`, `lost` and `passed` are history
variables and guard nothing.

The code leaves two ways in which a client that stays connected misses an event that is in
the table, and `NothingSkipped` names both as its only exceptions: `lost` holds the frames of
replays, resyncs among them, that found `c.send` full and were dropped, and `passed` the events
that were fanned out while the client was not registered yet.

### LRUCache

One action per method, for each runs under the mutex.  `evict` is the loop, written as
the least number of elements from the back whose removal suffices; `Tailsize` is what that
number of elements amounts to.  `Without` takes one element out of the list and moves up
those behind it.  `recency` is a history variable: the keys in the order of their last use,
against which `EvictsLeastRecent` holds every step.

### Enrollment

`boot` and `mig` are where `main` stands in `Migrate` and `Bootstrap`; a migration and its
record are one step, as they are one transaction; an error ends the process and the
service manager starts it again (`Restart`).  A ceremony is a *begin* request (GET
enroll, POST login) that leaves a nonce in `waSessions`, and a *finish* request that
pops it.  The cryptography is external: a finish with a popped nonce either verifies
or does not.  One map serves both kinds of ceremonies; the library refuses to register with
the data of a login, and accepts those of an enrollment for a login with a passkey the
user already has.

### Sessions and AdminConsole

`at[q]` is the statement request `q` runs next, named after the function or the step, or its
outcome.  Every statement may fail, and may have taken effect although it failed.  A token
is its number within its session; `hash[s]` is the one the row holds.  Time is two
actions, `Expire` and `GraceEnds`.  A request of the console passes `RequireWebAuth`
and then runs its handler; forms on a project look up its slug first.  Of a write, only
what depends on roles and what it adds to the audit log is kept (`PutIssueHandler`); the
rest is `WritePath`.  The rows of the audit log are their ids, drawn and committed in
separate steps; `walk` is a person who follows the *Next* links from the first page.
`getAudit` only logs the errors of `AuditLog` and shows the page all the same (`Show`): without
rows and with the total 0, so that there is no *Next* link, when the count, the query or the
scan of a row fails; with the rows that came before and the real total when the stream
of rows breaks.  `walk.hidden` are the rows such a page should have had and `walk.moved` says
that its total was not the number of rows; the two properties of the walk name them as
exceptions.  `spent` are the tokens whose exchange a rotation reported, `late` the requests that
began when their session had been revoked; with `held`, `removed`, `told` and `answer` they are
history variables and guard nothing.

## 3. Runs

Runs that pass:

| Run | Bounds | Shows |
|---|---|---|
| `writes_issues` | 3 requests on 1 issue (update, create, delete of the same version, every refusal), 2 contents, channel of 1 | no lost update under delete-and-recreate and ABA orders; truthful answers, events and audit rows |
| `writes_live` | 2 requests among update and delete of an issue, replace and delete of an attachment, replace of project.json; all files exist at the start; 1 crash, fairness | every request ends; every commit is announced or the process died; a refused request leaves no trace; register refinement of all these handlers across a crash |
| `reads` | 1 reader, 2 writes that race on an issue, an attachment or project.json, quoted ETags, 1 crash | what is read was written; the other handlers, with the unconditional delete, keep the promises of the issue handlers |
| `hub_feed` | 1 connection, 2 messages, 2 events, replay limit 2, channels of 1, 1 failed insert, 1 GC | no use of closed channels, no gap in the live feed, no gap between a replay and the live feed, but for the two exceptions |
| `hub_live` | 2 connections, 1 event, channels of 1, fairness | the hub never blocks, connections end |
| `cache` | 3 keys, sizes 0 to 5, cap 4 | list, map and counter agree; LRU order |
| `enrollment` | 2 migrations, 2 emails, 2 tokens, 3 begins, 2 finishes, 1 crash | migrations, bootstrap, ceremonies, passkeys, sessions |
| `admin` | 3 requests (4 on the audit log), 1 web and 1 native session, up to 3 tokens, 1 user, 1 project, pages of 2 rows, 3 to 5 rows | revocation is final, and an exchanged token is refused by every later look-up; access was held; removed members are told; the walk through the audit log beside two writers whose rows become visible in either order |

*Why these bounds are enough.*  Two requests on one file exhaust the pairwise
interleavings of handlers; the third request of `writes_issues` is what an ABA
needs, that of `admin` what a revocation between two rotations needs.  Different files share
only the channel, for which capacity one is the tightest.  Two connections are what a
fan-out needs to be disturbed midway, and capacity one makes every client slow at once.
Two events, one before and one after the other in each of the three orders, are what a
replay can confuse, and a limit of two puts them at it.  For the safety properties listed
in section 5 the proofs remove the bounds altogether.

*Constraints.*  `reads` follows only requests on one file at a time (`OneFile`) and
`admin` only requests on one topic at a time (`OneTopic`: sessions, members and writes,
members and listings, projects, or the audit log), because those on different ones share no state that the properties tell apart.
The fourth request of `admin` (`Fourth`) takes part in the audit log only: two
writers, so that a row may become visible before one with a smaller id, and the readers of
two pages.  `admin` writes its constraint into the next-state relation (`TopicSpec`), so that the
action property is about exactly the steps the run explores.

*Symmetry* is used for requests and in `enrollment`, always without liveness.  *Deadlock* is not checked: when all requests are answered, or the
process has aborted, the system rightly stops.

*Fairness.*  Weak fairness of each handler's goroutine, the hub loop and each
connection's goroutines: the Go scheduler runs what can run, database and S3 calls
return with a result or an error, and socket writes have deadlines.  Nothing is
assumed of clients, of successful calls, or of the choice between ready channels
in a `select` beyond that the loop takes one.

Runs that show a disagreement (details and quotations in `PROJECT.json`):

| Run | What happens |
|---|---|
| `writes_bytes` | (2 requests) a PUT answered 409 has already replaced the object in S3; the property is about states in which every request was answered with success or a refusal, so no call failed |
| `hub_gap` | the GC deletes what a client has not seen, and the replay does not say so |
| `hub_replayPanic` | a replay sends on the channel the hub closed, and the process dies |
| `enrollment_singleUse` | one invite redeemed by two requests |

Other disagreements of the code with its documents, which the model shows as ordinary
behaviour (the action that takes the step is named) and no run is spent on:

* the error of `WriteAuditLog` is dropped, so a write may succeed without an audit row
  (`WriteAuditLog`), and the `etag_before` of a PUT is read before the conditional
  statement and may be stale (`ReadOldETag`);
* commit, event and broadcast are separate steps, so a create and a delete may be announced
  in the order opposite to their commits, and a client that follows `RemoteSync.md:174`
  ("For `deleted`, remove the local file.") ends without a file that exists (`AppendEvent`,
  `Broadcast`);
* a failed probe makes DELETE answer 404 for a file that exists (`ProbeRow`);
* the server quotes its ETag header and compares `If-Match` with the bare value, so a
  client that echoes the header is answered 409 (`OtherWrites` has such a request);
* a GET of an issue reads the ETag before the bytes, so they may belong to different
  versions; a stream that breaks is answered 200 with the beginning of the file
  (`ReadRow`, `GetObject`);
* a GET of an attachment sends S3's ETag instead of the SHA-256, and 200 with no bytes
  when S3 fails (`StreamObject`);
* the fan-out reads a subscriptions map that a reader may be writing, on which the Go
  runtime aborts (`MapRace`);
* a short connection may be unregistered before it is registered, and then stays in the
  hub's map (`HubRegister`, `HubUnregister`);
* an event that is fanned out after a client's replay was answered and before the hub has
  registered the client reaches it by neither (`passed` in `HubTake`);
* a replay frame, or the resync itself, that finds the channel full is dropped with a
  warning, though `RemoteSync.md:189` promises the missed events or a resync; the channel has
  256 slots and a replay up to 499 events (`lost` in `ReplaySend`);
* an error while the audit log is read is only logged: the page is shown with status 200,
  without some or all of its rows, and perhaps without a link to the next one
  (`CountRows`, `getAudit`);
* `RemoteSync.md:246-252` and `issues/0006.md:23-29` reserve the console's routes to global or
  project admins; `RequireWebAuth` (`middleware.go:52`) checks the session and no role, and
  the handlers behind it check none either (`Console` has no guard on roles);
* `RemoteSync.md:91` says every API call is authorized against user, project and action; a
  WebSocket `subscribe` is not checked against the memberships (`handler.go:103`,
  `ReadMessage`), so a connection is sent the events of any project it names;
* two rotations that read the same token before either has exchanged it both succeed, and the
  pair of the first is void;
  the comment at `session.go:163` speaks of a window that "allows racing requests to re-use
  the just-issued pair" (`SelectByToken`, `RotateRefreshToken`).  A rotation that takes effect
  but whose answer is lost leaves the client without a valid token;
* the form says "Repo URL (optional)" (`templates/projects.html:23`), but an empty one becomes
  NULL, which the column refuses (`CreateProject`, `UpdateProject`);
* an audit row added between the count and the page of the last page pushes the oldest row
  off it, and there is no link to a further page (`walk.moved`);
* a removal whose DELETE failed is announced to the member all the same
  (`BroadcastAccessRevoked`);
* writes to an archived project are accepted while reads answer 404 (`ReadMemberRole`,
  `ProjectByID`);
* a start that dies after the INSERT of the admin leaves a service that never prints the
  enrollment URL (`BootCheck`), and the command `issued admin enroll-url` does not exist;
* a failed lookup makes `ensureUser` activate an existing user again and overwrite the
  role (`FindUser`, `InsertUser`).

Not visible in the model: the documents say 412 where the code answers 428; the event
payload carries no id, so a client cannot know the `since` to ask for;
`wire.SubscribeMsg` and `incomingMsg` disagree on the type of `since`; `audit_log.ip`
is cast to `inet` while `clientIP` may return `host:port`, one concrete way for the
audit insert to fail; a `Set` of a value above the cap keeps the older value of its key.

## 4. The abstract specification

`ETagRegister` says what a client may rely on: a request takes effect at most once,
in one instant, only while its precondition holds; *ok* means it did; *conflict* and
*notFound* mean that its precondition was false at some instant and it did not;
*unknown* (500, or no answer) promises only *at most once*.  The mapping is
`files` for the register and `PhaseOf(q)`, computed from `pc` and `status`, for the
phase.  It says nothing of the bytes in S3: there the code breaks the promise
(`writes_bytes`).

## 5. Proofs

Every safety property that a passing run checks is also a theorem, and so is the refinement.

| Theorem | Statement |
|---|---|
| `WritePathProofs!TypeCorrect`, `!NoLostUpdates`, `!VersionsUploaded` | `Spec => []TypeOK`, `[]NoLostUpdate`, `[]VersionsWereUploaded` |
| `WritePathTraceProofs!SuccessesAreCommitted`, `!RefusalsLeaveNoTrace` | `Spec => []SuccessIsCommitted`, `[]RefusedLeavesNoTrace` |
| `WritePathTraceProofs!AnnouncementsAreTrue`, `!AuditIsTrue` | `Spec => []AnnouncedWasCommitted`, `[]AuditedWasCommitted` |
| `WritePathRefinement!Refinement` | `Spec => ImplementsRegister` |
| `ReadPathProofs!ReadersAreHarmless` | `RSpec => Spec` |
| `ReadPathProofs!ReadsAreTrue` | `RSpec => []ReadsWereWritten` |
| `HubProofs!TypeCorrect`, `!RegisteredStaysOpen` | `Spec => []TypeOK`, `[]RegisteredIsOpen` |
| `HubProofs!FeedsHaveNoGap`, `!ReplaysSkipNothing` | `Spec => []LiveFeedHasNoGap`, `[]NothingSkipped` |
| `LRUCacheProofs!TypeCorrect`, `!CacheServesLastStored`, `!CacheStaysConsistent` | `Spec => []TypeOK`, `[]ServesLastStored`, `[]Consistent` |
| `LRUCacheProofs!EvictionTakesLeastRecent` | `Spec => EvictsLeastRecent`, an action property |
| `EnrollmentProofs!TypeCorrect`, `!MigrationsAreExact`, `!OneBootstrapToken` | `Spec => []TypeOK`, `[]MigrationsRunOnce`, `[]BootstrapMintsOnce` |
| `EnrollmentProofs!CeremoniesCompleteOnce`, `!OnlyTheInvited`, `!NoSessionWithoutPasskey` | `Spec => []CeremonyCompletesOnce`, `[]PasskeysWereInvited`, `[]SessionsHavePasskeys` |
| `AdminConsoleProofs!TypeCorrect`, `!RevocationIsFinal` | `Spec => []TypeOK`, `[]RevokedIsFinal` |
| `AdminConsoleProofs!RotationIsFinal` | `Spec => SpentIsFinal`, an action property |
| `AdminConsoleProofs!AccessIsHeld`, `!TheRemovedAreTold` | `Spec => []AccessWasHeld`, `[]RemovedAreTold` |
| `AdminConsoleProofs!WalkIsSound`, `!WalkEndsComplete` | `Spec => []WalkSkipsNothing`, `[]WalkIsComplete` |

They hold for any sets of requests, files, contents, connections, users, projects, sessions
and keys, any capacities, page sizes and replay limits and any number of crashes, from the
`ASSUME`s of the modules: SHA-256 does not collide on the contents used; the empty ETag and
the "any" precondition are not ETags; a name has the form of at most one kind of file
(`PathAssumption`: the three patterns of the routes exclude each other); a request carries what
its route takes (`RouteAssumption`: the router hands a handler nothing else); capacities, the
replay limit and the page size are positive; sizes of cached values are natural numbers.  The
bounds on events, messages, failures and crashes are arbitrary natural numbers.

*Index* (`IndexInv`).  It joins `TypeOK`, `NoLostUpdate`, `VersionsWereUploaded` and three
facts: histories are never empty (so "the last version" exists), a request about to run
`UpsertFile` has uploaded its body (without which a commit could name bytes nobody
stored), and a status is set only at the end.  A commit appends to one history exactly
what it writes to the row, guarded by the row being what the request expects, which
with "the row is the last version" gives the chain.

*Traces* (`TraceInv`).  What a request is told and what it left behind meet only in where it
stands.  A request that has not reached its commit left nothing (`CleanUntilCommit`), no
request commits twice (`CommitsOnce`), past its commit the version it asked for is in the history
(`AppliedAfterCommit`), and a 2xx answer comes after the event was handed over
(`HandedBeforeAnswer`).  A refusal then follows from the first and a success from the
others.  That an event says truly whether the file existed before needs the whole chain, for
the version before a commit must be found in the history again after later commits.

*Refinement.*  Each handler step is matched with a step of the register or a
stutter, by lemmas on the two ways a request moves on (`Goto`, `Answer`).
`AnsweredWhenDone` is needed because the phase of a finished request is read off
its status.

*Reads* (`ReadInv`).  What a reader took from the row was a version (`RowWasVersion`) and stays
in the history, and every object in S3 was uploaded (`ObjectsWereUploaded`), which no deletion
or overwriting between the two calls undoes.  `ReadersAreHarmless` carries all theorems about
the writes over to the system with readers.

*Hub, the map* (`HubInv`).  `RegisteredIsOpen` is not inductive: a registration in the channel
could be of a client whose channel was closed.  `RegistersOnce` says a client is put on
`hub.register` once, before it is in the map and before its channel is closed.

*Hub, the live feed* (`LiveInv`).  What a client has received and what waits in `c.send` must
together be what it was due, although acknowledgements, replays and revocations sit between
the events in the same channel.  `FeedInv` says so with a position function: the frame at
place *i* of the channel, if it is an event, is the one that `due` holds at the position of
*i*, and positions go up by one with each event and reach the end of `due` while the channel
is open.  That function is the witness each send and each write has to provide.  The order of
broadcasts is `OrderInv`: the channel holds the end of `sent`, and everything due was
taken before, strictly before the event being fanned out if the client is still to be
visited.

*Hub, the replays* (`SkipInv`).  An event that the table shows must be with the client already,
or still be on its way when the query is answered, and stay so.  Two facts carry this.  The
hub finds the client subscribed whenever the event comes by: `ReaderInv` says that a
subscription no later message ended is in the map, from the end of its write on, and
`SeesProject` that even a read during a later write to the map finds it.  And no step loses a
frame that was sent (`HasGrows`) or an event that is coming (`ComingStays`): the hub takes it
for a registered client or records it in `passed`; a visit puts it into the channel or closes
the channel.  A row is visible before its event is broadcast (`EventHistory`), so a row that
the query did not see belongs to an event still coming.  What a replay failed to send is in
`lost`, frame by frame, and what came by before the registration in `passed`; the theorem
excuses exactly these.

*Cache* (`CacheInv`).  The list has no duplicates and holds the keys of the map (`ListInv`),
the counter is the sum of the sizes in the list (`CountInv`), and the list is in the order of
last use (`RecencyInv`).  What `evict` removes follows from the sum of the last elements, which
is defined by recursion on their number; `CountUp` and `Least` provide the induction over it,
from the well-foundedness of the numbers, with the claim written out as a set.

*Enrollment.*  `StartInv`: `Migrate` never gets ahead of the schema, so what it applies is the
first migration missing, after every crash.  `BootInv`: the token is minted between the insert
of the admin and the end of the start, so a later start finds the admin and mints none.
`CeremonyInv`: the finish requests that popped a nonce are unique, and what they popped was
redeemed with a token for that email, which stays spent.  `SessionInv`: a request about to issue a
session has registered a passkey or was let in by one.

*Console.*  `ReqInv` ties every step to the routes that reach it.  `SessInv`: a row's token only
gives way to newer ones, and a request that began after the revocation is at a step that will
refuse it.  A token that was exchanged is therefore older than the row's, and the SELECT, which
compares the two, does not find it: that is the action property of `RotationIsFinal`.
`RemovedInv`: a removal that took effect is told, or about to be.  `AccessInv`: what a request in
flight may do now it has held, and what it has read so far it was entitled to read.
`WalkInv`: each row that was there when the walk began has been shown, was hidden by an error or
lies on a later page, for a row that is added pushes the others back, never forward; the number of rows above
a given one decides on its page, so the argument is one about cardinalities.

Only model-checked: liveness (`EveryRequestEnds`, `CommitsAreAnnounced`, `EventsAreTaken`,
`ClosedConnectionsEnd`), which needs fairness and ENABLED, out of the prover's reach; and the
violations.

## 6. Not modelled

* The pages of the console that only show rows (dashboard, users, projects, members,
  files, sessions, devices) and the health check: single queries, nothing is decided by them.
* The filters of the audit log: they select a subset of the rows before the same paging.
* Configuration and the wiring of the parts in `main`; the mailer, which nothing
  calls; templates and static files.
* The cryptography of JWT and WebAuthn, and the Mac client, which is not in the repository.
* A composition of `WritePath` and `Hub` in one state space.  They meet in `fanOutEvent` and
  the channel `hub.broadcast`, which both model; together they exceed what TLC can
  enumerate with enough requests to be of interest.

## 7. Plan

Done: the modules and the theorems above.  Left, in the order of their worth:

1. Shorten the longest proofs (`HubProofs`, `AdminConsoleProofs`): lemmas on what a step leaves
   alone recur and could be shared.
2. Lemmas that hold without the bounds of `Hub` on messages (`MaxMessages`) and of
   `AdminConsole` on rows (`MaxRows`), which are arbitrary but finite.
3. The lead-to properties by way of variants that TLC checks as action properties.
