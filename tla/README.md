# Verification of the TVK grievance backend

TLA+ modules, TLC runs and TLAPS proofs about `src/MLA-Backend`, an Express and
Mongoose backend in which citizens file complaints, officers of a ward work on them,
councillors verify them, and an SLA engine escalates the overdue ones to the councillor
and then to the MLA.

## The system

All services live in one Node process, started once per CPU by PM2
(`ecosystem.config.js`). What the processes share is MongoDB and Redis. Three facts of the
platform decide every interleaving:

- A service function is a coroutine: it runs alone in its process up to an `await`; there
  any other coroutine, of this or of another process, may run.
- One MongoDB operation on one document is atomic. The code uses no transactions and no
  conditional updates: it reads a document, checks what it read, and later writes by id.
  Some writes store fields of the request's body as they come, also fields that a service
  is there to write: the creation of a complaint, the profile update, and the creation and
  update of publications.
- `eventBus` is an in-process EventEmitter: `emit` runs each subscriber up to its first
  await; nothing is stored, so an event dies with its process.

### Inventory

| Component | State | Operations | Interacts with | Correct when |
|---|---|---|---|---|
| Complaint service (`modules/complaints`) | complaints, status history, upvotes | create (with the rest of its body), updateStatus, addResolutionProof, upvote, removeUpvote, lists | emits events; writes what the other services also write | transitions follow the table, milestones keep their order but for dates the author sent, the timeline explains every status, the vote count is the number of votes but for what is known to be amiss |
| Assignment service | officer and status of a complaint | autoAssign (on COMPLAINT_CREATED), reassign | users, departments | every complaint of a staffed ward gets an officer |
| Escalation service | escalations; level, flag and status of a complaint | escalate (request or SLA_BREACHED), resolve | users, notifications | the chain officer, councillor, MLA is climbed without a gap above the level a complaint was filed with |
| SLA engine | `slaBreached` | sweep every 30 min in every process, inactivity check, metrics | emits SLA_BREACHED | every overdue complaint is found, announced and escalated once |
| Event bus and subscribers | none | assign, notify, escalate | all services | an event has its effect once |
| Authentication (`modules/auth`) | codes, one-purpose tokens, the account with its PIN hash and refresh token | OTP send/verify, register, login, reset PIN, refresh, logout, activation | registry of officials, queue for texts | a PIN is set only after its code was accepted; a session ended stays ended but for what the profile update and requests under way bring back |
| Cache (`shared/cache`) | Redis keys and their locks | get, set, getOrSet, delete, deletePattern, middlewares, invalidations | any route or service that reads; so far a library, for the one route condition in use matches no path and no service calls the invalidator | an entry that was invalidated is served only for a reason that is known; every call ends |
| Redis connection (`shared/cache/connection.ts`) | the client, two flags | connect, disconnect, client events | cache service | one attempt at a time, flags that tell the truth, nobody hangs |
| Event subscribers that notify, notifications | notifications | store, push; inbox, markAllAsRead | bus, sockets of the own process | each notice of an event is stored or known to be lost; nothing is pushed that is not stored |
| Schemes, events, announcements | one document each, with images | create, update, deactivate | uploads; images may be named by the client | a document refers only to what is stored, or was named by a client |
| Scheme applications | applications | apply, updateStatus | schemes, uploads | one application per citizen and scheme; decisions stay |
| Uploads | copies on disk, objects in the storage | upload one, many, delete | all that take files | no copy outlives its upload but by a refusal or an exit; no object is lost track of |
| Officials registry | registry rows | CSV import, lookup | auth (role at registration) | an import takes every row without a line break as its author meant it |
| Queues, workers, jobs | jobs in Redis | add; the worker that texts codes; six workers that log | auth | a code is texted at most once; a job ends |
| Server start and shutdown (`app.ts`, `connection.ts`) | process, sockets | start, SIGTERM, SIGINT, timer | everything it holds | nobody waits for a process whose server has closed; a shutdown ends |
| Analytics, dashboards, lists | none | queries in parallel, pages | every collection | figures of one view agree; pages show every row once |
| Users | the user document | profile update, activation, lists | auth: the update stores a refresh token too | no PIN, phone or role changes by it |
| Feedback | one document per complaint | create, lists | | one per complaint, by its index |
| Reports and exports | none | read and format | | |

Hard behaviours: stale reads before writes by id, several engines and requests on one
complaint, a failure between two writes that belong together, events lost with their
process, a wall-clock deadline racing staff work. `PROJECT.json` lists each as a hazard at
its line with the properties that watch it.

## Modules

| Module | Models |
|---|---|
| `ComplaintDb` | The rows, the tasks, and what all services share. A *task* is one coroutine: `pc` names the await it stands at, the other fields the values the code read before and uses after it. `Abort` is a rejected operation or a crash at any await. |
| `ComplaintService` | `createComplaint`, `updateStatus`, `addResolutionProof` |
| `AssignmentService` | `autoAssign`, `reassign` |
| `EscalationService` | `escalateComplaint`, `resolveEscalation` |
| `SlaEngine` | the sweep: find, then mark and emit one complaint after the other; `PassDeadline` is time |
| `Grievance` | composes the four over one database: `Next`, fairness, properties |
| `GrievancePromise` | the abstract specification: filed with what its author claims; from then on milestones in order and never undone, escalations rung by rung |
| `Upvotes` | vote documents and their counter, from any count it was created with (independent of the status, hence a module of its own) |
| `CacheKeys`, `CacheInvalidator` | all keys of the key builder, and what each invalidation deletes, in which order |
| `CacheService` | `getOrSet` with and without lock and the response middlewares, writers that invalidate, expiry, failures, crashes |
| `RedisConnection` | the connection manager with overlapping calls and clients it has let go of |
| `Auth` | `auth.service.ts`, `auth.repository.ts`, and the profile update of `user.service.ts`, for one phone: each request a task over the codes and the account |
| `ServerProcess` | the processes of the cluster: start, requests and clients that hang up, sockets, signals, exits |
| `JobQueue` | the job that texts a code and the workers that take it (extends `ServerProcess`) |
| `Notifier` | the handlers of the four events that notify, `sendNotification`, rooms (extends `ServerProcess`) |
| `Backend` | composes the three: what an exit takes with it; `Next`, fairness |
| `Portal` | schemes, events, announcements, applications, and the uploads of their files |
| `OfficialsCsv` | the split into lines, the CSV scanner and the normalisation of phones and roles, pure operators |
| `Officials` | the registry: files as their authors mean them, imports, registrations |
| `Figures` | dashboards, analytics, lists, inbox: each view a set of queries answered one by one |
| `MCCache` | definitions for TLC: every operation of `CacheInvalidator` with every key the builder makes for its data, of those treated alike one |
| `MCGrievance` | definitions for TLC: wards, departments, bodies of creations, symmetry |
| `MCAuth`, `MCPortal` | definitions for TLC: symmetry |
| `MCOfficials` | definitions for TLC: the rows that occur in files |
| `MCFigures` | definitions for TLC: symmetry |
| `GrievanceProofs` | type correctness, `Fresh`, `BreachAnnouncedOnce`, `StatusExplained`, `ClosedWasVerified`, `EscalationChainRecorded`, the refinement of `GrievancePromise`, and what one engine alone promises, as theorems |
| `CacheProofs` | type correctness and `StaleExplained` as theorems, and which keys the operations of `CacheInvalidator` reach and which they leave |
| `RedisConnectionProofs` | type correctness, `OneAttempt` and `ConnectedMeansSomeUp` as theorems |
| `AuthProofs` | type correctness and the five properties of `Auth` as theorems |
| `PortalProofs` | type correctness, `OneApplication`, `DecisionsStay`, `StorageExplained` and `NoCopyForgotten` as theorems |
| `BackendProofs` | type correctness, `NoOneWaitsOnClosed`, `TextedAtMostOnce` and `PushedAreStored` as theorems |
| `FiguresProofs` | `FiguresAddUp`, `PagesCover`, and the types and `CountAccounted` of `Upvotes`, as theorems: what users are shown |
| `OfficialsProofs` | `ParsedAsMeant` and `ImportedAsMeant` as theorems: the scanner of CSV files undoes their writing |

How state and actions correspond to the code. `complaint[c]` is the document; a timestamp is
kept as whether it is set, proofs as whether there are any. `history[c]` is the set of
statuses logged for `c`, of those in `Tracked`; `unlogged[c]` is a ghost, the statuses
written whose entry was never stored. `createComplaint` spreads the rest of its body into
the row, under what it sets itself: `Bodies` are the fields a client may send that the
services write too (dates, level, marks, officer, proof), and the ghost `sent` remembers
them. A record of `escalations` has complaint, level and `resolved`; equal records are one.
`task` has a slot per staff request in flight, one for each creation and assignment, and one
for the breach handler of each engine and complaint. `overdue` is the set of complaints
whose deadline lies in the past. Each read with the checks that follow it is one action
(`BeginUpdate`, `PickOfficer`, `EscalateBreached` ...), each awaited write another
(`WriteStatus`, `RecordEscalation` ...). Requests that are refused change nothing and are no
steps. Where the code logs *after* a write that already happened, the write and the log are
two steps, and a refused entry (`ReassignmentNoteTooLong`, an escalation that is not
`authored`) loses the entry only.

In the cache, `entry[k]` is the version of the data a key holds and `lock` the keys whose
lock is set; a caller's `pc` is the await of `getOrSet` or of the invalidation it stands
at, and `plan` what the invalidation has still to delete. A *kind* is one entity with the
keys it is cached under; a behaviour is about one kind, since two kinds share no key. A
command of Redis is one step, or fails, or takes effect and its reply is lost. `excused`
is a ghost: the keys whose entry was stored by a call that had fetched it before the data
changed, or whose deletion failed or died with its process. `setex` overwrites whatever is
there, and the lock of a key is deleted without asking whose it is, as in the code. A key
that the plan of its operation does not delete is no exception: it is in the run, and the
first reason of `StaleExplained`.
In `RedisConnection`, `link` is what each ioredis client does on its own, `client` the one
the manager holds and `held` the one the cache service holds. An event and the promise it
settles are one step, for nothing runs between them. The waiting loop of `connect` is
`Poll` and `WaitTimesOut`; the 10, 30 and 5 seconds of the code are choices, so a timeout
may fire at any time.

In `Auth`, `code[x]` is a document of the `otps` collection, live until it is used or removed
(by the index that expires it, at any moment, or by a request that makes another), and
`account` the user document of the one phone. A request stands at one await of its service
function: `drop` and `store` are the two of `createOTP`, `any`, `count` and `mark` those of
`verifyOTP`, `insert`, `session` and `save` the writes of the user. A token carries its
purpose and no identity, so `token` is the set of purposes for which one is out. The PINs
are numbered in the order they are set; `session.pin` is the PIN under which a session was
started, and `session.origin` a ghost: whether the session came from a read that was older
than the end of one (`overtaken`), from a token that a client stored in its profile
(`chosen`), or neither. `given` are the PINs under which tokens were handed out: a profile
update stores any of these tokens, or none, or leaves the session alone, and sets whether
the account is active; role, phone and PIN are taken out of it, and `express-mongo-sanitize`
takes out operators. Who has been given an access token is taken to have one that holds, for
its expiry only forbids steps. What bcrypt, JWT and the clock decide is a choice.

In `ServerProcess`, `proc[p]` says where a process is in `startServer` and in
its handlers of signals: `closing` waits for the callback of `server.close`, `disconnecting`
for Redis, `quitting` is the handler that `connectDB` registers for SIGINT. `server.close`
waits for connections, not for handlers: a request whose client has hung up (`HangUp`) goes
on, and an exit may drop it. `Die` is every exit;
`Backend` conjoins to it what becomes of the jobs and of the handlers of that process. A
request is named for what it asks for, for there is one of each kind. A job goes
`waiting`, `active`, `sent`, `done`, or `stalled` when its process exits: workers skip the
check for stalled jobs. A handler has the event of its request, whose recipients it serves in
turn: `insert` stores the notice, `push` sends it to the sockets of the same process.

In `Portal`, `upload[f]` is how far `uploadImage` got with a file, `temp` the files with
copies on the disk, `object` those in the storage. A request uploads all its files at a
time, and goes on when none fails; its document is written last. The images of a publication
may also be sent by the client, who can name what was ever uploaded and what was never
stored (`Nameable`): on creation its files take their place, on update they are added. The
ghosts are `loose`, the files that a failure, an exit, a refusal or a replacement has left
in the storage without a document, `named`, the images without an object that a client
named, and `left`, the copies that stay on the disk because multer stored them for a request
that was then refused, or because their process exited. In `Officials`, a file is a sequence
of rows its author means, a row is written in one of three styles, and the import reads the
text that was written through `ParseCsv`, which splits it at every newline, then scans each
line; characters and words are tokens, of which a phone is one. A row whose department has a
line break is written in quotes, as spreadsheets do, and so in more than one line: it is
torn, which the ghost `torn` remembers. `bulkWrite` is unordered: each of its operations is
a step. In `Figures` a figure is the set of documents its query counts, and writes happen
between any two queries; an inbox is read under any filter by `isRead` and type, which its
rows and count obey and its number of unread does not.

Operators marked `Mutant:` are not part of any specification. Each is a plausible bug, put
in the place of the definition below it, and shows that a property of a run notices it.

## Runs

| Run | Instance | Shows | States |
|---|---|---|---|
| `desk` | 1 complaint, filed with nothing more or with an officer, a proof and a date of verification, 1 officer, 1 councillor, 1 MLA, 2 requests in flight, failures, no engine | `ClosedWasVerified`, `StatusExplained` | 1.66 million |
| `sla` | 1 complaint, filed with level 0, 1, 2 or -1, flagged or breached or not, in a ward without officer, 2 engines, 1 staff escalation in flight, failures | `TypeOK`, `EscalationChainRecorded`, `BreachAnnouncedOnce`, `ImplementsPromise` | 102 thousand |
| `live` | 1 complaint, filed as in `sla`, 1 engine, 1 request in flight, fair, no failures | `BreachEscalates`, `OverdueIsFound`, `EveryComplaintAssigned` | 146 thousand |
| `upvotes` | 2 users, 2 requests of each at a time, at most 6 requests, a complaint created with a count of 2, failures | `VotesTypeOK`, `CountAccounted` | 26 thousand |
| `cache` | 2 callers, data that changes once, 8 kinds of one or two keys, with and without lock, failures | `TypeOK`, `StaleExplained`, `Converges`, `CallsEnd` | 97 thousand |
| `redis` | 3 calls, 3 clients, 1 retry | `TypeOK`, `OneAttempt`, `ConnectedMeansSomeUp`, `CallersAnswered` | 241 thousand |
| `auth` | 1 phone, 2 requests in flight of any kind, 2 codes, locked after 2 tries, 2 PINs, profile updates, failures | `TypeOK`, `OneCodePerRequest`, `PinsVerified`, `OldSessionExplained`, `SessionsStayEnded`, `PinOnlyByReset` | 737 thousand |
| `backend` | 1 process in three lives, a request that sends a code and one that resolves a complaint, 1 page, clients that hang up, failures | `TypeOK`, `NoOneWaitsOnClosed`, `TextedAtMostOnce`, `PushedAreStored`, `ShutdownEnds`, `JobsEnd`, `EventsEnd` | 176 thousand |
| `portal` | 2 requests in flight, 2 files, 1 publication, 2 applications of 1 citizen, images named by clients, failures | `TypeOK`, `StorageExplained`, `OneApplication`, `NoCopyForgotten`, `DecisionsStay` | 307 thousand |
| `officials` | 1 phone, 2 imports, files of 1 or 2 of 7 rows, one with a line break, in 3 styles, with a heading or without | `ImportedAsMeant` | 53 thousand |
| `figures` | 3 documents, pages of 2, every filter of the inbox, 1 write during a reading | `FiguresAddUp`, `PagesCover` | 1.66 million |
| `two_engines` | 2 engines, no requests, no failures | violates `OneBreachOneLevel` | |

Bounds. One complaint is enough for these properties: all but the workloads relate a
complaint to its own tasks and entries, and no step reads another complaint's row, except
`Workload`, which only chooses among officers. Two requests, or two engines and a request,
are the smallest races on a row; the theorems drop the bound. The level is bounded by the
code. `Tracked` keeps the history to the status at issue. `MaxRequests` bounds the number of
votes and removals that arrive. In the cache one change of the data makes an entry old, and
two callers are a fill and an invalidation, a holder of the lock and a waiter, or a crash
between them. Of all pairs of an operation and a key of its data, those are alike whose
plans delete the key, and its lock, by the same steps; the run takes one of each class,
among them the keys that are not deleted at all, and one kind of two keys. In `redis` three
clients let one be forgotten, one be held by the cache service and one be opened; one retry
is one more than none.

In `auth` two requests are every race on the account and on the codes; two codes let one
replace the other, two tries let one be counted before the lock, two PINs one be reset. In
`backend` processes share only the queue and the database: a socket of another process is,
for a handler, as a socket that is not there, and the life that follows an exit stands for
another worker; the theorems drop the bound. In `portal` two files make an upload that fails
in part, two applications a second one for the same scheme. In `officials` two rows and two
imports let a phone occur twice in a file and in two files, and a torn row stand before or
after a whole one. In `figures` one write is what may fall between two queries, and three
documents with a limit of two make two pages. In `upvotes` two requests of one user are the
race in which a removal takes off a vote that is gone.

Deadlock is checked for the cache and the connection, and not where all have got what they
asked for and nobody need ask for more.

Fairness (`Fairness` in `Grievance`). Weak fairness of each task (an operation in
flight completes and its coroutine is resumed), of the creation and assignment handlers of
each complaint, and of each engine (cron runs every half hour). None on the arrival of
requests, on failures, or on the deadline. The liveness properties are checked with
`Faults = FALSE`: with failures the first one is not kept, as told below.

In `CacheService`, weak fairness of the steps of a call (every Redis command answers or
runs into `commandTimeout`) and of expiry (every entry is stored with a time to live); in
`RedisConnection`, of what ends the wait of a call, since its timers fire. Nothing is
assumed of Redis: no connection ever need succeed.

In `Backend`, weak fairness of the start of a process (PM2 starts what has exited, the two
connections of the start answer or fail), of the 30 second timer, of the workers as a whole
and of each handler (an operation answers or fails). None on signals, sockets, or the end
of a request: `ShutdownEnds` has to hold though a request never answers, by the timer alone.
The completion of a job is taken not to fail: BullMQ's own retry of a completion that Redis
refused is not modelled, and `JobsEnd` and `TextedAtMostOnce` rest on that. `Portal`,
`Officials`, `Figures`, `Auth` and `Upvotes` assume no fairness.

### What the runs that fail show

- `two_engines`: the documentation says instances can be added without end
  (`PROJECT_DOCUMENTATION.md:185`); each brings its own engine, both find the complaint
  before either marks it, and one missed deadline escalates it twice, past the councillor.
  The theorem `OneEngineOneLevel` is the other half: with one engine it cannot happen.

### Also met, without a run

Grievances, votes and cache:

- "If breached, the system automatically escalates" (`src/README.md:55`): the mark is
  written first, so a failure after it hides the complaint for good.
- The history "tracks every status change" (`ComplaintStatusHistory.model.ts:3`): an SLA
  escalation of a complaint without officer has no `changedBy`, and its entry is refused by
  the schema after the status was written.
- The vote count is that of the Upvote documents (`Complaint.model.ts:164`): two overlapping
  removals of one vote both decrement, which `CountAccounted` counts as `missed`; and it
  starts from whatever `upvoteCount` the body of the creation has.
- `createComplaint` stores the rest of its body (`complaint.service.ts:110`): a complaint may
  be filed as verified, escalated or breached. One filed as breached is never swept, and one
  filed past the councillor's level is refused by every escalation.
- The history of statuses is a set here, so an entry lost for a status that was held once
  before is not missed by `StatusExplained`.
- "We have the lock, fetch from source" (`CacheService.ts:225`): the caller that was refused
  the lock gets there too after 200 ms, and then deletes the other's lock.
- "Get active Redis client" (`connection.ts:195`): a client whose connect timed out is
  forgotten but still listened to, and when it connects after all it marks as connected a
  newer client that is not.
- `CacheInvalidator.ts:110` announces the invalidation of the session but its pattern matches
  no session key; a changed complaint invalidates lists by a pattern that misses those by
  user and by department, searches and figures; keys of the builder that no invalidation of
  their data deletes are listed by `InvalidationsLeave`; `mset` without a time to live stores
  entries for good.
- `src/README.md:49` demands a proof before a complaint is resolved, which `updateStatus`
  does not ask for; its status names differ from the code's.

Notifications, jobs and processes:

- The councillor of a resolved complaint is never notified: the type
  `complaint_resolved_verification` (`eventSubscribers.ts:135`) is not in the enum of the
  schema (`Notification.model.ts:40`), and the failure is swallowed. `TypeKnown` models it.
- A push reaches only the sockets of the handler's own process, though PM2 runs one per CPU:
  Socket.IO has no adapter (`websocket/index.ts:11`).
- A graceful exit waits for connections and sockets, not for the handlers of events, for
  jobs, or for a request whose client has hung up, which it may drop. SIGINT has a
  second handler (`connection.ts:28`), which exits as soon as MongoDB is closed. A signal
  before the server listens closes nothing: it listens all the same and exits with 0 when
  Redis is gone, whatever it serves by then (`early`).
- PM2 kills after 5 seconds, before the 30 second timer, and waits for a `ready` that no
  process sends (`ecosystem.config.js`).
- A job whose process exits is never taken again (`queue.options.ts:14`); SMS failures are
  swallowed, so that the three attempts of a job are never used.

Authentication:

- Two overlapping requests leave two live codes with tries of their own; a code can be used
  by two requests that both found it; a token for a reset can be used until it expires.
- A refresh or login that read before the session was ended stores a session after it.
- `PUT /users/profile` writes any field but role, phone and PIN (`user.service.ts:42`), the
  refresh token among them: a client with an old token opens its session again, and can set
  whether its account is active.

Publications, applications and registry:

- Files are orphaned when the application or publication they were sent for is refused; an
  update replaces the images, and so drops those of a concurrent one; the images in a body
  are stored as they are, whether or not they were ever uploaded; `deleteImage` leaves
  references to what it destroyed; validators that run after multer leave its copies.
- Scheme applications refuse the status `pending` that the service accepts; a comment
  promises ten documents, the middleware takes five.
- `parseCsv` splits at line breaks before it reads quotes (`officials.service.ts:72`), so a
  quoted cell with a line break tears its row, and what follows the break may read as an
  official. `departmentName` stays when a role changes; a phone twice in a file gets either
  row, for the bulk write is unordered; an import after the registration changes no role.

Figures:

- The unread of an inbox are counted whatever its list is narrowed to
  (`notification.service.ts:142`): under `isRead=true` they are none of the rows counted.
- The breakdown by status on the dashboards of citizens and officers is always empty: an
  aggregation does not cast the id in its filter (`byStatus uncast`).
- Pages are sorted by fields that tie, so rows can be shown twice or never, also when
  nothing is written; `precomputeDailyAnalytics` has no caller.

## Proofs

A theorem is about every value of the constants that its module's assumption admits. Those
of the grievance core are `StaffAssumption` (the roles are disjoint, `None` is nobody),
`WardAssumption`, `BodiesAssumption` (what a body carries has its types) and
`ScopeAssumption`, in `ComplaintDb`; no set needs to be finite.
Where a property is not inductive, the invariant that is says what is about to be written,
for the code reads, awaits and writes by id.

The grievance core (`GrievanceProofs`):

- `TypeCorrect`, `TypeOKHolds`. `TypeOK` alone is not inductive: a task carries the
  complaint, status and level it is going to write, so `TypeInv` adds that a running task
  has a complaint, one past its read a status, one about to record or write an escalation a
  level of 1..2, whatever level the complaint was filed with, and an engine about to
  announce a breach a complaint. One lemma per action.
- `FreshAlways`. While the creation slot of `c` is idle its row is the empty one and no
  task, sweep or deadline knows `c`. This makes the insert a first write, which the
  monotonicity arguments need.
- `ClosedWasVerifiedHolds`. A transition is validated on an old read, so the invariant must
  speak of pending writes: `NeverEarly` says that a pending "verified" or "closed" has its
  earlier milestone by now. It holds at the read by the transition table and
  `ClosedWasVerified`, for a date sent by the author stands for no status, and later because
  no step takes a milestone back (`Kept`), which for the insert is `Fresh`. All steps but
  `BeginUpdate` and `WriteStatus` fall under one frame lemma.
- `EscalationChainRecordedHolds`. An escalation writes a level it computed from an older
  read, so `PendingRecorded` speaks of what is about to be written: the record of the level
  below exists, or the complaint was filed with it, when level 2 is planned, and the record
  of the level itself once only the complaint remains to be written. Records are never
  removed (`RecordsKept`), and nobody but the creation writes what was sent.
- `BreachAnnouncedOnceHolds`. The property looks at an engine that is about to announce, the
  invariant `Announced` at the handlers too: a complaint whose handler in this process has
  begun is marked and not about to be announced again, what is about to be announced is
  marked and no longer among those to do. A sweep finds only the unmarked ones, and nothing
  takes a mark back. It speaks of one process: two engines may announce once each.
- `StatusExplainedHolds`. `TimelineInv` adds that a task of an assignment or an escalation
  logs the status it writes, and that no assignment begins before its creation is done, so
  that starting one stops none that has still to log. Of two racing writers it is the last
  whose status stays, and that one's task is still to log it, has, or its entry is lost.
- `PromiseImplemented`. Each step of `Next` is a step of `GrievancePromise` or leaves its
  variables alone: a status is written only from where the promise allows it (`NeverEarly`),
  a record is made for the next rung only (`PendingRecorded`), and a row's level moves to a
  rung on record. The other steps keep milestones, levels and records (`Stutter`).
- `OneEngineOneLevel`. With one engine the run `two_engines` would find nothing, for any
  number of complaints and of requests other than escalations: only the handler of the one
  engine escalates a complaint, and while it has not written the level is the one the
  complaint was filed with (`OneLevelInv`, with `Announced`).

The others:

- `TypeOKHolds` and `StaleExplainedHolds` of `CacheService`, from `CacheAssumption` and
  `PlanAssumption`. `StaleExplained` counts as pending all that a call has still to
  delete; the invariant `StaleInv` must be sharper (`Owes`): once the keys of a pattern
  were looked for, only those found are going to be deleted. Between the two an entry may
  be stored by a call that fetched before the change, and that is `excused`; a call that
  fetches later stores the new version. A key that the plan does not reach is the first
  reason, so that nothing is assumed of the plans. Which keys that are is said by two
  theorems about the operators: `InvalidationsReach`, the keys that each operation of
  `CacheInvalidator` deletes, for any ids, texts and pages and whatever else Redis holds,
  and `InvalidationsLeave`, the keys made for the same data that none of its steps deletes,
  for ids and texts that are not words of the keys. `invalidateBulk`, a sequence that the
  caller chooses, is only model-checked.
- `FiguresAddUpHolds`, from `FiguresAssumption` (the documents are finitely many).
  `TornInv`: there is a set of documents, no larger than the number of writes, but for
  which all figures that were answered are what the queries would count now. A write puts
  one document into that set, and the figures of one view then add up outside of it; those of
  an inbox as far as its filter lets them, for `unread` is counted without it.
  `markAllAsRead` puts there all it marks, and counts as a write for each.
- `PagesCoverHolds`. `PageInv` speaks of places: where no two ranks are equal a document's
  place is the number of those that do not come after it, each order of the list puts it
  there (`OrderPlaces`, by counting), and what has been shown is what has a place up
  to the end of the last page answered.
- `RedisTypeOKHolds`, `OneAttemptHolds`, `ConnectedMeansSomeUpHolds`, from
  `ConnectionAssumption`. The bound of the retries needs `Retrying`: a client that waits to
  reconnect has an attempt left. The other two are inductive over the types: a step either
  leaves the attempts alone or ends the only one, and a step either leaves the flag and the
  connected clients alone, or clears the flag, or sets it as a client connects.
- `AuthTypeOKHolds`, and the five properties of `Auth`, from `AuthAssumption`.
  `OneCodePerRequestHolds` needs `NoneOfOwn`: a request past its drop and before its store
  has no stored code of that purpose. `PinsVerifiedHolds` needs that every pending step
  that will set a PIN is `Backed` by an accepted code, since tokens and reads outlive what
  they are evidence of. `OldSessionExplainedHolds` says of a pending session what the
  property says of a stored one: it is of the `Current` PIN, overtaken, or chosen by the
  client, and what a profile update chooses is among `given`. The two action
  properties follow from these and the types.
- `PortalTypeOKHolds`, `OneApplicationHolds`, `DecisionsStayHolds`, `NoCopyForgottenHolds`,
  from `PortalAssumption`, over types alone, which say of a request what it is going to do
  (`Goal`). `StorageExplainedHolds` needs what is to be written: once all of a request's
  files are uploaded they are kept (`Ready`, `Kept`), an image a client may name is kept or
  becomes `named`, a file that is being uploaded is held
  by a request or loose (`FileInv`), and a document not yet made refers to nothing
  (`DocumentInv`). `DocumentsAlone` and `RunAlone` are the frames of most steps.
- `BackendTypeOKHolds` and three properties, from `ServerAssumption`, which makes the
  number of processes finite. The bound of exits holds because it counts the processes
  told to stop as exits to come. `NoOneWaitsOnClosedHolds` needs that
  a process told to stop while it served is up and does not listen, so that none comes once
  its server has closed, while others go on, hang up and exit.
  `TextedAtMostOnceHolds` needs that a code not yet sent by its job was never texted,
  `PushedAreStoredHolds` that a handler about to push has stored the notice. `Held` also
  says that a process that is down does not listen.
- `UpvotesTypeOKHolds` (in `FiguresProofs`) and `CountAccountedHolds`, from
  `BoundAssumption`, for any number of requests of one user. `Found`: a vote about to be
  inserted is not there, one about to be deleted is, as long as its user never had two
  requests at once; only then can a removal find nothing to delete and still decrement.
- `ParsedAsMeant` and `ImportedAsMeantHolds`, from `PhoneAssumption` (a run of ten digits is
  none of the symbols that mean something else: quote, comma, blank, newline, the country
  code, the heading's word) and `OfficialsAssumption` (a row's department has no blanks
  around it: `trim()` takes them away, so what an author means cannot have them). The
  departments, the rows and their number are otherwise free. The argument:
  1. `Scanned(line)`, the variables of the loop of `parseCsvLine` turn by turn, is a
     recursive function; `ScannedRecursion` shows that it exists for every line and obeys
     its equations, and `DoubledRecursion` the same of a text with its quotes doubled.
  2. The library's principles of induction take an operator as a parameter, which no
     installed prover instantiates. `SetInduction` does the same for a *set* of numbers: the
     least number missing from it (`LeastNatural`, from a well-founded relation) has a
     predecessor that is not.
  3. With it a cell is followed character by character: `PlainScanned` for one without comma
     and quote, `QuotedScanned` for one in quotes, whose invariant says in which of its three
     states the loop is behind each symbol of the text, the doubled quotes counted as one.
     That the closing quote is the last needs `NoQuoteAfter`: the next character is a comma,
     or there is none.
  4. `LineColumns`, `PhoneTextMeant` and `RoleTextMeant` give the official of a line in every
     form it can be written in, `HeadingIsNoOfficial` that the heading gives none.
  5. The file is split before anything else (`ContentIsLines`): the lines written are the
     pieces between the newlines that end them, so a row without a line break is a line of
     its own whatever its neighbours hold (`WholeLineStands`, `LineFound`), and if no row has
     one there are no other lines (`FilledIsLine`). Of torn rows nothing is said.
  6. `ImportedAsMeant` alone is not inductive: the invariant adds `LeftWasMeant`, that what a
     bulk write has still to write was meant by a file, as long as none has a torn row, so it
     may be written late, after other imports, or never.

Only model-checked: the liveness properties (`BreachEscalates`, `OverdueIsFound`,
`EveryComplaintAssigned`, `Converges`, `CallsEnd`, `CallersAnswered`, `ShutdownEnds`,
`JobsEnd`, `EventsEnd`), for the prover knows neither fairness nor ENABLED.
All other properties of the runs that hold are theorems.

## Plan

1. Done: the grievance core and its abstract specification, upvotes, the cache and its
   connection; authentication, processes with jobs and notifications, publications and
   applications with their files, the registry, and what views read.
2. Done: every safety property of the runs as a theorem, and the refinement of
   `GrievancePromise`. Left: the safety halves of the liveness properties.
3. `mget`, `mset` and the session helpers of the cache; the images and proofs of complaints
   as publications of `Portal`, which are uploaded and written in the same order; the
   metrics of the SLA engine.

Not modelled, and why: the six other queue processors are stubs that log; reports and CSV
export are layout; the view counter of schemes, feedback, and the fields of a profile
besides the token and the activation are single-document updates without protocol; that a
copy on disk cannot be removed is taken not to happen; the notification of an SLA alert and
the announcement subscriber have the form of the handlers in `Notifier`; authorisation, rate
limits and validation of requests decide which requests arrive, and any may; storage, SMS,
bcrypt, JWT, BullMQ and the database driver are external, and appear as what the code does
with their outcomes.
