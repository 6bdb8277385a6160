# A formal model of the TechSara chat archive

TLA+ modules, TLC runs and TLAPS proofs for the program in `src/`: a Chrome
extension that captures ChatGPT conversations of a managed workspace, a FastAPI
backend that archives them in PostgreSQL and S3, the workers behind it, and the
optional poller of OpenAI's compliance feed. `PROJECT.json` lists components,
runs, mutants, the map from definitions to source lines, hazards, findings and
theorems. Paths below are relative to `src/services/backend/app/` unless they
start with `apps/`, which is `src/apps/chrome-extension/src/`.

## 1. Inventory

| Component | State | Operations | What makes it correct | Model |
|---|---|---|---|---|
| Job queue (`services/jobs.py`, `models/jobs.py`) and workers (`workers/worker.py`) | rows of `jobs` and `job_attempts`; a worker's session with its cached rows | enqueue, claim, complete, fail, recover stale, prune, periodic scheduling | one owner per row, one live row per dedupe key, outcomes kept, every job settled | `JobQueue` |
| Offline queue and sync engine (`modules/offline-queue.ts`, `background/sync-engine.ts`, `modules/api-client.ts`, `background/service-worker.ts`) | items in IndexedDB, attempts, backoff; the stored session | enqueue, enforceLimits, takeDue, flush, remove, reschedule | bounded, and nothing captured is lost outside its bounds | `SyncEngine` |
| Conversation snapshots (`services/snapshots.py`, `workers/handlers.py`) | snapshot columns of `conversations`, S3 objects, the snapshot job | mark stale, build, put, record, reconcile_partial, and the retention sweep that takes rows away | the recorded digest is that of the stored object, a version leaves the snapshots only by retention, a pending job covers what is committed | `SnapshotPipeline` |
| Compliance feed (`workers/compliance_poller.py`, `services/compliance_import.py`) | checkpoint, `source_event_keys`, `source_events`, raw objects, the import job | poll cycle, persist, advance, import | no event lost whatever fails; deletions become tombstones | `ComplianceSync` |
| Ingest (`services/ingest.py`, `api/v1/ingest.py`) | conversations, messages, versions, idempotency keys, capture events | upsert, message batch, capture events, feedback | versions numbered without gaps, a payload stored once, nothing answered and then lost | `Ingest` |
| Attachments (`services/attachments.py`, `api/v1/attachments.py`, `workers/handlers.py`) | `attachments` rows, quarantine, clean and curated objects, the finalize job | init, presigned PUT, complete, link, finalize, expire | only checked bytes become available, nothing stays in quarantine | `Attachments` |
| Retention and legal hold (`services/retention.py`) | `deleted_at`, `legal_hold` on three tables | hold, soft and hard deletion | nothing under hold is deleted, holds and sweeps do not block each other | `Governance` |
| Exports (`services/exports.py`, `api/v1/admin.py`) | export rows and part objects | select, build, put parts, manifest | the export is what its manifest says, of eligible conversations | `Governance` |
| Accounts, devices, sessions (`services/accounts.py`, `api/v1/auth.py`, `api/deps.py`; `modules/auth-client.ts`, `background/service-worker.ts` of the extension) | session id and refresh hash per device, revocation; the stored tokens | sign in, refresh, sign out, authenticate, revoke | a refresh token works once, a revoked device stays out, the stored session is a live one | `AuthSession` |
| Capture in the page (`content/content-script.ts`, `modules/live-observer.ts`, `conversation-backfill.ts`, `route-observer.ts`, `workspace-verifier.ts`) and the worker's configuration | tracked messages, quiet timer, backfills, activation, cached configurations | observe, settle, flush, route change, backfill, activate, load and broadcast configuration | each settled text is reported, under its own conversation, while and only while policy allows | `Capture` |
| Rate limiter (`core/ratelimit.py`) | timestamps per key | hit, prune | never more than the limit in a window | not modelled |
| Policy rules, object storage client, database sessions, audit, HTTP shell, UI, partition DDL, deploy and backup scripts | none of their own, or another system's | | | used as guards or not modelled, see section 8 |

How they interact. The extension's content script hands batches to the service
worker, which puts them into the offline queue; `flush` posts them to the
backend. A request is one PostgreSQL transaction: it stores versions, marks the
conversation stale and queues jobs. Workers claim jobs and run their handlers on
the session they claimed with; handlers write S3 objects, which no transaction
covers. The poller collects upstream events in one transaction per cycle and
queues the import job. Files go past the queue: the extension asks for a presigned
URL, puts the bytes to S3 and completes, and a job verifies them. All requests carry
the access token of one session per device, which the service worker refreshes. What
the tab may capture is decided by a configuration that travels from the backend to
the service worker and on to the tab, each of which keeps a copy.

What is hard here: locks with a time limit that handlers may outlive; SQLAlchemy
sessions that neither autoflush nor expire, so code tests a cached row; S3 writes
between a read and a commit; dedupe keys that also match a running job; errors
caught inside the scope that commits; IndexedDB operations that are several
transactions, with a service worker that Chrome may end at any `await`; a page that
changes under the observers between any two of its tasks; tokens rotated on one side
and stored on the other.
`PROJECT.json` lists these as hazards with the lines where they bite.

## 2. Modules

| Module | Contents |
|---|---|
| `JobQueue` | the queue and its workers, parts of the inductive invariant, properties |
| `JobLease` | the abstract specification: a job is leased to one worker, who settles it or gives it back |
| `JobQueueLease` | the refinement mapping from `JobQueue` to `JobLease` |
| `MCJobQueue` | the rows of the runs |
| `JobQueueProofs` | theorems about `JobQueue`, and that it refines `JobLease` |
| `SnapshotPipeline`, `MCSnapshotPipeline`, `SnapshotProofs` | snapshots of one conversation, its instance, its theorems |
| `SyncEngine`, `MCSyncEngine`, `SyncEngineProofs` | the extension's queue and flush, its instance, its theorems |
| `ComplianceSync`, `MCComplianceSync`, `ComplianceProofs` | the compliance feed, its instance, its theorems |
| `Ingest`, `MCIngest` | requests that write one conversation, the instance |
| `Archive` | the abstract specification of what ingest keeps: histories of messages that only grow |
| `IngestArchive` | the refinement mapping from `Ingest` to `Archive` |
| `IngestProofs` | theorems about `Ingest`, and that it refines `Archive` |
| `Attachments`, `MCAttachments`, `AttachmentsProofs` | an uploaded file from init to clean, rejected or expired, its instance, its theorems |
| `Governance`, `MCGovernance`, `GovernanceProofs` | the retention sweep, legal holds and an export, its instance, its theorems |
| `AuthSession`, `MCAuthSession` | one device's session on both sides, its instance |
| `Capture`, `MCCapture` | one tab: observers, backfill, activation, configuration |
| `ExtensionProofs` | theorems about `AuthSession` and `Capture` |

### JobQueue

One action is one transaction, except that a claim is two steps (`SelectForUpdate`
takes the row locks, `ClaimCommit` updates and commits), so that claims overlap.
A worker's cycle is `EnsurePeriodic`, `RecoverStale`, `SelectForUpdate`,
`ClaimCommit`, then one job of its batch after the other: `CompleteJob`,
`FailJob`, or `CommitRefused` when the commit breaks a unique index, which
`_execute` suppresses and which ends the batch. `cached` and `myToken` are the
session's own copy of the claimed rows: `fail_job` uses `session.get`, which
returns that copy, so its token test compares a worker's token with itself.
`complete_job` is an UPDATE whose WHERE names the token and so sees the row.
Time is two sets: `due` (`run_after` has passed) and `aged` (`locked_at` is older
than the stale threshold). With `SlowWorkers` a lock may age while its worker is
still at work; without, only locks of dead or interrupted workers age.

### SnapshotPipeline

Requests store one version each, in the order load, flush (row lock), enqueue,
commit. Workers claim, load the conversation (`LoadConversation`), read its rows
(`BuildSnapshot`), put the object, complete, commit. The sweep of `services/retention.py`
runs alongside: `SoftDelete` marks the conversation and its versions, `Purge` deletes them,
and `SweepUnderHold` marks versions of a conversation that a hold has just spared, since no
version carries a hold of its own. `build_snapshot` selects rows without a `deleted_at`
(`SnapshotRows`). A job that finds the conversation soft deleted completes without a
snapshot (`SkipSnapshot`), one that finds it purged dies (`ConversationMissing`), and a
commit whose row is gone fails (`CommitFindsNothing`). `Flushed`
is the ORM's change detection: a column is written only if it differs from the
value that was loaded. `Deadlock` is PostgreSQL's: a request that holds the
conversation and waits for the job row, a worker that holds the job row and waits
for the conversation; either may be the victim. A document is the set of versions
in it and a number that makes every build unique (`generated_at`). The S3 key of
a snapshot carries a date prefix besides the number; the model names objects by
number, which is the case of retries within one month.

### SyncEngine

`enqueue` is `CheckKey`, `AddItem`, `EnforceRead`, `EnforceDelete`, four separate
IndexedDB transactions. A flush takes copies (`TakeDue`), sends the oldest, and
then removes or reschedules it; several flushes run at once. The answers are those
`api-client.ts` distinguishes: no token, 401, another refusal, retryable status,
no answer, and 200 with per-message results nobody looks at. `WorkerDies` keeps
the store and forgets everything else.

### ComplianceSync

A cycle is `StartCycle`, then `FetchPage` and `PersistEvent` until the last page,
then `Advance`; `FailCycle` commits what the cycle has written, because the errors
are caught inside `session_scope`. The upstream log is external: events are
numbered as they appear, a cursor is a position in that order, and event times
may lag behind by `Lateness`. The import selects the oldest unprocessed rows and
commits them in one transaction; a conversation that two of them create breaks
the unique constraint (`ImportConflicts`). A storage error (`StorageError`) leaves
the event's key claimed; the history variable `damaged` remembers such events. A cycle
that ends at its page limit moves the window as well; `left` remembers what it moved past.
The import takes the first `ImportLimit` unprocessed rows in the order of their times
(`Oldest`) and queues no further job for the rest; `overtaken` remembers the rows a full job
left behind. The properties that the code keeps in spite of these except them by name.

### Ingest

A request is one READ COMMITTED transaction; its items run in savepoints. Reads
take no locks: `LoadConversation`, `FindBySource`, `FindByFingerprint`,
`FindByContent` and `LookForVersion` are one SELECT each and leave what they read in
`seen`, `target` and `match`. Every item ends in a flush of the conversations row
(`StoreItem`, `TouchConversation`, `CreateConversation`), which takes its lock; from
there on the request sees its own `draft`, which `Commit` makes `db`. `ClaimKey` is
the INSERT on `idempotency_keys`; it waits for a request that has claimed the key
and not ended, and a deadlock between a key and the row makes either request the
`Victim`. `StoreConflicts` is an IntegrityError, `ItemFails` any other error: the
savepoint takes back the item's claim and, if the item took it, the lock.
`CreateConversation` fails the whole request when another insert won, because
`session.rollback()` closes the savepoint the caller then tries to roll back. A
message is named by its fingerprint, a pair of slot (position and time bucket) and
content. `Resend` is a client that sends a request again at any time after it ended.
`IngestArchive` reads the committed rows as an `Archive`: a message's `History` is the
sequence of its versions in the order of their numbers, `known` the claimed keys, `complete`
the messages with status complete. The archive has one step, `Store`: new versions at the end
of histories, each with a new key and a text its message has not. A payload has one of the
four statuses the API admits (`schemas/ingest.py:24`); the extension sends two, partial and
complete. What a request decides, it decides on the statuses it loaded without a lock (`target`),
and it writes a status only if it differs from the one loaded. A complete message of the archive
stays complete unless it gets a new version and has one sent as unknown or reconciled
(`Undecided`).

### Attachments

A request or the handler loads the row, talks to S3, and commits; `Flush` writes the
columns that differ from what was loaded, so overlapping writers merge column by
column. `InitLoad`/`InitCommit`, `CompleteLoad`/`CompleteCommit` and
`Finalize`/`Copy`/`FinalizeCommit` are the halves of those transactions. A body stands
for its own digest and has a length and a type. The presigned URL admits only the body
it was signed for, but a PUT the client gave up on (`LatePut`) may arrive until the URL
expires. `Tick` takes the clock past the URL's expiry and past the sweep's hour; no
request is open across it. One worker runs the job at a time, since a worker that
outlives its lock is the subject of `JobQueue`.

### Governance

The sweep is one transaction of six statements, each an action that sees what was
committed before it: `SweepSelect`, `SweepConversations`, `SweepMessages`,
`SweepVersions`, `PurgeSelect`, `Purge`, then `SweepCommit`. An UPDATE waits for rows an open
transaction has changed and then looks at `legal_hold` again, as PostgreSQL does.
`HoldUpdate` goes through `HoldTables` in order; the CHECK constraint fails the
statement that breaks it. An export reads its ids once, then builds one record after
the other while holds, deletions and reviews go on, and puts its parts; a failed attempt
leaves its objects, and the next one starts over. One attempt runs at a time. `approved` stands
for a conversation that is approved as a whole, without secrets, and captured completely enough
(`services/exports.py:94`); the filters of the request are left out.

### AuthSession

Session n is its session id, its access token and its refresh token. On the backend an
exchange is two steps (`RotateRefreshToken` or `SignIn` loads the row, `IssueSession`
commits), so that exchanges and the administrator's `RevokeLoad`/`RevokeCommit` overlap;
a commit writes the columns it changed. In the extension each caller of `accessToken()`
reads the stored session, refreshes on its own and persists or clears what it finds.
`disturbed` remembers that exchanges overlapped, that the service worker stopped in one,
or that the answer to a sign-in was lost. `Call` is an endpoint that loads the principal;
`/config`, which looks at the token alone (`api/v1/auth.py:71`), is not one.

### Capture

The address and the transcript change in two steps (`Navigate`, `Render`), and the route
observer notices in a third (`RouteCheck`). A task of the page's event loop is one action:
`EmitStable` is the quiet timer's, `Hide` the flush of a hidden tab, `BackfillStep` what a
backfill does between two awaits. `TryActivate` is reached from every configuration the
tab receives. A configuration is open or closed, which is what `verifyWorkspace` and
`captureAllowed` make of it. Messages between tab and worker may be lost (`ok`); when that
happens to the one that asks for the configuration the tab's copy becomes null, which closes it
(`LoseConfig`). The quiet timer fires whether or not the page has rendered what it opened:
`misread` remembers what it read of one conversation under the address of another. A text stands
for its signature (`modules/live-observer.ts:40`: length and last 64 characters), which is all the
observer compares.

## 3. Runs

| Run | Checks | Shows |
|---|---|---|
| `JobQueue_slow` | `DedupeUnique`, `SingleOwner`, `AttemptNumbersFresh`, `AttemptsBoundedByRecoveries` | the row invariants survive handlers that outlive their lock |
| `JobQueue_prompt` | `EffectsOnce`, `NoResurrection`, `RefinesLease`, `EventuallySettled` | without such handlers the queue is a lease, and every job is settled |
| `JobQueue_zombie` | `NoResurrection`, violated | with them, `fail_job` overwrites the outcome of the worker that took over |
| `SyncEngine_queue` | `QueueBounded`, `Durable`, `Delivered` | the caps hold after every enqueue, and what was stored is delivered, refused or given up |
| `SyncEngine_overlap` | `GivenUpAfterTries` | overlapping flushes never count a failure twice |
| `Snapshot_intact` | `RecordedIntact`, `OnlyRetentionRemoves`, `PendingJobCovers` | recorded digests stay true, a version leaves the snapshots only by retention, and a pending job covers what is committed, coalesced edits included |
| `Compliance_feed` | `NothingSkipped`, `WindowStored`, `Collected`, `SponsoredImported` | late events, pages, failures and crashes lose nothing, storage errors, blocked imports and the rows past an import's limit excepted by name |
| `Ingest_batches` | `VersionsNumbered`, `StoredOnce`, `AnsweredStored`, `NothingToReconcile`, `RefinesArchive` | overlapping, repeated and failing batches, in all four completion statuses, keep versions numbered and payloads stored once, what was answered is stored, and seen from outside the archive only grows |
| `Attachments_quarantine` | `CleanVerified`, `QuarantineHasJob`, `Settles` | restarts, late PUTs, S3 errors, crashes and the sweep: clean means verified, quarantine means a job that ends |
| `Governance_hold` | `HeldKept`, `ManifestMatches`, `HoldDecided`, `TwoStages` | whatever a hold marked stays, holds are decided, exports match their manifests, and no row skips a stage of deletion |
| `AuthSession_rotation` | `RevocationFinal`, `SpentStaysSpent`, `StoredUsable`, `DeadSessionLeaves` | revocation wins over exchanges in flight, used refresh tokens stay used, dead sessions leave the extension |
| `Capture_tab` | `LiveOwnConversation`, `SettledIsEmitted`, `ParkedTabRevives`, `PauseReaches`, `BackfillEnds` | reports go under their own conversation unless the page was slower than the timer, settled text is emitted, policy changes arrive, backfills end |

The violated property quotes the comment it comes from, and `findings` says what
the code does instead. Every property of a passing run has a
mutant: a named operator next to the one it replaces, for a plausible slip, under
which TLC finds the property violated. Every module states a `TypeOK` (`TabTypeOK` in
`Capture`), which documents the variables; section 6 proves it, so that the runs can spend
their time on the other properties.

Hazards the code has and no property is about: a handler that raises commits its flushed
writes with the failure (`workers/worker.py:113`); a periodic job whose enqueue fails waits
for its next interval (`workers/worker.py:139`); `message_count` is incremented from a value
read before the lock (`services/ingest.py:708`); `reconcile_partial` marks a conversation
stale and queues no snapshot (`workers/handlers.py:300`). None contradicts a document.

More disagreements are visible in the models and have no run of their own; each was
seen as a TLC counterexample or follows from the definitions named.

Queue, ingest, snapshots, feed:
- `SyncEngine_queue` with `Expiry = TRUE` and `MaxFaults = 0` violates `Durable`:
  `refreshSession` (`background/service-worker.ts:236`) clears the session on any error, a
  network error included, the next request throws "Not signed in", which is not
  retryable, and `flush` removes the item. `background/sync-engine.ts:4` says that "a
  closed laptop lid, a dropped VPN or an evicted service worker cannot lose a message".
- In `SnapshotPipeline` the invariant `Committed \subseteq recorded.content \/ JobLive` is
  violated by two requests and one worker: the dedupe index also covers a RUNNING job, so
  an edit that commits after the job has read the rows queues nothing, where
  `services/ingest.py:418` says "further edits coalesce into it".
- In `ComplianceSync`, `NothingSkipped` without `damaged` is violated with one fault:
  `run_cycle` catches errors inside `session_scope`, so when `put_json` raises after
  `persist_event` claimed the key, the claim is committed and every later cycle skips the
  event. `services/compliance_import.py:4` says "A crash therefore causes at most
  reprocessing, never data loss".
- In `Ingest`, `[][db'.rank >= db.rank]_vars` is violated by two upserts with ranks 2 and
  3 that load the conversation before either writes it: the lower may commit last.
  `CODEBASE_WALKTHROUGH.md:113` says "It can only ever go up".
- `SyncEngine_queue` with `Conflicts = TRUE` violates `Durable`: `flush` removes a
  batch after a 200 without looking at the per-item results, so a message answered
  "retryable" (`services/ingest.py:792`, "retry this item") is not sent again.
- `Snapshot_intact` with `SlowWorkers = TRUE` violates `RecordedIntact`: a handler
  that outlived its lock puts its document under the number its successor recorded.
- In `ComplianceSync`, `WindowStored` without `left` is violated by two events and
  `MaxPages = 1`: a cycle that ends at its page limit moves `window_start` past events it
  did not fetch, and those older than the overlap are not asked for again.
  `services/compliance_import.py:264` says "Advance only after every event in the window is
  durably stored".
- `SponsoredImported` without `overtaken` is violated: the import takes 500 rows a job
  (`services/compliance_import.py:168`), a cycle may store 50 pages of 100
  (`core/config.py:135`), and the rest waits for the next cycle that brings new events.
- The exception `[]Blocked` of `SponsoredImported` is reached: with autoflush off the
  import does not see the conversation it has just added, two events of one new
  conversation break the unique constraint, and every retry does so again. And only
  `sponsored` rows are promised at all: rows stored while the import runs coalesce
  into a job that has selected its rows.
- In `Ingest`, a fragment that arrives after the complete version of its message
  becomes the current version, where `docs/CHROME_EXTENSION.md:69` has the complete
  capture supersede the partial one. `NothingToReconcile` shows that the committed rows never
  hold what `reconcile_partial` looks for, a complete version (status COMPLETE, not RECONCILED,
  `workers/handlers.py:283`) of a message that is not complete. The handler reads message and
  versions in two statements, so a request that commits between them can still make it act;
  `SnapshotPipeline` keeps that write as `ReconcilePartial`.
- In `Ingest`, a message that a promotion made complete (`services/ingest.py:634`) loses the
  status again to a request that loaded it before and brings another text with status unknown or
  reconciled: lines 704-705 write the payload's status over the row's. With the two statuses the
  extension sends, the loaded value would have been partial too, and nothing is written.
- A version stored into a soft-deleted conversation queues a job that skips it
  (`workers/handlers.py:128`), and one that the sweep marked under a hold leaves the next
  snapshot; `PendingJobCovers` and `OnlyRetentionRemoves` except them by `life` and `removed`.
- `AttemptsBoundedByRecoveries` is the bound the queue really has:
  `recover_stale_jobs` does not look at `max_attempts`.

Attachments:
- `SweepCommit` writes `expired` over rows that a client has restarted and completed since
  the sweep's SELECT, clean ones included (`services/attachments.py:377`, "Mark
  presigned-but-never-uploaded attachments as expired"). If clients restarted after that,
  finalize could end a row clean with a digest other than its `sha256`; the extension never
  does, since every file gets a new id.
- `CleanVerified` excepts `raced`: `copy_object` is not pinned to the version that was
  verified, so a PUT in between puts other bytes under the clean key.
- `Linked` takes the latest user message when the turn of the file is not stored yet, which
  may be the turn before.

Governance:
- `SweepVersions` marks versions of a conversation whose hold committed after the sweep's
  SELECT: nothing sets the versions' own `legal_hold` (`services/retention.py:3`, "Legal hold
  always wins"). `HeldKept` speaks of conversations and messages.
- A message ingested after a hold committed carries no mark of its own, so a sweep that
  selected its conversation before the hold soft deletes it (`SweepMessages`).
  `TwoStages` therefore speaks of each row's own mark.
- A hold on a conversation that is soft deleted and in its grace period fails on the CHECK
  constraint (`HoldUpdate`, "failed").
- A shorter second attempt of an export leaves part objects that its manifest does not list.

Sessions:
- Two refreshes that load the row before either commits both succeed
  (`services/accounts.py:222`, "single use"); `SpentStaysSpent` is what remains true.
- The loser of two overlapping refreshes clears the session the winner has just stored, and
  a sign-out during a refresh is undone by `PersistTokens`. `StoredUsable` excepts both by
  `disturbed`.

Capture:
- `LiveOwnConversation` without `misread` is violated when the route observer has noticed an
  address the page takes more than `quietMs` to render: the timer reads the old transcript under
  the new address, and the test of `emitStable` compares addresses only
  (`modules/live-observer.ts:126`).
- A backfill reads address and page after its awaits, so leaving the conversation during one
  reports the new conversation, unscrolled, and counts the old one as backfilled
  (`modules/conversation-backfill.ts:55`, "The returned completeness is honest";
  `content/content-script.ts:214`, "Archive the conversation the employee just opened, once
  per session"). Two backfills at once each restore the position they found. Therefore
  `LiveOwnConversation` speaks of live reports only.
- `Hide` cancels the quiet timer: text that came since the last reading is neither flushed nor
  read again until the next change (`modules/live-observer.ts:11`, "nothing is silently lost"),
  and a text counts as emitted before its report arrives. `SettledIsEmitted` therefore asks for a
  running timer and speaks of emission.

## 4. Bounds

`MaxFaults` bounds crashes and other faults and is at least what the property's
worst case needs: two in `JobQueue` (a worker lost and its successor lost), one in
`SyncEngine` and `ComplianceSync` (one interruption at any point of a protocol that
starts over). Two workers and three rows, two of which share a dedupe key, reach
every pairwise race of claims, recoveries and late failures; a claim takes up to
two rows, so a batch has a job that waits behind another. `MaxAttempts` is 2 for
one row, so that both sides of `attempts < max_attempts` occur. In `SyncEngine`
two batches of two messages and one meet a queue of one item and three bytes, so
both caps bind, and an item is given up after two or three tries. Two requests
and a promotion are enough for a snapshot to be overtaken by an edit, and the sweep may come
between any two steps of them. In
`ComplianceSync` three events on pages of one and two pages per cycle are the smallest
sizes at which a cycle reads several pages and may end at its limit; an overlap of one time unit and a
lateness of one are the smallest at which a window without overlap loses an
event, two of the events belong to one conversation, and an import takes two rows, one fewer than
there are, so that its limit binds; the runs assume `Lateness <= Overlap`, as the adapter's document does. In
`Ingest` two batches capture one turn with a source id in several texts, one of them partial and
complete, with the statuses unknown, partial and complete between them, and one without a source
id in another place; one item fails its checksum, and an upsert claims a
completeness the browser may not claim; requests may be sent again without bound,
and one fault is enough to take a batch apart at any item. In
`Attachments` a client starts three times with three bodies, two of one length, so that
a size check alone is not enough, and two faults use up a job's two attempts. In
`Governance` two sweeps are what a soft and a hard deletion need, two conversations in
different splits make two parts, and one hold takes both. In `AuthSession` three sessions
allow a sign-in, a rotation and a second one that loses. In `Capture` one message with two
texts and two conversations are enough to report it under the wrong one; two employee moves
and one policy change or lost configuration combine with any step of two backfills. Symmetry
is used for workers and flushes in runs without liveness.

## 5. Fairness

`JobQueue`: a live worker keeps taking the steps of its loop and a dead one is
restarted (`restart: unless-stopped` in the compose files); backoffs elapse and
abandoned locks age. No handler has to succeed. `SyncEngine`: the alarm keeps
starting flushes, `enqueue` calls in progress go on, backoffs elapse; requests may
fail for ever. `SnapshotPipeline`: transactions in progress go on, PostgreSQL breaks
deadlocks, workers poll, abandoned locks are recovered. `ComplianceSync`: the
poller keeps polling and a worker runs the import job. `Ingest` has no liveness
property. `Attachments`: workers poll and recover; clients, S3 and the clock promise
nothing. `Governance`: PostgreSQL goes on with open transactions. `AuthSession`: alarms keep
calling `accessToken()`, the backend answers, access tokens expire; of refresh tokens
nothing is assumed. `Capture`: the page renders what it opens and streams end, the tab's
timers fire, the configuration alarm and its messages get through in the end; the employee
has to do nothing. Faults, new work and
successes are never required.

## 6. Proofs

Each module of proofs extends the component's module, proves that its inductive invariant
holds initially and is kept by every action, and draws the theorems from it. Most parts of
the invariants are named definitions of the component's module, next to the properties;
TLC has checked them as invariants of the runs' instances. Theorems hold for every value of
the constants that the named `ASSUME`s of the component's module allow; where a theorem has a
hypothesis of its own, it is given here.

`JobQueueProofs` proves, for any jobs, workers, keys and number of faults:
`TypeCorrect`, `LockTokens`, `MutualExclusion`, `FreshAttempts`, `DedupeHolds` and
`AttemptsBounded` (`TypeOK`, `LockIffRunning`, `SingleOwner`, `AttemptNumbersFresh`,
`DedupeUnique`, `AttemptsBoundedByRecoveries`), and, if `~SlowWorkers`,
`EffectsCommittedOnce`, `OutcomesKept` and `QueueIsLease` (`EffectsOnce`,
`NoResurrection`, `RefinesLease`). The assumptions are `JobAssumption` and
`WorkerAssumption`. `SingleOwner` is not inductive: two workers could own a row if two
sessions had been given one token. `Numbered` says that tokens and attempt numbers
are numbered by claims made, `Cached` that a session's copy holds numbers that were
handed out and are not on record, `Distinct` that no two sessions share one.
`AttemptsBounded` counts: by `ReturnsPaid` every claim but the first follows a recovery or
a recorded attempt below `max_attempts`, and since attempts are recorded once there are
fewer of these than `max_attempts`. For the theorems without slow workers, `HoldersValid`
(who has a job in its batch owns it), `AgedOrphan` (only locks nobody holds age) and
`SuccessKept` are added. `QueueIsLease` takes the refinement mapping of `JobQueueLease` step
by step (`LeaseStep`): in such states a job in a batch is leased to the one worker that has
it and a job in no batch to nobody (`Mapped`); claims are `Lease`, outcomes `Settle` or
`GiveBack`, recoveries `Reclaim`, interrupted batches fall to nobody, and the rest stutters.

`SnapshotProofs` proves `SnapshotTypes` (`TypeOK`) and, if `~SlowWorkers`,
`SnapshotKept` (`RecordedIntact`) and `SnapshotsLoseOnlyDeleted` (`OnlyRetentionRemoves`), from
`SnapshotAssumption`. `RecordedIntact` speaks of the recorded number only; that the
next one is safe to record needs `Leased` (whoever is at work holds the lock,
alone), `Based` (it loaded the recorded number), `Drafted` (its draft lacks of the recorded
snapshot only what retention has taken) and `Written` (the
object under the next number is exactly that draft), with `Inserting` and
`RecordedCommitted`.

`SyncEngineProofs` proves, from `SyncAssumption`, `SyncTypes` (`TypeOK`), `GivenUpIsTried`
(`GivenUpAfterTries`), `QueueKeepsLimits` (`QueueBounded`) and, if `~Conflicts`, `~Expiry`
and `~Refusals`, `NothingIsLost` (`Durable`); section 3 shows what the code does without
these. `Numbered` gives each item to one call; its count of items is the cardinality of the
calls that made one, which is why no identifier runs out. `AttemptsEarned` says that no copy
of an item, in the store or in a flush, counts more attempts than have failed, however old it
is. `QueueBounded` speaks of moments without a pending `enforceLimits`; `LimitsAhead` says of
all others that either one is still to read the store, or those under way delete all that is
too much. `Bytes` is the cardinality of a set of bytes, so that the library's facts on finite
sets give its monotonicity. `RemovesSettled` and `Kept` are for `Durable`: a flush is about to
remove only what the backend has settled.

`ComplianceProofs` proves, from `ComplianceAssumption`, `FeedTypes` (`TypeOK`),
`WindowIsComplete` (`WindowStored`) and, if `Lateness <= Overlap`, `FeedSkipsNothing`
(`NothingSkipped`): the overlap is there for late events, and an event that is later than it
can appear behind every window. `ClaimsKept` says that a claimed key has its row and its
object or was damaged, `CycleSound` how far a cycle has come: everything of the window up to
its position is `Accounted` for (claimed, in the page, or left behind), once no page is left
that is the whole log it found, and what has appeared since is not older than `Lateness`.

`IngestProofs` proves, from `IngestAssumption` and `KeyAssumption` and for any requests,
batches and repetitions, `IngestTypes` (`TypeOK`), `VersionsStayNumbered`
(`VersionsNumbered`), `PayloadsAreStoredOnce` (`StoredOnce`), `AnswersAreStored`
(`AnsweredStored`), `NothingIsLeftToReconcile` (`NothingToReconcile`, for all four statuses) and `IngestIsArchive`
(`RefinesArchive`). They share one invariant. `RowsKept`: the committed rows and the lock holder's draft are sound, the draft
only adds to what is committed (`Extends`), and every version has a claimed key. `KeysOwned`:
a key has one owner. `ClaimsStand`: a committed key of a message stands for archived
content. `RequestsSound`, of each request: where it stands (`FrameSound`), that what it found
without a lock is still there when it writes, with a count that may be stale and is never too
high (`TargetSound`), and that what it answered survives the rollback of its current item
(`AnswersKept`). The stale count is why the unique constraint is needed, and the
proof of `StoreItem` uses it: a request that would write a stale status over that of a message
with a complete version (`Finished`) also has a stale count, so the index refuses its version.
Only for a message with an undecided version (`Doubtful`) can a stale status be written, and
`RefinesArchive` excepts it. `KeyAssumption` says that equal keys carry equal content
and that upserts and messages share none: the key is a digest over the text
(`modules/message-normalizer.ts:129`), and the keys of upserts have a prefix of their
own (`background/sync-engine.ts:60`). The refinement needs `HistoryKept` besides: numbers
occur once per message in `db` and in the draft (`NoRepeats`), and what a draft adds carries
keys that only its request has claimed. Then the draft's histories begin with those
committed (`StoreRefines`), so that `Commit` is a `Store`; every other action leaves the
committed rows alone and stutters (`StepRefines`).

`AttachmentsProofs` proves, from `AttachmentAssumption` and for any attachments, bodies and
faults, `AttachmentTypes` (`TypeOK`), `CleanIsVerified` (`CleanVerified`) and
`QuarantineIsServed` (`QuarantineHasJob`). `InTurn` orders client, job and handler; since a
request or the handler loaded a row, at most the sweep has changed it (`OnlyExpired`), so what
they flush column by column is what they decided on (`RequestSound`, `HandlerSound`).
`HandlerSound` also follows the verified bytes through the copies.

`GovernanceProofs` proves, from `GovernanceAssumption` and for any holds with overlapping
scopes, sweeps, messages and faults, `GovernanceTypes` (`TypeOK`), `HoldsKept`
(`HeldKept`), `ExportIsItsManifest` (`ManifestMatches`) and `DeletionInTwoStages`
(`TwoStages`). `HeldKept` speaks of committed
holds; the invariant says why none of their rows is in a sweep when they commit:
`SweepApart` (the sweep's deletes and purges are disjoint from held rows and from rows open
holds have locked), `Cascaded` (no message outlives its conversation) and `HoldWhole` (a hold
that marked a message marked its conversation first, so the cascade cannot take the message
either). It is the order of the hold's two statements that gives the last. For the export,
`ExportInv` follows an attempt: its ids, records and parts are of eligible conversations, each
part is `Filed` under a number of its own, so later parts leave it alone, and a completed
export starts no attempt that could write over them. `TwoStages` is about what the sweep
commits, six statements after it looked: `SweepDue` says that what it is about to delete or
purge was due when it looked and still is, which the locks of `SweepApart` and the order of
`Cascaded` preserve while holds and requests go on.

`ExtensionProofs` proves of `AuthSession`, for any callers, users, sessions and faults, `SessionTypes`
(`TypeOK`), `RevocationWins` (`RevocationFinal`), `RotationFinal` (`SpentStaysSpent`) and
`StoredSessionUsable` (`StoredUsable`). The first three follow from the types and what a
step may change. The last needs to know
what an exchange under way carries: `Presented` (the token it sends was issued),
`Listening` (only an exchange can have lost its service worker), `OneSession` (the row's
session id and refresh token are of one session) and `InStep`: while nothing was disturbed
there is one exchange at most (`Alone`), its answer is heard and about the session in the
row (`Heard`), and outside that answer the row knows the stored session (`Known`).
Of `Capture` it proves, from `CaptureAssumption`, `CaptureTypes` (`TabTypeOK`; `TabShapes` adds
that a backfill under way has a conversation) and, for any constants, `LiveReportsAreOwn`
(`LiveOwnConversation`). Address, page and observer change in different tasks, and a report is filed under
the conversation the observer attached to; the invariant (`ObserverInv`) says that what it
tracks was said there or is in `misread`, the readings the timer made of a page that still
showed another conversation. No assumption is made on how fast the page renders.

Only model-checked: the liveness properties (`EventuallySettled`, `Delivered`,
`PendingJobCovers`, `Collected`, `SponsoredImported`, `Settles`, `HoldDecided`,
`DeadSessionLeaves`, and those of `Capture`), which are out of the prover's reach.

## 7. Plan

1. `Ingest`: capture events and their archive job, feedback.
2. Composition: `SyncEngine` with `Ingest` as its backend, end to end from capture to
   committed version; `Archive` is what the extension would see of it.

## 8. Not modelled

Parsing of ChatGPT's DOM, HTML sanitising, hashing and canonical JSON, the bytes of EXIF
stripping (data transformations); OIDC and token signatures (cryptography); creation of
users, workspaces and default policies (one insert each); capture events, their raw archive
and feedback (append-only rows of their own, dedupe by the key `Ingest` has); the pruning
of old keys; the rate limiter, which keeps timestamps of one process; partition DDL, audit
rows, logging, the HTTP shell and the popup (no protocol of their own); payload statuses
and completeness of a backfill, and identities of messages without a source id, in
`Capture`; policies with a grace period of zero days in `Governance`; deployment, backup
and restore scripts. PostgreSQL, IndexedDB, S3, Chrome's timers and the upstream log appear
as far as the code relies on them: row locks, unique indexes, READ COMMITTED reads, atomic
overwrites.
