--------------------------- MODULE SnapshotPipeline ---------------------------
(***************************************************************************)
(* How one conversation's S3 snapshot follows its rows: ingest requests    *)
(* (services/ingest.py) store versions and ask for a snapshot job, workers *)
(* run that job (workers/handlers.py, services/snapshots.py), the sweeps   *)
(* of services/retention.py take rows away, reconcile_partial changes the  *)
(* conversation without asking for a snapshot.                             *)
(*                                                                         *)
(* A step is what a PostgreSQL transaction does between two points where   *)
(* it can wait.  The session does not autoflush, so the UPDATE of the      *)
(* conversations row takes its row lock at the first explicit flush of a   *)
(* request and, in the worker, only when the job is committed.  The ORM    *)
(* writes a column only if its value differs from the one it LOADED, which *)
(* decides what becomes of snapshot_stale.  The job queue is used through  *)
(* its lease (JobLease): a job is none, pending or running.                *)
(***************************************************************************)
EXTENDS Integers, FiniteSets

CONSTANTS
    Request,      \* ingest requests that store one new version each
    Promotion,    \* partial messages that reconcile_partial promotes
    Worker,
    SlowWorkers,  \* may a lock pass its stale threshold under a live worker?
    MaxFaults     \* bound: crashes, failed requests, failed handlers

ASSUME SnapshotAssumption ==
    /\ IsFiniteSet(Request) /\ IsFiniteSet(Promotion)
    /\ Request \cap Promotion = {}
    /\ SlowWorkers \in BOOLEAN
    /\ MaxFaults \in Nat

VARIABLES
    stage,      \* where a request's transaction stands
    sawStale,   \* snapshot_stale as a transaction loaded it
    ownJob,     \* the requests whose enqueue_job inserted a row
    promoted,   \* what reconcile_partial has committed
    life,       \* the conversation: live, live under a hold, deleted or purged
    removed,    \* the versions that have a deleted_at, or were purged
    stale,      \* conversations.snapshot_stale
    number,     \* conversations.snapshot_version
    recorded,   \* the document whose digest is conversations.snapshot_sha256
    objects,    \* the S3 objects of the conversation's snapshots
    job,        \* the live snapshot job of the conversation
    row,        \* which of the jobs rows inserted so far the live job is
    inserted,   \* snapshot jobs inserted so far
    holder,     \* the workers whose lock token is the job's
    wpc,        \* where a worker stands in the handler
    draft,      \* the document a worker has built
    base,       \* snapshot_version as a worker loaded it
    claimed,    \* the jobs row a worker claimed
    builds,     \* documents built so far: generated_at makes each unique
    faults

requestVars == <<stage, ownJob>>
retention   == <<life, removed>>
rowVars     == <<stale, number, recorded>>
jobVars     == <<job, row, inserted, holder>>
workerVars  == <<wpc, draft, base, claimed, builds>>
vars == <<stage, sawStale, ownJob, promoted, life, removed, stale, number, recorded, objects,
          job, row, inserted, holder, wpc, draft, base, claimed, builds, faults>>

Document == [content : SUBSET (Request \cup Promotion), id : Nat]
NoDraft  == [content |-> {}, id |-> 0]

\* The document doc under the S3 key of snapshot n.
Object(n, doc) == [number |-> n, doc |-> doc]

Committed == {r \in Request : stage[r] = "committed"} \cup promoted

\* Some request has updated the conversations row and not yet committed.
RowLocked == \E r \in Request : stage[r] \in {"stored", "queued"}

\* Some worker has updated the jobs row and not yet committed.
JobLocked == \E w \in holder : wpc[w] = "completing"

\* An empty conversation with its snapshot.
Init ==
    /\ stage = [r \in Request |-> "new"]
    /\ sawStale = [t \in Request \cup Worker |-> FALSE]
    /\ ownJob = {} /\ promoted = {}
    /\ life = "live" /\ removed = {}
    /\ stale = FALSE /\ number = 0 /\ recorded = NoDraft
    /\ objects = {Object(0, NoDraft)}
    /\ job = "none" /\ row = 0 /\ inserted = 0 /\ holder = {}
    /\ wpc = [w \in Worker |-> "idle"]
    /\ draft = [w \in Worker |-> NoDraft]
    /\ base = [w \in Worker |-> 0] /\ claimed = [w \in Worker |-> 0]
    /\ builds = 0 /\ faults = 0

\* The transaction t loaded snapshot_stale and sets it to new: the value the
\* row has after the flush.
Flushed(t, new) == IF sawStale[t] = new THEN stale ELSE new

Fault == faults < MaxFaults /\ faults' = faults + 1

-----------------------------------------------------------------------------
(* An ingest request: ingest_message of one new version *)

\* get_or_create_conversation selects the row, soft-deleted or not.  Once it is
\* purged another conversation is created.
Load(r) ==
    /\ stage[r] = "new" /\ life # "purged"
    /\ stage' = [stage EXCEPT ![r] = "loaded"]
    /\ sawStale' = [sawStale EXCEPT ![r] = stale]
    /\ UNCHANGED <<ownJob, promoted, retention, rowVars, objects, jobVars, workerVars, faults>>

\* The flush that inserts the version also updates the conversation.  If the row
\* is gone the item's savepoint is rolled back and it is answered "retryable".
Store(r) ==
    /\ stage[r] = "loaded"
    /\ ~RowLocked
    /\ stage' = [stage EXCEPT ![r] = IF life = "purged" THEN "refused" ELSE "stored"]
    /\ UNCHANGED <<sawStale, ownJob, promoted, retention, rowVars, objects, jobVars,
                   workerVars, faults>>

\* uq_jobs_dedupe_active for the key snapshot:<conversation>.
JobLive == job # "none"

\* mark_snapshot_stale: INSERT ... ON CONFLICT DO NOTHING waits for a worker
\* that is completing the job, and does nothing if one is live.
MarkSnapshotStale(r) ==
    /\ stage[r] = "stored"
    /\ ~JobLocked
    /\ stage' = [stage EXCEPT ![r] = "queued"]
    /\ ownJob' = IF JobLive THEN ownJob ELSE ownJob \cup {r}
    /\ UNCHANGED <<sawStale, promoted, retention, rowVars, objects, jobVars, workerVars,
                   faults>>

CommitRequest(r) ==
    /\ stage[r] = "queued"
    /\ stage' = [stage EXCEPT ![r] = "committed"]
    /\ stale' = Flushed(r, TRUE)
    /\ IF r \in ownJob
       THEN job' = "pending" /\ inserted' = inserted + 1 /\ row' = inserted + 1
       ELSE UNCHANGED <<job, inserted, row>>
    /\ UNCHANGED <<sawStale, ownJob, promoted, retention, number, recorded, objects, holder,
                   workerVars, faults>>

\* The request fails as a whole and is sent again.
RequestFails(r) ==
    /\ Fault
    /\ stage[r] \in {"loaded", "stored", "queued"}
    /\ stage' = [stage EXCEPT ![r] = "new"]
    /\ ownJob' = ownJob \ {r}
    /\ UNCHANGED <<sawStale, promoted, retention, rowVars, objects, jobVars, workerVars>>

-----------------------------------------------------------------------------
(* The snapshot job *)

ClaimJob(w) ==
    /\ wpc[w] = "idle"
    /\ job = "pending"
    /\ job' = "running" /\ holder' = {w}
    /\ wpc' = [wpc EXCEPT ![w] = "claimed"]
    /\ claimed' = [claimed EXCEPT ![w] = row]
    /\ UNCHANGED <<requestVars, sawStale, promoted, retention, rowVars, objects, row, inserted,
                   draft, base, builds, faults>>

\* handle_build_snapshot loads the conversation.
LoadConversation(w) ==
    /\ wpc[w] = "claimed" /\ life \in {"live", "held"}
    /\ wpc' = [wpc EXCEPT ![w] = "loaded"]
    /\ sawStale' = [sawStale EXCEPT ![w] = stale]
    /\ base' = [base EXCEPT ![w] = number]
    /\ UNCHANGED <<requestVars, promoted, retention, rowVars, objects, jobVars, draft, claimed,
                   builds, faults>>

\* Mutant: only what the last snapshot does not have.
SnapshotRows_Since == (Committed \ removed) \ recorded.content

\* The rows build_snapshot selects: deleted_at IS NULL.
SnapshotRows == Committed \ removed

\* build_snapshot: read the committed rows and assemble the document, whatever
\* has become of the conversation since it was loaded.
BuildSnapshot(w) ==
    /\ wpc[w] = "loaded"
    /\ wpc' = [wpc EXCEPT ![w] = "built"]
    /\ draft' = [draft EXCEPT ![w] = [content |-> SnapshotRows, id |-> builds + 1]]
    /\ builds' = builds + 1
    /\ UNCHANGED <<requestVars, sawStale, promoted, retention, rowVars, objects, jobVars, base,
                   claimed, faults>>

\* Mutant: the object of the current version is written again.
SnapshotNumber_Same(w) == base[w]

\* snapshot_version + 1, of which snapshot_key makes the S3 key.
SnapshotNumber(w) == base[w] + 1

\* write_snapshot: put_json.
PutSnapshot(w) ==
    /\ wpc[w] = "built"
    /\ wpc' = [wpc EXCEPT ![w] = "written"]
    /\ objects' = {o \in objects : o.number # SnapshotNumber(w)}
                      \cup {Object(SnapshotNumber(w), draft[w])}
    /\ UNCHANGED <<requestVars, sawStale, promoted, retention, rowVars, jobVars, draft, base,
                   claimed, builds, faults>>

\* complete_job updates the jobs row, if the lock token is still this worker's.
CompleteJob(w) ==
    /\ wpc[w] = "written"
    /\ wpc' = [wpc EXCEPT ![w] = "completing"]
    /\ UNCHANGED <<requestVars, sawStale, promoted, retention, rowVars, objects, jobVars,
                   draft, base, claimed, builds, faults>>

\* The handler run of w is over.
Leave(w) ==
    /\ wpc' = [wpc EXCEPT ![w] = "idle"]
    /\ draft' = [draft EXCEPT ![w] = NoDraft]
    /\ base' = [base EXCEPT ![w] = 0]
    /\ claimed' = [claimed EXCEPT ![w] = 0]
    /\ UNCHANGED builds

\* The commit flushes the conversation: it waits for the row lock.
CommitJob(w) ==
    /\ wpc[w] = "completing" /\ life # "purged"
    /\ ~RowLocked
    /\ number' = SnapshotNumber(w)
    /\ recorded' = draft[w]
    /\ stale' = Flushed(w, FALSE)
    /\ job' = IF w \in holder THEN "none" ELSE job
    /\ holder' = holder \ {w}
    /\ Leave(w)
    /\ UNCHANGED <<requestVars, sawStale, promoted, retention, objects, row, inserted, faults>>

\* A soft-deleted conversation: the handler returns early and the job completes
\* without touching the conversation.
SkipSnapshot(w) ==
    /\ wpc[w] = "claimed" /\ life = "deleted"
    /\ job' = IF w \in holder THEN "none" ELSE job
    /\ holder' = holder \ {w}
    /\ Leave(w)
    /\ UNCHANGED <<requestVars, sawStale, promoted, retention, rowVars, objects, row, inserted,
                   faults>>

\* A purged one: NonRetryableError, and fail_job makes the claimed row dead.
ConversationMissing(w) ==
    /\ wpc[w] = "claimed" /\ life = "purged" /\ ~JobLocked
    /\ IF JobLive /\ row = claimed[w]
       THEN job' = "none" /\ holder' = {}
       ELSE UNCHANGED <<job, holder>>
    /\ Leave(w)
    /\ UNCHANGED <<requestVars, sawStale, promoted, retention, rowVars, objects, row, inserted,
                   faults>>

\* What fail_job makes of a job with attempts left.
AfterFailure == "pending"

\* Another jobs row has the dedupe key, committed or not.
KeyTaken(w) ==
    IF JobLive THEN row # claimed[w] ELSE \E r \in ownJob : stage[r] = "queued"

\* The handler raised (in put_json: before or after S3 stored the object).
\* fail_job makes the claimed row pending again, whoever runs it by now, even
\* when it is finished; then the dedupe index may refuse the commit.
FailJob(w) ==
    /\ Fault
    /\ wpc[w] \in {"claimed", "loaded", "built", "written"}
    /\ ~JobLocked
    /\ IF KeyTaken(w)
       THEN UNCHANGED jobVars
       ELSE job' = AfterFailure /\ holder' = {} /\ row' = claimed[w] /\ UNCHANGED inserted
    /\ Leave(w)
    /\ UNCHANGED <<requestVars, sawStale, promoted, retention, rowVars, objects>>

\* The worker dies or loses its session: the job stays running.
Abandon(w) ==
    /\ holder' = holder \ {w}
    /\ Leave(w)
    /\ UNCHANGED <<requestVars, sawStale, promoted, retention, rowVars, objects, job, row,
                   inserted>>

WorkerDies(w) == Fault /\ wpc[w] # "idle" /\ Abandon(w)

\* The commit updates a row that was purged since: it fails, which _execute
\* suppresses.
CommitFindsNothing(w) ==
    wpc[w] = "completing" /\ life = "purged" /\ Abandon(w) /\ UNCHANGED faults

\* Mutant: locked_at > cutoff.
Orphaned_Inverted == holder # {}

\* Nobody is at work on the running job.
Orphaned == holder = {}

\* recover_stale_jobs; it too waits for a worker that is completing the job.
RecoverStale ==
    /\ job = "running"
    /\ ~JobLocked
    /\ \/ Orphaned /\ UNCHANGED faults
       \/ ~Orphaned /\ SlowWorkers /\ Fault
    /\ job' = "pending" /\ holder' = {}
    /\ UNCHANGED <<requestVars, sawStale, promoted, retention, rowVars, objects, row, inserted,
                   workerVars>>

-----------------------------------------------------------------------------
\* A request that waits for the jobs row and a worker that waits for the
\* conversations row: PostgreSQL aborts one of the two.
Deadlocked(r, w) == stage[r] = "stored" /\ w \in holder /\ wpc[w] = "completing"

\* The request loses: its savepoint is rolled back, the item answered "retryable".
RequestLoses(r, w) ==
    /\ Deadlocked(r, w)
    /\ stage' = [stage EXCEPT ![r] = "refused"]
    /\ UNCHANGED <<sawStale, ownJob, promoted, retention, rowVars, objects, jobVars,
                   workerVars, faults>>

\* The worker loses: its commit fails, which _execute suppresses.  The INSERT
\* that waited for it finds the job still running.
WorkerLoses(r, w) ==
    /\ Deadlocked(r, w)
    /\ stage' = [stage EXCEPT ![r] = "queued"]
    /\ holder' = holder \ {w}
    /\ Leave(w)
    /\ UNCHANGED <<sawStale, ownJob, promoted, retention, rowVars, objects, job, row, inserted,
                   faults>>

\* handle_reconcile_partial: the conversation is marked stale, no job is queued.
ReconcilePartial(p) ==
    /\ p \notin promoted /\ life # "purged"
    /\ ~RowLocked
    /\ promoted' = promoted \cup {p}
    /\ stale' = TRUE
    /\ UNCHANGED <<requestVars, sawStale, retention, number, recorded, objects, jobVars,
                   workerVars, faults>>

-----------------------------------------------------------------------------
(* The retention sweep, run as a job of its own kind *)

\* soft_delete_expired takes the conversations row first, so every version a
\* request has committed is marked with it.
SoftDelete ==
    /\ life = "live" /\ ~RowLocked
    /\ life' = "deleted" /\ removed' = removed \cup Committed
    /\ UNCHANGED <<requestVars, sawStale, promoted, rowVars, objects, jobVars, workerVars,
                   faults>>

\* A hold committed after the sweep had selected the conversation: its row and
\* its messages are spared, but apply_legal_hold does not reach message_versions,
\* and those the last UPDATE saw (D) are marked.
SweepUnderHold(D) ==
    /\ life = "live"
    /\ life' = "held" /\ removed' = removed \cup D
    /\ UNCHANGED <<requestVars, sawStale, promoted, rowVars, objects, jobVars, workerVars,
                   faults>>

\* hard_delete_grace_expired: the rows go with the conversation.
Purge ==
    /\ life = "deleted" /\ ~RowLocked
    /\ life' = "purged" /\ removed' = removed \cup Committed
    /\ UNCHANGED <<requestVars, sawStale, promoted, rowVars, objects, jobVars, workerVars,
                   faults>>

-----------------------------------------------------------------------------
RequestStep(r) == Load(r) \/ Store(r) \/ MarkSnapshotStale(r) \/ CommitRequest(r)

WorkerStep(w) ==
    \/ ClaimJob(w)
    \/ LoadConversation(w) \/ SkipSnapshot(w) \/ ConversationMissing(w)
    \/ BuildSnapshot(w) \/ PutSnapshot(w) \/ CompleteJob(w)
    \/ CommitJob(w) \/ CommitFindsNothing(w)

Deadlock(r, w) == RequestLoses(r, w) \/ WorkerLoses(r, w)

Next ==
    \/ \E r \in Request : RequestStep(r) \/ RequestFails(r)
    \/ \E w \in Worker : WorkerStep(w) \/ FailJob(w) \/ WorkerDies(w)
    \/ \E r \in Request, w \in Worker : Deadlock(r, w)
    \/ \E p \in Promotion : ReconcilePartial(p)
    \/ RecoverStale
    \/ SoftDelete \/ Purge \/ \E D \in SUBSET Committed : SweepUnderHold(D)

Spec == Init /\ [][Next]_vars

\* Transactions in progress go on, PostgreSQL resolves deadlocks, live workers
\* poll, and a stale lock is recovered in some cycle.  No request has to come.
Fairness ==
    /\ \A r \in Request : WF_vars(stage[r] # "new" /\ RequestStep(r))
    /\ \A w \in Worker : WF_vars(WorkerStep(w))
    /\ \A r \in Request, w \in Worker : WF_vars(Deadlock(r, w))
    /\ WF_vars(Orphaned /\ RecoverStale)

FairSpec == Spec /\ Fairness

-----------------------------------------------------------------------------
(* Properties *)

TypeOK ==
    /\ stage \in [Request -> {"new", "loaded", "stored", "queued", "committed", "refused"}]
    /\ sawStale \in [Request \cup Worker -> BOOLEAN]
    /\ ownJob \subseteq Request /\ promoted \subseteq Promotion
    /\ life \in {"live", "held", "deleted", "purged"}
    /\ removed \subseteq Request \cup Promotion
    /\ stale \in BOOLEAN /\ number \in Nat /\ recorded \in Document
    /\ objects \subseteq [number : Nat, doc : Document]
    /\ job \in {"none", "pending", "running"} /\ holder \subseteq Worker
    /\ inserted \in Nat /\ row \in Nat
    /\ claimed \in [Worker -> Nat]
    /\ wpc \in [Worker -> {"idle", "claimed", "loaded", "built", "written", "completing"}]
    /\ draft \in [Worker -> Document]
    /\ base \in [Worker -> Nat]
    /\ builds \in Nat /\ faults \in 0 .. MaxFaults

\* The parts of the inductive invariant ----------------------------------------

\* A request inserts a job only in a transaction that has the conversations row
\* to itself, while there is no live job.
Inserting ==
    /\ \A q, r \in Request :
          stage[q] \in {"stored", "queued"} /\ stage[r] \in {"stored", "queued"} => q = r
    /\ \A r \in ownJob : stage[r] \in {"queued", "committed"}
    /\ \A r \in ownJob : stage[r] = "queued" => job = "none"

\* If no handler outlives its lock, who is at work holds the lock, alone.
Leased ==
    /\ \A w \in Worker : wpc[w] # "idle" => w \in holder
    /\ \A v, w \in holder : v = w
    /\ job # "running" => holder = {}

\* The worker at work has the recorded version number ...
Based ==
    \A w \in Worker :
        wpc[w] \in {"loaded", "built", "written", "completing"} => base[w] = number

\* ... its draft lacks only what retention took from the recorded snapshot ...
Drafted ==
    \A w \in Worker :
        wpc[w] \in {"built", "written", "completing"} =>
            /\ recorded.content \ removed \subseteq draft[w].content
            /\ draft[w].content \subseteq Committed

\* ... and once written it is the one object under the next number.
Written ==
    \A w \in Worker :
        wpc[w] \in {"written", "completing"} =>
            {o \in objects : o.number = number + 1} = {Object(number + 1, draft[w])}

RecordedCommitted == recorded.content \subseteq Committed

\* The properties ---------------------------------------------------------------

\* The digest in the conversations row is the digest of the object its key
\* names, "the value an auditor recomputes to prove the archive was not altered"
\* (snapshots.py:215): no crash, retry or failed run overwrites a recorded
\* snapshot or records one that was not written.
RecordedIntact == {o \in objects : o.number = number} = {Object(number, recorded)}

\* A later snapshot lacks a version an earlier one had only if a retention sweep
\* marked that version: no interleaving of requests, crashes, deadlocks, holds and
\* sweeps loses another.
OnlyRetentionRemoves == [][recorded.content \ recorded'.content \subseteq removed]_vars

\* A committed version with a pending snapshot job, its own or the one its request
\* was coalesced with, gets into a recorded snapshot, whatever workers crash or lose
\* deadlocks on the way, unless retention takes the version or the conversation.
PendingJobCovers ==
    \A r \in Request :
        (stage[r] = "committed" /\ job = "pending") ~>
            (r \in recorded.content \cup removed \/ life \in {"deleted", "purged"})

=============================================================================
