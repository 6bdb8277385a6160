------------------------------- MODULE JobQueue -------------------------------
(***************************************************************************)
(* The durable PostgreSQL job queue (services/jobs.py, models/jobs.py) and *)
(* the worker processes that drain it (workers/worker.py).                 *)
(*                                                                         *)
(* A job is a row of the table jobs.  A worker runs cycles: schedule the   *)
(* periodic jobs, recover stale locks, claim up to Concurrency rows with   *)
(* SELECT ... FOR UPDATE SKIP LOCKED, commit the claim, and then run the   *)
(* claimed jobs ONE AFTER THE OTHER on the same SQLAlchemy session.  One   *)
(* action below is one transaction, except that the claim is two steps:    *)
(* the SELECT that takes the row locks and the UPDATE that is committed.   *)
(*                                                                         *)
(* The session keeps claimed Job objects in its identity map               *)
(* (expire_on_commit=False), so what fail_job "reads" is the row as it was *)
(* when it was claimed.  cached[w] and myToken[w] are that copy.           *)
(***************************************************************************)
EXTENDS Integers, FiniteSets

CONSTANTS
    Job,          \* the rows of the table jobs that are ever inserted
    Worker,       \* worker processes
    Key,          \* dedupe keys
    NoKey,        \* dedupe_key IS NULL
    KeyOf,        \* the dedupe key of a row
    Priority,     \* the priority of a row; a smaller number runs first
    MaxAttempts,  \* max_attempts of a row
    PeriodicJob,  \* the rows that ensure_periodic_jobs inserts
    CleanupJob,   \* those of them whose kind is cleanup_stale
    Concurrency,  \* WORKER_CONCURRENCY: how many rows one cycle claims
    SlowWorkers,  \* may a lock pass its stale threshold under a live worker?
    MaxFaults     \* bound: crashes, stops, broken sessions, slow handlers

ASSUME JobAssumption ==
    /\ IsFiniteSet(Job)
    /\ NoKey \notin Key
    /\ KeyOf \in [Job -> Key \cup {NoKey}]
    /\ Priority \in [Job -> 0 .. 1000]
    /\ MaxAttempts \in [Job -> Nat \ {0}]
    /\ CleanupJob \subseteq PeriodicJob
    /\ PeriodicJob \subseteq Job

ASSUME WorkerAssumption ==
    /\ Concurrency \in Nat \ {0}
    /\ SlowWorkers \in BOOLEAN
    /\ MaxFaults \in Nat

VARIABLES
    status,      \* jobs.status; "absent" before the insert, "pruned" after the delete
    attempts,    \* jobs.attempts
    token,       \* jobs.lock_token, 0 for NULL; the n-th claim of a row writes n
    due,         \* the rows with run_after <= now
    aged,        \* the rows whose locked_at is older than the stale threshold
    logged,      \* job_attempts: the attempt numbers recorded for a row
    succeededIn, \* those recorded with succeeded = true
    pc,          \* where a worker stands in its cycle
    selected,    \* the rows a claiming transaction holds FOR UPDATE locks on
    batch,       \* the claimed jobs a worker has still to run
    myToken,     \* the lock tokens a worker was given with its batch
    cached,      \* the attempts column of the cached Job objects of a session
    claims,      \* the claims of a row so far: uuid4() is a fresh token per claim
    recoveries,  \* history: how often a row was recovered from a stale lock
    faults       \* history: faults so far, at most MaxFaults

rowVars    == <<status, attempts, token, due, aged>>
logVars    == <<logged, succeededIn>>
workerVars == <<pc, selected, batch, myToken, cached>>
vars == <<status, attempts, token, due, aged, logged, succeededIn, pc,
          selected, batch, myToken, cached, claims, recoveries, faults>>

RowState == {"absent", "pending", "running", "succeeded", "failed", "dead", "pruned"}
Terminal == {"succeeded", "failed", "dead"}
Stage    == {"down", "idle", "recovering", "claiming", "updating", "executing"}

Live(j) == status[j] \in {"pending", "running"}

\* Mutant: the index predicate forgets 'running'.
KeyTaken_PendingOnly(j) ==
    /\ KeyOf[j] # NoKey
    /\ \E k \in Job \ {j} : status[k] = "pending" /\ KeyOf[k] = KeyOf[j]

\* uq_jobs_dedupe_active: some other live row carries the dedupe key of j.
KeyTaken(j) == /\ KeyOf[j] # NoKey
               /\ \E k \in Job \ {j} : Live(k) /\ KeyOf[k] = KeyOf[j]

\* Another transaction holds the row lock of j.
RowLocked(j) == \E v \in Worker : j \in selected[v]

Executing(w) == pc[w] = "executing"

\* w has still to run j, and the lock token of j is the one w was given.
Owns(w, j) == Executing(w) /\ j \in batch[w] /\ token[j] = myToken[w][j]

LockHeld(j) == \E w \in Worker : Owns(w, j)

\* A session without cached Job objects.
NoRows == [j \in Job |-> 0]

Init ==
    /\ status = [j \in Job |-> "absent"]
    /\ attempts = [j \in Job |-> 0]
    /\ token = [j \in Job |-> 0]
    /\ due = {}
    /\ aged = {}
    /\ logged = [j \in Job |-> {}]
    /\ succeededIn = [j \in Job |-> {}]
    /\ pc = [w \in Worker |-> "idle"]
    /\ selected = [w \in Worker |-> {}]
    /\ batch = [w \in Worker |-> {}]
    /\ myToken = [w \in Worker |-> NoRows]
    /\ cached = [w \in Worker |-> NoRows]
    /\ claims = [j \in Job |-> 0]
    /\ recoveries = [j \in Job |-> 0]
    /\ faults = 0

-----------------------------------------------------------------------------
(* Producers *)

\* INSERT ... ON CONFLICT DO NOTHING of the rows in S, all due at once.  A row
\* whose key is taken is not inserted: that call returns None.
Insert(S) ==
    /\ status' = [j \in Job |-> IF j \in S THEN "pending" ELSE status[j]]
    /\ due' = due \cup S
    /\ UNCHANGED <<attempts, token, aged>>

\* enqueue_job, called by a request handler or the compliance poller.
Enqueue(j) ==
    /\ j \notin PeriodicJob
    /\ status[j] = "absent"
    /\ ~KeyTaken(j)
    /\ Insert({j})
    /\ UNCHANGED <<logVars, workerVars, claims, recoveries, faults>>

-----------------------------------------------------------------------------
(* The worker's cycle *)

\* ensure_periodic_jobs: the kinds whose interval has elapsed on this worker's
\* clock are offered, each under its own dedupe key, and committed.
EnsurePeriodic(w) ==
    /\ pc[w] = "idle"
    /\ \E S \in SUBSET PeriodicJob :
          /\ \A j \in S : status[j] = "absent" /\ ~KeyTaken(j)
          /\ \A j, k \in S : KeyOf[j] = KeyOf[k] => j = k
          /\ Insert(S)
    /\ pc' = [pc EXCEPT ![w] = "recovering"]
    /\ UNCHANGED <<logVars, selected, batch, myToken, cached, claims,
                   recoveries, faults>>

\* Mutant: the cutoff is never compared, every running row is recovered.
StaleRows_AnyAge == {j \in Job : status[j] = "running"}

\* Mutant: rows without attempts left are not recovered, and not buried either.
StaleRows_AttemptsLeft == {j \in aged : status[j] = "running" /\ attempts[j] < MaxAttempts[j]}

\* The WHERE clause of recover_stale_jobs.
StaleRows == {j \in aged : status[j] = "running"}

\* recover_stale_jobs: every running row with an aged lock goes back to pending.
\* attempts is left as it is and max_attempts is not looked at.
RecoverStale(w) ==
    /\ pc[w] = "recovering"
    /\ LET S == StaleRows IN
          /\ status' = [j \in Job |-> IF j \in S THEN "pending" ELSE status[j]]
          /\ token' = [j \in Job |-> IF j \in S THEN 0 ELSE token[j]]
          /\ due' = due \cup S
          /\ recoveries' = [j \in Job |-> IF j \in S THEN recoveries[j] + 1
                                                     ELSE recoveries[j]]
          /\ aged' = aged \ S
    /\ pc' = [pc EXCEPT ![w] = "claiming"]
    /\ UNCHANGED <<attempts, logVars, selected, batch, myToken, cached, claims, faults>>

\* What the claim query can see: due pending rows nobody has locked.
Runnable == {j \in Job : status[j] = "pending" /\ j \in due /\ ~RowLocked(j)}

\* The first half of claim_jobs: SELECT ... ORDER BY priority LIMIT n
\* FOR UPDATE SKIP LOCKED.  Rows of equal priority come in any order.
SelectForUpdate(w) ==
    /\ pc[w] = "claiming"
    /\ \E S \in SUBSET Runnable :
          /\ \/ Cardinality(S) = Concurrency
             \/ Cardinality(S) < Concurrency /\ S = Runnable
          /\ \A j \in S, k \in Runnable \ S : Priority[j] <= Priority[k]
          /\ selected' = [selected EXCEPT ![w] = S]
          /\ pc' = [pc EXCEPT ![w] = IF S = {} THEN "idle" ELSE "updating"]
    /\ UNCHANGED <<rowVars, logVars, batch, myToken, cached, claims, recoveries, faults>>

\* Mutant: the token is derived from the row, so every claim writes the same.
FreshToken_PerRow(j) == 1

\* uuid4(): a lock token no earlier claim of the row was given.
FreshToken(j) == claims[j] + 1

\* Mutant: a claim starts counting afresh.
NextAttempt_Restart(j) == 1

NextAttempt(j) == attempts[j] + 1

\* Mutant: the claim leaves locked_at NULL, which recovery takes for stale.
LockStamp_Unset(S) == aged \cup S

\* locked_at = now on the rows of S.
LockStamp(S) == aged \ S

\* The second half of claim_jobs and the commit of run_once: the guarded UPDATE
\* of each selected row, with a fresh lock token and locked_at = now.
ClaimCommit(w) ==
    /\ pc[w] = "updating"
    /\ LET S == {j \in selected[w] : status[j] = "pending"} IN
          /\ status' = [j \in Job |-> IF j \in S THEN "running" ELSE status[j]]
          /\ attempts' = [j \in Job |-> IF j \in S THEN NextAttempt(j) ELSE attempts[j]]
          /\ claims' = [j \in Job |-> IF j \in S THEN claims[j] + 1 ELSE claims[j]]
          /\ token' = [j \in Job |-> IF j \in S THEN FreshToken(j) ELSE token[j]]
          /\ aged' = LockStamp(S)
          /\ batch' = [batch EXCEPT ![w] = S]
          /\ myToken' = [myToken EXCEPT ![w] = [j \in Job |-> IF j \in S THEN FreshToken(j) ELSE 0]]
          /\ cached' = [cached EXCEPT ![w] = [j \in Job |-> IF j \in S THEN NextAttempt(j) ELSE 0]]
          /\ pc' = [pc EXCEPT ![w] = IF S = {} THEN "idle" ELSE "executing"]
    /\ selected' = [selected EXCEPT ![w] = {}]
    /\ UNCHANGED <<due, logVars, recoveries, faults>>

-----------------------------------------------------------------------------
(* _execute: a handler's writes, the job's outcome and the job_attempts row  *)
(* are one transaction.                                                      *)

\* The claimed jobs run in the order the SELECT returned them.
NextInBatch(w, j) ==
    /\ Executing(w)
    /\ j \in batch[w]
    /\ \A k \in batch[w] : Priority[j] <= Priority[k]

\* uq_job_attempts_job_number admits this attempt.
AttemptNumberFree(w, j) == cached[w][j] \notin logged[j]

\* The session is done with j; after the last job the cycle ends.
Advance(w, j) ==
    /\ batch' = [batch EXCEPT ![w] = @ \ {j}]
    /\ pc' = [pc EXCEPT ![w] = IF batch[w] = {j} THEN "idle" ELSE "executing"]
    /\ myToken' = [myToken EXCEPT ![w] = [@ EXCEPT ![j] = 0]]
    /\ cached' = [cached EXCEPT ![w] = [@ EXCEPT ![j] = 0]]
    /\ UNCHANGED selected

\* What handle_cleanup_stale may delete: rows that succeeded 14 days ago, which
\* is longer than any session has been running its batch.
Prunable == {k \in Job : status[k] = "succeeded" /\ \A v \in Worker : k \notin batch[v]}

\* The handler returned.  complete_job writes the row only WHERE lock_token is
\* still ours; the attempt and the handler's own writes commit either way.
CompleteJob(w, j) ==
    /\ NextInBatch(w, j)
    /\ AttemptNumberFree(w, j)
    /\ \E P \in SUBSET (IF j \in CleanupJob THEN Prunable ELSE {}) :
          /\ status' = [k \in Job |->
                           CASE k \in P -> "pruned"
                             [] k = j /\ Owns(w, j) -> "succeeded"
                             [] OTHER -> status[k]]
          /\ logged' = [k \in Job |-> CASE k \in P -> {}
                                        [] k = j -> logged[j] \cup {cached[w][j]}
                                        [] OTHER -> logged[k]]
          /\ succeededIn' = [k \in Job |-> CASE k \in P -> {}
                                             [] k = j -> succeededIn[j] \cup {cached[w][j]}
                                             [] OTHER -> succeededIn[k]]
    /\ token' = [token EXCEPT ![j] = IF Owns(w, j) THEN 0 ELSE @]
    /\ aged' = IF Owns(w, j) THEN aged \ {j} ELSE aged
    /\ Advance(w, j)
    /\ UNCHANGED <<attempts, due, claims, recoveries, faults>>

\* Mutant: attempts <= max_attempts.
AfterFailure_OneMore(w, j, retryable) ==
    IF retryable /\ cached[w][j] <= MaxAttempts[j] THEN "pending"
    ELSE IF retryable THEN "failed" ELSE "dead"

\* fail_job's decision, taken on the cached attempts.
AfterFailure(w, j, retryable) ==
    IF retryable /\ cached[w][j] < MaxAttempts[j] THEN "pending"
    ELSE IF retryable THEN "failed" ELSE "dead"

\* The flush of a failed job would break uq_jobs_dedupe_active: it turns a
\* finished row live again while another live row has its key.
ReviveConflict(w, j, retryable) ==
    /\ AfterFailure(w, j, retryable) = "pending"
    /\ ~Live(j)
    /\ KeyTaken(j)

\* The handler raised (retryable = FALSE: NonRetryableError).  fail_job compares
\* the token with the cached object's own, so the test always passes, and the
\* flush writes the row by its id alone.
FailJob(w, j, retryable) ==
    /\ NextInBatch(w, j)
    /\ AttemptNumberFree(w, j)
    /\ ~RowLocked(j)
    /\ ~ReviveConflict(w, j, retryable)
    /\ status' = [status EXCEPT ![j] = AfterFailure(w, j, retryable)]
    /\ due' = IF AfterFailure(w, j, retryable) = "pending" THEN due \ {j} ELSE due
    /\ token' = [token EXCEPT ![j] = 0]
    /\ aged' = aged \ {j}
    /\ logged' = [logged EXCEPT ![j] = @ \cup {cached[w][j]}]
    /\ Advance(w, j)
    /\ UNCHANGED <<attempts, succeededIn, claims, recoveries, faults>>

\* The session was rolled back: every cached object is expired, and the rest of
\* the batch is abandoned with its rows still running.
AbandonBatch(w) ==
    /\ pc' = [pc EXCEPT ![w] = "idle"]
    /\ batch' = [batch EXCEPT ![w] = {}]
    /\ selected' = [selected EXCEPT ![w] = {}]
    /\ myToken' = [myToken EXCEPT ![w] = NoRows]
    /\ cached' = [cached EXCEPT ![w] = NoRows]
    /\ UNCHANGED <<rowVars, logVars, claims, recoveries>>

\* The commit of _execute is bound to fail: the failed job cannot be flushed.
CommitRefused(w, j, retryable) ==
    /\ NextInBatch(w, j)
    /\ ~RowLocked(j)
    /\ \/ ~AttemptNumberFree(w, j)
       \/ ReviveConflict(w, j, retryable)
    /\ AbandonBatch(w)
    /\ UNCHANGED faults

-----------------------------------------------------------------------------
(* Faults, and the passage of time *)

Fault == faults < MaxFaults /\ faults' = faults + 1

\* A database error in the middle of a cycle: worker_cycle_failed.
SessionLost(w) ==
    /\ Fault
    /\ pc[w] \notin {"down", "idle"}
    /\ AbandonBatch(w)

\* The process is killed; PostgreSQL rolls its open transaction back.
Crash(w) ==
    /\ Fault
    /\ pc[w] # "down"
    /\ pc' = [pc EXCEPT ![w] = "down"]
    /\ batch' = [batch EXCEPT ![w] = {}]
    /\ selected' = [selected EXCEPT ![w] = {}]
    /\ myToken' = [myToken EXCEPT ![w] = NoRows]
    /\ cached' = [cached EXCEPT ![w] = NoRows]
    /\ UNCHANGED <<rowVars, logVars, claims, recoveries>>

\* SIGTERM: _stopping is tested only between cycles.
Stop(w) ==
    /\ Fault
    /\ pc[w] = "idle"
    /\ pc' = [pc EXCEPT ![w] = "down"]
    /\ UNCHANGED <<rowVars, logVars, selected, batch, myToken, cached, claims, recoveries>>

\* The container's restart policy brings the process back.
Restart(w) ==
    /\ pc[w] = "down"
    /\ pc' = [pc EXCEPT ![w] = "idle"]
    /\ UNCHANGED <<rowVars, logVars, selected, batch, myToken, cached, claims,
                   recoveries, faults>>

BackoffElapses(j) ==
    /\ status[j] = "pending"
    /\ j \notin due
    /\ due' = due \cup {j}
    /\ UNCHANGED <<status, attempts, token, aged, logVars, workerVars, claims,
                   recoveries, faults>>

AgeLock(j) ==
    /\ status[j] = "running"
    /\ j \notin aged
    /\ aged' = aged \cup {j}
    /\ UNCHANGED <<status, attempts, token, due, logVars, workerVars, claims, recoveries>>

\* locked_at passes the threshold after the worker died or lost its session ...
AgeOrphan(j) ==
    /\ ~LockHeld(j)
    /\ AgeLock(j)
    /\ UNCHANGED faults

\* ... or while it is still at work on the batch: the threshold is counted from
\* the claim, and nothing renews locked_at while the jobs of the batch run.
AgeHeld(j) ==
    /\ SlowWorkers
    /\ LockHeld(j)
    /\ Fault
    /\ AgeLock(j)

-----------------------------------------------------------------------------
ExecuteStep(w) ==
    \E j \in Job :
        \/ CompleteJob(w, j)
        \/ \E retryable \in BOOLEAN : FailJob(w, j, retryable) \/ CommitRefused(w, j, retryable)

WorkerStep(w) ==
    \/ EnsurePeriodic(w)
    \/ RecoverStale(w)
    \/ SelectForUpdate(w)
    \/ ClaimCommit(w)
    \/ ExecuteStep(w)

Next ==
    \/ \E j \in Job : Enqueue(j) \/ BackoffElapses(j) \/ AgeOrphan(j) \/ AgeHeld(j)
    \/ \E w \in Worker : WorkerStep(w) \/ SessionLost(w) \/ Crash(w) \/ Stop(w) \/ Restart(w)

Spec == Init /\ [][Next]_vars

\* A live worker keeps taking the steps of its loop, a dead one is restarted,
\* and time passes.  No job has to succeed, and nothing has to go wrong.
Fairness ==
    /\ \A w \in Worker : WF_vars(WorkerStep(w)) /\ WF_vars(Restart(w))
    /\ \A j \in Job : WF_vars(BackoffElapses(j)) /\ WF_vars(AgeOrphan(j))

FairSpec == Spec /\ Fairness

-----------------------------------------------------------------------------
(* Properties *)

TypeOK ==
    /\ status \in [Job -> RowState]
    /\ attempts \in [Job -> Nat]
    /\ token \in [Job -> Nat]
    /\ due \in SUBSET Job
    /\ aged \in SUBSET Job
    /\ logged \in [Job -> SUBSET Nat]
    /\ succeededIn \in [Job -> SUBSET Nat]
    /\ pc \in [Worker -> Stage]
    /\ selected \in [Worker -> SUBSET Job]
    /\ batch \in [Worker -> SUBSET Job]
    /\ myToken \in [Worker -> [Job -> Nat]]
    /\ cached \in [Worker -> [Job -> Nat]]
    /\ claims \in [Job -> Nat]
    /\ recoveries \in [Job -> Nat]
    /\ faults \in 0 .. MaxFaults

\* The parts of the inductive invariant ----------------------------------------

\* Tokens, attempts and attempt records are numbered by claims already made.
Numbered ==
    \A j \in Job :
        /\ token[j] <= claims[j]
        /\ \A n \in logged[j] : n <= attempts[j]

\* What a session cached at its claim: a token and an attempt number that were
\* handed out, the latter not yet on record.
Cached ==
    \A w \in Worker : \A j \in batch[w] :
        /\ Executing(w)
        /\ myToken[w][j] \in 1 .. claims[j]
        /\ cached[w][j] \in 1 .. attempts[j]
        /\ AttemptNumberFree(w, j)

\* No two sessions were given the same token or attempt number of a row.
Distinct ==
    \A v, w \in Worker : \A j \in batch[v] \cap batch[w] :
        v # w => /\ myToken[v][j] # myToken[w][j]
                 /\ cached[v][j] # cached[w][j]

\* If no handler outlives its lock, a session owns every job of its batch ...
HoldersValid == \A w \in Worker : \A j \in batch[w] : Owns(w, j)

\* ... only locks that nobody holds grow stale ...
AgedOrphan == \A j \in aged : \A w \in Worker : j \notin batch[w]

\* ... and only a row that is still marked succeeded has a successful attempt.
SuccessKept == \A j \in Job : succeededIn[j] # {} => status[j] = "succeeded"

\* How many recorded attempts of j may have set it back to pending (fail_job).
Retried(j) == Cardinality(logged[j] \cap 1 .. (MaxAttempts[j] - 1))

\* Every claim but the first follows a recovery or one of those attempts.  A pruned
\* row has lost its records, and nobody can bring it back.
ReturnsPaid ==
    \A j \in Job :
        CASE status[j] \in {"absent", "pending"} -> attempts[j] <= recoveries[j] + Retried(j)
          [] status[j] = "pruned" -> /\ attempts[j] <= recoveries[j] + MaxAttempts[j]
                                     /\ \A w \in Worker : j \notin batch[w]
          [] OTHER -> attempts[j] <= recoveries[j] + Retried(j) + 1

\* The properties ---------------------------------------------------------------

\* "Only one live job per dedupe key" (models/jobs.py:66), also across retries,
\* recoveries and the revival of a finished row by a late failure.
DedupeUnique ==
    \A j, k \in Job :
        Live(j) /\ Live(k) /\ KeyOf[j] = KeyOf[k] /\ KeyOf[j] # NoKey => j = k

\* A row is running exactly while it carries a lock token.  Were it to run
\* without one no worker could complete it; with one while pending, a worker
\* that lost the row could complete it.
LockIffRunning == \A j \in Job : (status[j] = "running") <=> (token[j] # 0)

\* "multiple worker processes never hand the same job to two handlers"
\* (models/jobs.py:4): at any time at most one worker owns a row, however often
\* the row was recovered and claimed again.
SingleOwner ==
    \A j \in Job : \A v, w \in Worker : Owns(v, j) /\ Owns(w, j) => v = w

\* The attempt a worker is about to record never collides with one on record:
\* a collision would abort the commit and lose the handler's outcome.
AttemptNumbersFresh ==
    \A w \in Worker : Executing(w) => \A j \in batch[w] : AttemptNumberFree(w, j)

\* Each attempt beyond max_attempts is paid for by a stale-lock recovery.
AttemptsBoundedByRecoveries ==
    \A j \in Job : attempts[j] <= MaxAttempts[j] + recoveries[j]

\* The claim of jobs.py:14 ("Completion is guarded by lock_token so a worker
\* that lost its lock to stale recovery cannot overwrite the result of the
\* worker that took over"): a finished row keeps its outcome until it is pruned.
NoResurrection ==
    [][\A j \in Job : status[j] \in Terminal => status'[j] \in {status[j], "pruned"}]_vars

\* A handler's effects are committed by at most one successful attempt.
EffectsOnce == \A j \in Job : \A m, n \in succeededIn[j] : m = n

\* Every job that is queued or running gets an outcome, whatever workers crash
\* on the way: no row is stuck pending or running.
EventuallySettled ==
    \A j \in Job : Live(j) ~> status[j] \in Terminal \cup {"pruned"}

=============================================================================
