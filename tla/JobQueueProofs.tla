---------------------------- MODULE JobQueueProofs ----------------------------
(***************************************************************************)
(* Proofs about JobQueue, for any rows, workers, priorities and bounds.    *)
(***************************************************************************)
EXTENDS JobQueueLease, FiniteSetTheorems, TLAPS

\* Type correctness of the queue and of every worker's session state.
THEOREM TypeCorrect == Spec => []TypeOK
<1>1. Init => TypeOK
  BY WorkerAssumption DEF Init, TypeOK, RowState, Stage, NoRows
<1>2. TypeOK /\ [Next]_vars => TypeOK'
  <2> SUFFICES ASSUME TypeOK, [Next]_vars PROVE TypeOK'
    OBVIOUS
  <2> USE DEF TypeOK
  <2>1. ASSUME NEW S \in SUBSET Job, Insert(S)
        PROVE  /\ status' \in [Job -> RowState] /\ due' \in SUBSET Job
               /\ attempts' = attempts /\ token' = token /\ aged' = aged
    BY <2>1 DEF Insert, RowState
  <2>2. ASSUME NEW j \in Job, Enqueue(j) PROVE TypeOK'
    BY <2>2, <2>1 DEF Enqueue, logVars, workerVars
  <2>3. ASSUME NEW j \in Job, BackoffElapses(j) PROVE TypeOK'
    BY <2>3 DEF BackoffElapses, logVars, workerVars
  <2>4. ASSUME NEW j \in Job, AgeOrphan(j) \/ AgeHeld(j) PROVE TypeOK'
    BY <2>4, WorkerAssumption DEF AgeOrphan, AgeHeld, AgeLock, Fault, logVars, workerVars
  <2>5. ASSUME NEW w \in Worker, EnsurePeriodic(w) PROVE TypeOK'
    <3>1. PICK S \in SUBSET PeriodicJob : Insert(S)
      BY <2>5 DEF EnsurePeriodic
    <3>2. S \in SUBSET Job
      BY JobAssumption
    <3> QED BY <2>5, <2>1, <3>1, <3>2 DEF EnsurePeriodic, Stage, logVars
  <2>6. ASSUME NEW w \in Worker, RecoverStale(w) PROVE TypeOK'
    BY <2>6 DEF RecoverStale, StaleRows, Stage, RowState, logVars
  <2>7. ASSUME NEW w \in Worker, SelectForUpdate(w) PROVE TypeOK'
    <3>1. Runnable \in SUBSET Job
      BY DEF Runnable
    <3> QED BY <2>7, <3>1 DEF SelectForUpdate, Stage, rowVars, logVars
  <2>8. ASSUME NEW w \in Worker, ClaimCommit(w) PROVE TypeOK'
    BY <2>8 DEF ClaimCommit, NextAttempt, FreshToken, LockStamp, Stage, RowState, logVars
  <2>9. ASSUME NEW w \in Worker, NEW j \in Job, CompleteJob(w, j) PROVE TypeOK'
    <3>1. cached[w][j] \in Nat
      OBVIOUS
    <3>2. PICK P \in SUBSET Job :
            /\ status' = [k \in Job |->
                           CASE k \in P -> "pruned"
                             [] k = j /\ Owns(w, j) -> "succeeded"
                             [] OTHER -> status[k]]
            /\ logged' = [k \in Job |-> CASE k \in P -> {}
                                        [] k = j -> logged[j] \cup {cached[w][j]}
                                        [] OTHER -> logged[k]]
            /\ succeededIn' = [k \in Job |-> CASE k \in P -> {}
                                             [] k = j -> succeededIn[j] \cup {cached[w][j]}
                                             [] OTHER -> succeededIn[k]]
      BY <2>9 DEF CompleteJob, Prunable
    <3>3. status' \in [Job -> RowState]
      BY <3>2 DEF RowState
    <3>4. logged' \in [Job -> SUBSET Nat] /\ succeededIn' \in [Job -> SUBSET Nat]
      BY <3>1, <3>2
    <3> QED BY <2>9, <3>3, <3>4 DEF CompleteJob, Advance, Stage
  <2>10. ASSUME NEW w \in Worker, NEW j \in Job, NEW r \in BOOLEAN, FailJob(w, j, r)
         PROVE  TypeOK'
    <3>1. AfterFailure(w, j, r) \in RowState
      BY DEF AfterFailure, RowState
    <3> QED BY <2>10, <3>1 DEF FailJob, Advance, Stage
  <2>11. ASSUME NEW w \in Worker, AbandonBatch(w), faults' \in 0 .. MaxFaults PROVE TypeOK'
    BY <2>11 DEF AbandonBatch, Stage, NoRows, rowVars, logVars
  <2>12. ASSUME NEW w \in Worker, NEW j \in Job, NEW r \in BOOLEAN, CommitRefused(w, j, r)
         PROVE  TypeOK'
    BY <2>12, <2>11 DEF CommitRefused
  <2>13. Fault => faults' \in 0 .. MaxFaults
    BY WorkerAssumption DEF Fault
  <2>14. ASSUME NEW w \in Worker, SessionLost(w) PROVE TypeOK'
    BY <2>14, <2>13, <2>11 DEF SessionLost
  <2>15. ASSUME NEW w \in Worker, Crash(w) PROVE TypeOK'
    BY <2>15, <2>13 DEF Crash, Stage, NoRows, rowVars, logVars
  <2>16. ASSUME NEW w \in Worker, Stop(w) \/ Restart(w) PROVE TypeOK'
    BY <2>16, <2>13 DEF Stop, Restart, Stage, rowVars, logVars
  <2>17. CASE UNCHANGED vars
    BY <2>17 DEF vars
  <2> QED
    BY <2>2, <2>3, <2>4, <2>5, <2>6, <2>7, <2>8, <2>9, <2>10, <2>12, <2>14, <2>15, <2>16,
       <2>17 DEF Next, WorkerStep, ExecuteStep
<1> QED BY <1>1, <1>2, PTL DEF Spec

-----------------------------------------------------------------------------
(* The lock protocol: fresh tokens and attempt numbers.                      *)

LockInv == TypeOK /\ LockIffRunning /\ Numbered /\ Cached /\ Distinct

\* Every step keeps the lock protocol's inductive invariant.
LEMMA LockInvStep == LockInv /\ TypeOK' /\ [Next]_vars => LockInv'
<1> SUFFICES ASSUME LockInv, TypeOK', [Next]_vars
             PROVE  LockIffRunning' /\ Numbered' /\ Cached' /\ Distinct'
  BY DEF LockInv
<1> USE DEF LockInv, TypeOK, LockIffRunning, Numbered, Cached, Distinct,
            AttemptNumberFree, Executing
<1>1. ASSUME NEW j \in Job, Enqueue(j) PROVE LockInv'
  BY <1>1 DEF Enqueue, Insert, logVars, workerVars
<1>2. ASSUME NEW j \in Job, BackoffElapses(j) \/ AgeOrphan(j) \/ AgeHeld(j) PROVE LockInv'
  BY <1>2 DEF BackoffElapses, AgeOrphan, AgeHeld, AgeLock, logVars, workerVars
<1>3. ASSUME NEW w \in Worker, EnsurePeriodic(w) PROVE LockInv'
  <2>1. PICK S \in SUBSET PeriodicJob : Insert(S) /\ \A j \in S : status[j] = "absent"
    BY <1>3 DEF EnsurePeriodic
  <2> QED BY <1>3, <2>1 DEF EnsurePeriodic, Insert, logVars
<1>4. ASSUME NEW w \in Worker, RecoverStale(w) PROVE LockInv'
  BY <1>4 DEF RecoverStale, StaleRows, logVars
<1>5. ASSUME NEW w \in Worker, SelectForUpdate(w) PROVE LockInv'
  BY <1>5 DEF SelectForUpdate, rowVars, logVars
<1>6. ASSUME NEW w \in Worker, ClaimCommit(w) PROVE LockInv'
  <2>1. LockIffRunning' /\ Numbered'
    BY <1>6 DEF ClaimCommit, NextAttempt, FreshToken, LockStamp, logVars
  <2>2. Cached'
    BY <1>6 DEF ClaimCommit, NextAttempt, FreshToken, LockStamp, logVars
  <2>3. Distinct'
    BY <1>6 DEF ClaimCommit, NextAttempt, FreshToken, LockStamp
  <2> QED BY <2>1, <2>2, <2>3
<1>7. ASSUME NEW w \in Worker, NEW j \in Job, CompleteJob(w, j) PROVE LockInv'
  <2>1. PICK P \in SUBSET Prunable :
            /\ status' = [k \in Job |->
                           CASE k \in P -> "pruned"
                             [] k = j /\ Owns(w, j) -> "succeeded"
                             [] OTHER -> status[k]]
            /\ logged' = [k \in Job |-> CASE k \in P -> {}
                                        [] k = j -> logged[j] \cup {cached[w][j]}
                                        [] OTHER -> logged[k]]
    BY <1>7 DEF CompleteJob
  <2>2. j \in batch[w] /\ j \notin P /\ \A k \in P : status[k] = "succeeded"
    BY <1>7, <2>1 DEF CompleteJob, NextInBatch, Prunable
  <2>3. LockIffRunning'
    BY <1>7, <2>1, <2>2 DEF CompleteJob, Owns
  <2>4. Numbered'
    BY <1>7, <2>1, <2>2 DEF CompleteJob
  <2>5. Cached'
    BY <1>7, <2>1, <2>2 DEF CompleteJob, Advance
  <2>6. Distinct'
    BY <1>7, <2>2 DEF CompleteJob, Advance
  <2> QED BY <2>3, <2>4, <2>5, <2>6
<1>8. ASSUME NEW w \in Worker, NEW j \in Job, NEW r \in BOOLEAN, FailJob(w, j, r)
      PROVE  LockInv'
  <2>1. AfterFailure(w, j, r) # "running" /\ j \in batch[w]
    BY <1>8 DEF AfterFailure, FailJob, NextInBatch
  <2>2. LockIffRunning' /\ Numbered'
    BY <1>8, <2>1 DEF FailJob
  <2>3. Cached'
    BY <1>8, <2>1 DEF FailJob, Advance
  <2>4. Distinct'
    BY <1>8, <2>1 DEF FailJob, Advance
  <2> QED BY <2>2, <2>3, <2>4
<1>9. ASSUME NEW w \in Worker, AbandonBatch(w) \/ Crash(w) PROVE LockInv'
  <2>1. /\ UNCHANGED <<status, attempts, token, logged, claims>>
        /\ batch' = [batch EXCEPT ![w] = {}]
        /\ \A v \in Worker \ {w} : /\ pc'[v] = pc[v]
                                  /\ myToken'[v] = myToken[v]
                                  /\ cached'[v] = cached[v]
    BY <1>9 DEF AbandonBatch, Crash, rowVars, logVars
  <2>2. \A v \in Worker : v # w => batch'[v] = batch[v]
    BY <2>1
  <2>3. batch'[w] = {}
    BY <2>1
  <2>4. LockIffRunning' /\ Numbered'
    BY <2>1
  <2>5. Cached'
    BY <2>1, <2>2, <2>3
  <2>6. Distinct'
    BY <2>1, <2>2, <2>3
  <2> QED BY <2>4, <2>5, <2>6
<1>10. ASSUME NEW w \in Worker, Stop(w) \/ Restart(w) PROVE LockInv'
  BY <1>10 DEF Stop, Restart, rowVars, logVars
<1>11. CASE UNCHANGED vars
  BY <1>11 DEF vars
<1> QED
  BY <1>1, <1>2, <1>3, <1>4, <1>5, <1>6, <1>7, <1>8, <1>9, <1>10, <1>11
     DEF Next, WorkerStep, ExecuteStep, SessionLost, CommitRefused

\* The lock protocol keeps its inductive invariant for ever.
LEMMA LockProtocol == Spec => []LockInv
<1>1. Init => LockInv
  BY WorkerAssumption DEF Init, LockInv, TypeOK, LockIffRunning, Numbered, Cached,
     Distinct, RowState, Stage, NoRows
<1>2. TypeOK /\ TypeOK' /\ LockInv /\ [Next]_vars => LockInv'
  BY LockInvStep
<1> QED BY <1>1, <1>2, TypeCorrect, PTL DEF Spec

\* A row carries a lock token exactly while it is running: recovery, retry and
\* completion never separate the two columns (recover_stale_jobs, complete_job,
\* fail_job), even when a worker that lost its lock writes the row.
THEOREM LockTokens == Spec => []LockIffRunning
<1>1. LockInv => LockIffRunning
  BY DEF LockInv
<1> QED BY <1>1, LockProtocol, PTL

\* At most one worker owns a row, however slow the handlers are and however
\* often the row is recovered (claim_jobs with its fresh lock tokens).
THEOREM MutualExclusion == Spec => []SingleOwner
<1>1. LockInv => SingleOwner
  <2> SUFFICES ASSUME Distinct, NEW j \in Job, NEW v \in Worker, NEW w \in Worker,
                      Owns(v, j), Owns(w, j), v # w
               PROVE  FALSE
    BY DEF LockInv, SingleOwner
  <2>1. /\ j \in batch[v] \cap batch[w]
        /\ myToken[v][j] = myToken[w][j]
    BY DEF Owns
  <2> QED BY <2>1 DEF Distinct
<1> QED BY <1>1, LockProtocol, PTL

\* Recording an attempt never breaks uq_job_attempts_job_number.
THEOREM FreshAttempts == Spec => []AttemptNumbersFresh
<1>1. LockInv => AttemptNumbersFresh
  BY DEF LockInv, AttemptNumbersFresh, Cached
<1> QED BY <1>1, LockProtocol, PTL

-----------------------------------------------------------------------------
(* uq_jobs_dedupe_active.                                                    *)

\* A step that makes no row live keeps the keys of live rows distinct.
LEMMA FewerLive ==
    ASSUME DedupeUnique, \A j \in Job : Live(j)' => Live(j)
    PROVE  DedupeUnique'
BY DEF DedupeUnique

\* So does one that makes S live, if no key in S is taken or occurs twice in S.
LEMMA MoreLive ==
    ASSUME DedupeUnique, NEW S \in SUBSET Job,
           \A j \in Job : Live(j)' => Live(j) \/ j \in S,
           \A j \in S : ~KeyTaken(j),
           \A j, k \in S : KeyOf[j] = KeyOf[k] => j = k
    PROVE  DedupeUnique'
BY DEF DedupeUnique, KeyTaken

\* No two live rows share a dedupe key, whatever enqueues, retries, recoveries
\* and late failures come in between (enqueue_job, fail_job).
THEOREM DedupeHolds == Spec => []DedupeUnique
<1>1. Init => DedupeUnique
  BY DEF Init, DedupeUnique, Live
<1>2. TypeOK /\ DedupeUnique /\ [Next]_vars => DedupeUnique'
  <2> SUFFICES ASSUME TypeOK, DedupeUnique, [Next]_vars PROVE DedupeUnique'
    OBVIOUS
  <2>1. ASSUME UNCHANGED status PROVE DedupeUnique'
    <3>1. \A j \in Job : Live(j)' => Live(j)
      BY <2>1 DEF Live
    <3> QED BY <3>1, FewerLive
  <2>2. ASSUME NEW S \in SUBSET Job, Insert(S),
               \A j \in S : ~KeyTaken(j),
               \A j, k \in S : KeyOf[j] = KeyOf[k] => j = k
        PROVE  DedupeUnique'
    <3>1. \A j \in Job : Live(j)' => Live(j) \/ j \in S
      BY <2>2 DEF Insert, Live, TypeOK
    <3> QED BY <2>2, <3>1, MoreLive
  <2>3. ASSUME NEW j \in Job, Enqueue(j) PROVE DedupeUnique'
    <3>1. Insert({j}) /\ ~KeyTaken(j)
      BY <2>3 DEF Enqueue
    <3> QED BY <2>2, <3>1
  <2>4. ASSUME NEW w \in Worker, EnsurePeriodic(w) PROVE DedupeUnique'
    <3>1. PICK S \in SUBSET PeriodicJob :
             /\ \A j \in S : ~KeyTaken(j)
             /\ \A j, k \in S : KeyOf[j] = KeyOf[k] => j = k
             /\ Insert(S)
      BY <2>4 DEF EnsurePeriodic
    <3>2. S \in SUBSET Job
      BY JobAssumption
    <3> QED BY <2>2, <3>1, <3>2
  <2>5. ASSUME NEW w \in Worker, RecoverStale(w) \/ ClaimCommit(w) PROVE DedupeUnique'
    <3>1. \A j \in Job : Live(j)' => Live(j)
      BY <2>5 DEF RecoverStale, StaleRows, ClaimCommit, Live, TypeOK
    <3> QED BY <3>1, FewerLive
  <2>6. ASSUME NEW w \in Worker, NEW j \in Job, CompleteJob(w, j) PROVE DedupeUnique'
    <3>1. \A k \in Job : status'[k] \in {status[k], "succeeded", "pruned"}
      BY <2>6 DEF CompleteJob, TypeOK
    <3>2. \A k \in Job : Live(k)' => Live(k)
      BY <3>1 DEF Live
    <3> QED BY <3>2, FewerLive
  <2>7. ASSUME NEW w \in Worker, NEW j \in Job, NEW r \in BOOLEAN, FailJob(w, j, r)
        PROVE  DedupeUnique'
    <3>1. status' = [status EXCEPT ![j] = AfterFailure(w, j, r)]
      BY <2>7 DEF FailJob
    <3>2. AfterFailure(w, j, r) \in {"pending", "failed", "dead"}
      BY DEF AfterFailure
    <3>3. CASE AfterFailure(w, j, r) = "pending" /\ ~Live(j)
      <4>1. ~KeyTaken(j)
        BY <2>7, <3>3 DEF FailJob, ReviveConflict
      <4>2. \A k \in Job : Live(k)' => Live(k) \/ k \in {j}
        BY <3>1 DEF Live, TypeOK
      <4>3. /\ {j} \in SUBSET Job
            /\ \A k \in {j} : ~KeyTaken(k)
            /\ \A k, l \in {j} : KeyOf[k] = KeyOf[l] => k = l
        BY <4>1
      <4> QED BY <4>2, <4>3, MoreLive
    <3>4. CASE AfterFailure(w, j, r) # "pending" \/ Live(j)
      <4>1. \A k \in Job : Live(k)' => Live(k)
        BY <3>1, <3>2, <3>4 DEF Live, TypeOK
      <4> QED BY <4>1, FewerLive
    <3> QED BY <3>3, <3>4
  <2>8. ASSUME NEW w \in Worker,
               \/ SelectForUpdate(w) \/ AbandonBatch(w) \/ Crash(w)
               \/ Stop(w) \/ Restart(w)
        PROVE  UNCHANGED status
    BY <2>8 DEF SelectForUpdate, AbandonBatch, Crash, Stop, Restart, rowVars
  <2>9. ASSUME NEW j \in Job, BackoffElapses(j) \/ AgeOrphan(j) \/ AgeHeld(j)
        PROVE  UNCHANGED status
    BY <2>9 DEF BackoffElapses, AgeOrphan, AgeHeld, AgeLock
  <2>10. CASE UNCHANGED vars
    BY <2>10, <2>1 DEF vars
  <2> QED
    BY <2>1, <2>3, <2>4, <2>5, <2>6, <2>7, <2>8, <2>9, <2>10
       DEF Next, WorkerStep, ExecuteStep, SessionLost, CommitRefused
<1> QED BY <1>1, <1>2, TypeCorrect, PTL DEF Spec

-----------------------------------------------------------------------------
(* Attempts.                                                                 *)

\* The attempts a row may be retried after are fewer than max_attempts, and one
\* more is recorded with each of them.
LEMMA RetriesCounted ==
    ASSUME NEW L \in SUBSET Nat, NEW n \in Nat \ {0}
    PROVE  /\ Cardinality(L \cap 1 .. (n - 1)) \in 0 .. n - 1
           /\ \A x \in Nat : /\ Cardinality(L \cap 1 .. (n - 1)) <= Cardinality((L \cup {x}) \cap 1 .. (n - 1))
                             /\ x \in 1 .. (n - 1) /\ x \notin L =>
                                   Cardinality((L \cup {x}) \cap 1 .. (n - 1))
                                     = Cardinality(L \cap 1 .. (n - 1)) + 1
<1> DEFINE R == 1 .. (n - 1)
<1>1. IsFiniteSet(R) /\ Cardinality(R) = n - 1 BY FS_Interval
<1>2. L \cap R \in SUBSET R OBVIOUS
<1> HIDE DEF R
<1>3. IsFiniteSet(L \cap R) /\ Cardinality(L \cap R) <= n - 1 BY <1>1, <1>2, FS_Subset
<1>4. Cardinality(L \cap R) \in Nat BY <1>3, FS_CardinalityType
<1>5. ASSUME NEW x \in Nat
      PROVE  /\ Cardinality(L \cap R) <= Cardinality((L \cup {x}) \cap R)
             /\ x \in R /\ x \notin L => Cardinality((L \cup {x}) \cap R) = Cardinality(L \cap R) + 1
  <2>1. CASE x \in R
    <3>1. (L \cup {x}) \cap R = (L \cap R) \cup {x} BY <2>1
    <3>2. Cardinality((L \cap R) \cup {x})
            = IF x \in L \cap R THEN Cardinality(L \cap R) ELSE Cardinality(L \cap R) + 1
      BY <1>3, FS_AddElement
    <3> QED BY <1>4, <3>1, <3>2
  <2>2. CASE x \notin R
    <3>1. (L \cup {x}) \cap R = L \cap R BY <2>2
    <3>2. Cardinality((L \cup {x}) \cap R) = Cardinality(L \cap R) BY <3>1
    <3> QED BY <1>4, <2>2, <3>2
  <2> QED BY <2>1, <2>2
<1> QED BY <1>3, <1>4, <1>5 DEF R

\* A row's part of ReturnsPaid.
Paid(j) ==
    CASE status[j] \in {"absent", "pending"} -> attempts[j] <= recoveries[j] + Retried(j)
      [] status[j] = "pruned" -> /\ attempts[j] <= recoveries[j] + MaxAttempts[j]
                                 /\ \A w \in Worker : j \notin batch[w]
      [] OTHER -> attempts[j] <= recoveries[j] + Retried(j) + 1

\* It survives what leaves the row, or only brings it from absent to pending.
LEMMA SamePaid ==
    ASSUME TypeOK, NEW j \in Job, Paid(j),
           attempts'[j] = attempts[j], recoveries'[j] = recoveries[j], logged'[j] = logged[j],
           status'[j] = status[j] \/ (status[j] = "absent" /\ status'[j] = "pending"),
           \A w \in Worker : batch'[w] \subseteq batch[w]
    PROVE  Paid(j)'
<1>1. Retried(j)' = Retried(j) BY DEF Retried
<1> QED BY <1>1 DEF Paid

\* Every step pays for the return of a row.
LEMMA PaidStep == LockInv /\ TypeOK' /\ ReturnsPaid /\ [Next]_vars => ReturnsPaid'
<1> SUFFICES ASSUME LockInv, TypeOK', \A j \in Job : Paid(j), [Next]_vars, NEW k \in Job PROVE Paid(k)'
  BY DEF ReturnsPaid, Paid
<1>0. TypeOK /\ Cached BY DEF LockInv
<1>n. /\ attempts[k] \in Nat /\ recoveries[k] \in Nat /\ logged[k] \in SUBSET Nat
      /\ MaxAttempts[k] \in Nat \ {0} /\ status[k] \in RowState
  BY <1>0, JobAssumption DEF TypeOK
<1>r. Retried(k) \in 0 .. MaxAttempts[k] - 1 BY <1>n, RetriesCounted DEF Retried
<1>1. ASSUME NEW S \in SUBSET Job, Insert(S), \A j \in S : status[j] = "absent",
             UNCHANGED <<logged, batch, recoveries>>
      PROVE  Paid(k)'
  BY <1>0, <1>1, SamePaid DEF Insert, TypeOK
<1>2. ASSUME NEW j \in Job, Enqueue(j) PROVE Paid(k)'
  BY <1>1, <1>2 DEF Enqueue, logVars, workerVars
<1>3. ASSUME NEW w \in Worker, EnsurePeriodic(w) PROVE Paid(k)'
  <2>1. PICK S \in SUBSET PeriodicJob : Insert(S) /\ \A j \in S : status[j] = "absent"
    BY <1>3 DEF EnsurePeriodic
  <2>2. S \in SUBSET Job BY JobAssumption
  <2> QED BY <1>1, <1>3, <2>1, <2>2 DEF EnsurePeriodic, logVars
<1>4. ASSUME NEW j \in Job, BackoffElapses(j) \/ AgeOrphan(j) \/ AgeHeld(j) PROVE Paid(k)'
  BY <1>0, <1>4, SamePaid DEF BackoffElapses, AgeOrphan, AgeHeld, AgeLock, logVars, workerVars
<1>5. ASSUME NEW w \in Worker, RecoverStale(w) PROVE Paid(k)'
  <2>1. /\ attempts' = attempts /\ logged' = logged /\ batch' = batch
        /\ status'[k] = (IF k \in StaleRows THEN "pending" ELSE status[k])
        /\ recoveries'[k] = (IF k \in StaleRows THEN recoveries[k] + 1 ELSE recoveries[k])
    BY <1>5 DEF RecoverStale, logVars
  <2>2. CASE k \notin StaleRows BY <1>0, <2>1, <2>2, SamePaid
  <2>3. CASE k \in StaleRows
    <3>1. status[k] = "running" BY <2>3 DEF StaleRows
    <3>2. attempts[k] <= recoveries[k] + Retried(k) + 1 BY <3>1 DEF Paid
    <3>3. Retried(k)' = Retried(k) BY <2>1 DEF Retried
    <3> QED BY <1>n, <1>r, <2>1, <2>3, <3>2, <3>3 DEF Paid
  <2> QED BY <2>2, <2>3
<1>6. ASSUME NEW w \in Worker, ClaimCommit(w) PROVE Paid(k)'
  <2> DEFINE S == {j \in selected[w] : status[j] = "pending"}
  <2>1. /\ recoveries' = recoveries /\ logged' = logged /\ batch' = [batch EXCEPT ![w] = S]
        /\ status'[k] = (IF k \in S THEN "running" ELSE status[k])
        /\ attempts'[k] = (IF k \in S THEN attempts[k] + 1 ELSE attempts[k])
    BY <1>6 DEF ClaimCommit, NextAttempt, logVars
  <2>2. Retried(k)' = Retried(k) BY <2>1 DEF Retried
  <2>3. CASE k \in S
    <3>1. attempts[k] <= recoveries[k] + Retried(k) BY <2>3 DEF Paid
    <3> QED BY <1>n, <1>r, <2>1, <2>2, <2>3, <3>1 DEF Paid
  <2>4. CASE k \notin S
    <3>1. \A v \in Worker : k \in batch'[v] => k \in batch[v] BY <1>0, <2>1, <2>4 DEF TypeOK
    <3> QED BY <2>1, <2>2, <2>4, <3>1 DEF Paid
  <2> QED BY <2>3, <2>4
<1>7. ASSUME NEW w \in Worker, NEW j \in Job, CompleteJob(w, j) PROVE Paid(k)'
  <2>1. PICK P \in SUBSET Prunable :
            /\ status' = [i \in Job |->
                           CASE i \in P -> "pruned"
                             [] i = j /\ Owns(w, j) -> "succeeded"
                             [] OTHER -> status[i]]
            /\ logged' = [i \in Job |-> CASE i \in P -> {}
                                        [] i = j -> logged[j] \cup {cached[w][j]}
                                        [] OTHER -> logged[i]]
    BY <1>7 DEF CompleteJob
  <2>2. /\ attempts' = attempts /\ recoveries' = recoveries /\ j \in batch[w]
        /\ \A v \in Worker : batch'[v] \subseteq batch[v]
    BY <1>0, <1>7 DEF CompleteJob, Advance, NextInBatch, TypeOK
  <2>3. j \notin P BY <2>1, <2>2 DEF Prunable
  <2>4. CASE k \in P
    <3>1. status[k] = "succeeded" /\ \A v \in Worker : k \notin batch[v] BY <2>1, <2>4 DEF Prunable
    <3>2. attempts[k] <= recoveries[k] + Retried(k) + 1 BY <3>1 DEF Paid
    <3>3. status'[k] = "pruned" BY <2>1, <2>3, <2>4
    <3> QED BY <1>n, <1>r, <2>2, <3>1, <3>2, <3>3 DEF Paid
  <2>5. CASE k = j
    <3>1. cached[w][j] \in Nat BY <1>0 DEF TypeOK
    <3>2. logged'[k] = logged[k] \cup {cached[w][j]} BY <2>1, <2>3, <2>5
    <3>3. Retried(k) <= Retried(k)' /\ Retried(k)' \in 0 .. MaxAttempts[k] - 1
      <4>1. logged'[k] \in SUBSET Nat BY <1>n, <3>1, <3>2
      <4> QED BY <1>n, <3>1, <3>2, <4>1, RetriesCounted DEF Retried
    <3>4. status'[k] \in {"succeeded", status[k]} BY <2>1, <2>3, <2>5
    <3>5. status[k] # "pruned" BY <2>2, <2>5 DEF Paid
    <3> QED BY <1>n, <1>r, <2>2, <3>3, <3>4, <3>5 DEF Paid
  <2>6. CASE k \notin P /\ k # j
    <3>1. status'[k] = status[k] /\ logged'[k] = logged[k] BY <2>1, <2>6
    <3> QED BY <1>0, <2>2, <3>1, SamePaid
  <2> QED BY <2>4, <2>5, <2>6
<1>8. ASSUME NEW w \in Worker, NEW j \in Job, NEW r \in BOOLEAN, FailJob(w, j, r)
      PROVE  Paid(k)'
  <2>1. /\ attempts' = attempts /\ recoveries' = recoveries /\ j \in batch[w]
        /\ \A v \in Worker : batch'[v] \subseteq batch[v]
        /\ status' = [status EXCEPT ![j] = AfterFailure(w, j, r)]
        /\ logged' = [logged EXCEPT ![j] = @ \cup {cached[w][j]}]
        /\ cached[w][j] \notin logged[j]
    BY <1>0, <1>8 DEF FailJob, Advance, NextInBatch, TypeOK, AttemptNumberFree
  <2>2. CASE k # j
    <3>1. status'[k] = status[k] /\ logged'[k] = logged[k] BY <1>0, <2>1, <2>2 DEF TypeOK
    <3> QED BY <1>0, <2>1, <3>1, SamePaid
  <2>3. CASE k = j
    <3>1. cached[w][k] \in 1 .. attempts[k] BY <1>0, <2>1, <2>3 DEF Cached
    <3>2. /\ status'[k] = AfterFailure(w, k, r) /\ logged'[k] = logged[k] \cup {cached[w][k]}
          /\ cached[w][k] \notin logged[k]
      BY <1>0, <2>1, <2>3 DEF TypeOK
    <3>3. status[k] # "pruned" BY <2>1, <2>3 DEF Paid
    <3>4. attempts[k] <= recoveries[k] + Retried(k) + 1 BY <1>n, <1>r, <3>3 DEF Paid
    <3>5. cached[w][k] \in Nat /\ cached[w][k] >= 1 BY <1>n, <3>1
    <3>6. /\ Retried(k)' \in 0 .. MaxAttempts[k] - 1 /\ Retried(k) <= Retried(k)'
          /\ cached[w][k] < MaxAttempts[k] => Retried(k)' = Retried(k) + 1
      <4>1. logged'[k] \in SUBSET Nat BY <1>n, <3>2, <3>5
      <4>2. cached[w][k] < MaxAttempts[k] => cached[w][k] \in 1 .. (MaxAttempts[k] - 1) BY <1>n, <3>5
      <4>3. Retried(k)' = Cardinality((logged[k] \cup {cached[w][k]}) \cap 1 .. (MaxAttempts[k] - 1))
        BY <3>2 DEF Retried
      <4>4. Retried(k)' \in 0 .. MaxAttempts[k] - 1 BY <1>n, <4>1, RetriesCounted DEF Retried
      <4>5. /\ Retried(k) <= Retried(k)'
            /\ cached[w][k] \in 1 .. (MaxAttempts[k] - 1) => Retried(k)' = Retried(k) + 1
        BY <1>n, <3>2, <3>5, <4>3, RetriesCounted DEF Retried
      <4> QED BY <4>2, <4>4, <4>5
    <3>7. CASE AfterFailure(w, k, r) = "pending"
      <4>1. cached[w][k] < MaxAttempts[k] BY <3>7 DEF AfterFailure
      <4> QED BY <1>n, <1>r, <2>1, <3>2, <3>4, <3>6, <3>7, <4>1 DEF Paid
    <3>8. CASE AfterFailure(w, k, r) \in {"failed", "dead"}
      BY <1>n, <1>r, <2>1, <3>2, <3>4, <3>6, <3>8 DEF Paid
    <3> QED BY <3>7, <3>8 DEF AfterFailure
  <2> QED BY <2>2, <2>3
<1>9. ASSUME NEW w \in Worker,
             SelectForUpdate(w) \/ AbandonBatch(w) \/ Crash(w) \/ Stop(w) \/ Restart(w)
      PROVE  Paid(k)'
  <2>1. /\ UNCHANGED <<status, attempts, logged, recoveries>>
        /\ \A v \in Worker : batch'[v] \subseteq batch[v]
    BY <1>0, <1>9 DEF SelectForUpdate, AbandonBatch, Crash, Stop, Restart, rowVars, logVars, TypeOK
  <2> QED BY <1>0, <2>1, SamePaid
<1>10. CASE UNCHANGED vars
  BY <1>0, <1>10, SamePaid DEF vars
<1> QED
  BY <1>2, <1>3, <1>4, <1>5, <1>6, <1>7, <1>8, <1>9, <1>10
     DEF Next, WorkerStep, ExecuteStep, SessionLost, CommitRefused

\* A job is attempted max_attempts times at most, and once more for each time its
\* lock was recovered, also when workers that lost it fail it late (fail_job,
\* recover_stale_jobs).
THEOREM AttemptsBounded == Spec => []AttemptsBoundedByRecoveries
<1>1. Init => ReturnsPaid
  <2>1. SUFFICES ASSUME Init, NEW j \in Job PROVE Paid(j) BY DEF ReturnsPaid, Paid
  <2>2. attempts[j] = 0 /\ recoveries[j] = 0 /\ logged[j] = {} /\ status[j] = "absent"
    BY <2>1 DEF Init
  <2>3. Retried(j) \in Nat
    <3>1. MaxAttempts[j] \in Nat \ {0} BY JobAssumption
    <3>2. logged[j] \in SUBSET Nat BY <2>2
    <3>3. Retried(j) \in 0 .. MaxAttempts[j] - 1 BY <3>1, <3>2, RetriesCounted DEF Retried
    <3> QED BY <3>1, <3>3
  <2> QED BY <2>2, <2>3 DEF Paid
<1>2. LockInv /\ LockInv' /\ ReturnsPaid /\ [Next]_vars => ReturnsPaid'
  BY PaidStep DEF LockInv
<1>3. LockInv /\ ReturnsPaid => AttemptsBoundedByRecoveries
  <2>1. SUFFICES ASSUME LockInv, NEW j \in Job, Paid(j)
                 PROVE  attempts[j] <= MaxAttempts[j] + recoveries[j]
    BY DEF ReturnsPaid, Paid, AttemptsBoundedByRecoveries
  <2>2. /\ attempts[j] \in Nat /\ recoveries[j] \in Nat /\ logged[j] \in SUBSET Nat
        /\ MaxAttempts[j] \in Nat \ {0}
    BY <2>1, JobAssumption DEF LockInv, TypeOK
  <2>3. Retried(j) \in 0 .. MaxAttempts[j] - 1 BY <2>2, RetriesCounted DEF Retried
  <2> QED BY <2>1, <2>2, <2>3 DEF Paid
<1> QED BY <1>1, <1>2, <1>3, LockProtocol, PTL DEF Spec

-----------------------------------------------------------------------------
(* Prompt workers: no handler outlives its lock.                             *)

PromptInv == HoldersValid /\ AgedOrphan /\ SuccessKept /\ EffectsOnce

\* If locks age only after their session is gone, a session owns what it runs,
\* and the successful attempt of a row is the one that settled it.
LEMMA PromptStep ==
    ASSUME ~SlowWorkers PROVE LockInv /\ LockInv' /\ PromptInv /\ [Next]_vars => PromptInv'
<1> SUFFICES ASSUME LockInv, LockInv', PromptInv, [Next]_vars PROVE PromptInv'
  OBVIOUS
<1> USE DEF PromptInv, HoldersValid, AgedOrphan, SuccessKept, EffectsOnce, Owns, Executing
<1>0. TypeOK /\ TypeOK' /\ LockIffRunning /\ Cached
  BY DEF LockInv
<1>1. \A w \in Worker : \A j \in batch[w] : status[j] = "running" /\ token[j] # 0 /\ j \in Job
  BY <1>0 DEF LockIffRunning, Cached, TypeOK
<1>2. ASSUME NEW S \in SUBSET Job, Insert(S), \A j \in S : status[j] = "absent",
             UNCHANGED <<logVars, batch, myToken>>,
             \A w \in Worker : pc[w] = "executing" => pc'[w] = "executing"
      PROVE  PromptInv'
  BY <1>0, <1>1, <1>2 DEF Insert, TypeOK, logVars
<1>3. ASSUME NEW j \in Job, Enqueue(j) PROVE PromptInv'
  BY <1>2, <1>3 DEF Enqueue, workerVars
<1>4. ASSUME NEW w \in Worker, EnsurePeriodic(w) PROVE PromptInv'
  <2>1. PICK S \in SUBSET PeriodicJob : Insert(S) /\ \A j \in S : status[j] = "absent"
    BY <1>4 DEF EnsurePeriodic
  <2>2. S \in SUBSET Job
    BY JobAssumption
  <2>3. \A v \in Worker : pc[v] = "executing" => pc'[v] = "executing"
    BY <1>0, <1>4 DEF EnsurePeriodic, TypeOK
  <2> QED BY <1>2, <1>4, <2>1, <2>2, <2>3 DEF EnsurePeriodic
<1>5. ASSUME NEW j \in Job, BackoffElapses(j) PROVE PromptInv'
  BY <1>5 DEF BackoffElapses, logVars, workerVars
<1>6. ASSUME NEW j \in Job, AgeOrphan(j) PROVE PromptInv'
  <2>1. \A w \in Worker : j \notin batch[w]
    BY <1>6 DEF AgeOrphan, LockHeld
  <2> QED BY <1>6, <2>1 DEF AgeOrphan, AgeLock, logVars, workerVars
<1>7. ASSUME NEW j \in Job, AgeHeld(j) PROVE PromptInv'
  BY <1>7 DEF AgeHeld
<1>8. ASSUME NEW w \in Worker, RecoverStale(w) PROVE PromptInv'
  <2>1. /\ UNCHANGED <<succeededIn, batch, myToken>>
        /\ \A v \in Worker : pc[v] = "executing" => pc'[v] = "executing"
        /\ aged' \subseteq aged
        /\ \A j \in Job : j \notin aged => token'[j] = token[j]
        /\ \A j \in Job : status[j] = "succeeded" => status'[j] = "succeeded"
    BY <1>0, <1>8 DEF RecoverStale, StaleRows, TypeOK, logVars
  <2> QED BY <1>0, <1>1, <2>1 DEF TypeOK
<1>9. ASSUME NEW w \in Worker, SelectForUpdate(w) PROVE PromptInv'
  BY <1>0, <1>9 DEF SelectForUpdate, rowVars, logVars, TypeOK
<1>10. ASSUME NEW w \in Worker, ClaimCommit(w) PROVE PromptInv'
  <2> DEFINE S == {j \in selected[w] : status[j] = "pending"}
  <2>1. S \in SUBSET Job /\ \A j \in S : \A v \in Worker : j \notin batch[v]
    BY <1>0, <1>1 DEF TypeOK
  <2>2. /\ UNCHANGED succeededIn
        /\ batch' = [batch EXCEPT ![w] = S]
        /\ aged' = aged \ S
        /\ \A j \in Job \ S : token'[j] = token[j]
        /\ \A j \in S : token'[j] = myToken'[w][j]
        /\ \A v \in Worker \ {w} : myToken'[v] = myToken[v] /\ pc'[v] = pc[v]
        /\ S # {} => pc'[w] = "executing"
        /\ \A j \in Job : status[j] = "succeeded" => status'[j] = "succeeded"
    BY <1>0, <1>10, <2>1 DEF ClaimCommit, NextAttempt, FreshToken, LockStamp, TypeOK, logVars
  <2>3. HoldersValid'
    BY <1>0, <1>1, <2>1, <2>2 DEF TypeOK
  <2>4. AgedOrphan'
    BY <1>0, <2>1, <2>2 DEF TypeOK
  <2> QED BY <2>2, <2>3, <2>4
<1>11. ASSUME NEW w \in Worker, NEW j \in batch[w],
              batch' = [batch EXCEPT ![w] = @ \ {j}],
              pc' = [pc EXCEPT ![w] = IF batch[w] = {j} THEN "idle" ELSE "executing"],
              myToken' = [myToken EXCEPT ![w] = [@ EXCEPT ![j] = 0]],
              \A k \in Job \ {j} : token'[k] = token[k],
              aged' \subseteq aged
       PROVE  HoldersValid' /\ AgedOrphan'
  <2>1. \A v \in Worker : batch'[v] = batch[v] \ {j}
    <3>1. ASSUME NEW v \in Worker, v # w PROVE j \notin batch[v]
      BY <3>1, <1>1 DEF LockInv, Distinct
    <3> QED BY <1>0, <1>11, <3>1 DEF TypeOK
  <2>2. \A v \in Worker : \A k \in batch'[v] : pc'[v] = "executing"
    BY <1>0, <1>11, <2>1 DEF TypeOK
  <2>3. \A v \in Worker : \A k \in batch'[v] : myToken'[v][k] = myToken[v][k]
    BY <1>0, <1>11, <2>1 DEF TypeOK
  <2>4. HoldersValid'
    BY <1>0, <1>1, <1>11, <2>1, <2>2, <2>3 DEF TypeOK
  <2> QED BY <1>11, <2>1, <2>4
<1>12. ASSUME NEW w \in Worker, NEW j \in Job, CompleteJob(w, j) PROVE PromptInv'
  <2>1. j \in batch[w] /\ Owns(w, j)
    BY <1>12 DEF CompleteJob, NextInBatch
  <2>2. PICK P \in SUBSET Prunable :
            /\ status' = [k \in Job |->
                           CASE k \in P -> "pruned"
                             [] k = j /\ Owns(w, j) -> "succeeded"
                             [] OTHER -> status[k]]
            /\ succeededIn' = [k \in Job |-> CASE k \in P -> {}
                                             [] k = j -> succeededIn[j] \cup {cached[w][j]}
                                             [] OTHER -> succeededIn[k]]
    BY <1>12 DEF CompleteJob
  <2>3. HoldersValid' /\ AgedOrphan'
    BY <1>0, <1>12, <1>11, <2>1 DEF CompleteJob, Advance, TypeOK
  <2>4. succeededIn[j] = {} /\ j \notin P
    BY <1>1, <2>1, <2>2 DEF Prunable
  <2>5. SuccessKept' /\ EffectsOnce'
    BY <2>1, <2>2, <2>4
  <2> QED BY <2>3, <2>5
<1>13. ASSUME NEW w \in Worker, NEW j \in Job, NEW r \in BOOLEAN, FailJob(w, j, r)
       PROVE  PromptInv'
  <2>1. j \in batch[w]
    BY <1>13 DEF FailJob, NextInBatch
  <2>2. HoldersValid' /\ AgedOrphan'
    BY <1>0, <1>13, <1>11, <2>1 DEF FailJob, Advance, TypeOK
  <2>3. succeededIn[j] = {}
    BY <1>1, <2>1
  <2> QED BY <1>0, <1>13, <2>2, <2>3 DEF FailJob, TypeOK
<1>14. ASSUME NEW w \in Worker, AbandonBatch(w) \/ Crash(w) PROVE PromptInv'
  <2>1. /\ UNCHANGED <<status, token, aged, succeededIn>>
        /\ batch' = [batch EXCEPT ![w] = {}]
        /\ \A v \in Worker \ {w} : pc'[v] = pc[v] /\ myToken'[v] = myToken[v]
    BY <1>0, <1>14 DEF AbandonBatch, Crash, rowVars, logVars, TypeOK
  <2> QED BY <1>0, <2>1 DEF TypeOK
<1>15. ASSUME NEW w \in Worker, Stop(w) \/ Restart(w) PROVE PromptInv'
  BY <1>0, <1>15 DEF Stop, Restart, rowVars, logVars, TypeOK
<1>16. CASE UNCHANGED vars
  BY <1>16 DEF vars
<1> QED
  BY <1>3, <1>4, <1>5, <1>6, <1>7, <1>8, <1>9, <1>10, <1>12, <1>13, <1>14, <1>15, <1>16
     DEF Next, WorkerStep, ExecuteStep, SessionLost, CommitRefused

\* Prompt workers keep both inductive invariants.
LEMMA PromptProtocol ==
    ASSUME ~SlowWorkers PROVE Spec => [](LockInv /\ PromptInv)
<1>1. Init => PromptInv
  BY DEF Init, PromptInv, HoldersValid, AgedOrphan, SuccessKept, EffectsOnce
<1>2. LockInv /\ LockInv' /\ PromptInv /\ [Next]_vars => PromptInv'
  BY PromptStep
<1> QED BY <1>1, <1>2, LockProtocol, PTL DEF Spec

\* With prompt workers a handler's effects are committed by at most one
\* successful attempt of a row (_execute commits both together).
THEOREM EffectsCommittedOnce == ASSUME ~SlowWorkers PROVE Spec => []EffectsOnce
<1>1. PromptInv => EffectsOnce
  BY DEF PromptInv
<1> QED BY <1>1, PromptProtocol, PTL

\* With prompt workers no step of any worker changes the outcome of a finished
\* row, except that handle_cleanup_stale deletes it (jobs.py:14).
THEOREM OutcomesKept == ASSUME ~SlowWorkers PROVE Spec => NoResurrection
<1> DEFINE Kept == \A j \in Job : status[j] \in Terminal => status'[j] \in {status[j], "pruned"}
<1>1. LockInv /\ PromptInv /\ [Next]_vars => [Kept]_vars
  <2> SUFFICES ASSUME LockInv, PromptInv, Next PROVE Kept
    OBVIOUS
  <2> USE DEF Terminal
  <2>0. TypeOK /\ \A w \in Worker : \A j \in batch[w] : status[j] = "running"
    BY DEF LockInv, PromptInv, HoldersValid, Owns, LockIffRunning, Cached, TypeOK
  <2>1. ASSUME UNCHANGED status PROVE Kept
    BY <2>1
  <2>2. ASSUME NEW S \in SUBSET Job, Insert(S), \A j \in S : status[j] = "absent" PROVE Kept
    BY <2>0, <2>2 DEF Insert, TypeOK
  <2>3. ASSUME NEW j \in Job, Enqueue(j) PROVE Kept
    BY <2>2, <2>3 DEF Enqueue
  <2>4. ASSUME NEW w \in Worker, EnsurePeriodic(w) PROVE Kept
    <3>1. PICK S \in SUBSET PeriodicJob : Insert(S) /\ \A j \in S : status[j] = "absent"
      BY <2>4 DEF EnsurePeriodic
    <3>2. S \in SUBSET Job
      BY JobAssumption
    <3> QED BY <2>2, <3>1, <3>2
  <2>5. ASSUME NEW w \in Worker, RecoverStale(w) \/ ClaimCommit(w) PROVE Kept
    BY <2>0, <2>5 DEF RecoverStale, StaleRows, ClaimCommit, TypeOK
  <2>6. ASSUME NEW w \in Worker, NEW j \in Job, CompleteJob(w, j) PROVE Kept
    <3>1. j \in batch[w]
      BY <2>6 DEF CompleteJob, NextInBatch
    <3>2. PICK P \in SUBSET Prunable :
            status' = [k \in Job |->
                           CASE k \in P -> "pruned"
                             [] k = j /\ Owns(w, j) -> "succeeded"
                             [] OTHER -> status[k]]
      BY <2>6 DEF CompleteJob
    <3>3. \A k \in Job : k # j => status'[k] \in {status[k], "pruned"}
      BY <3>2
    <3> QED BY <2>0, <3>1, <3>3
  <2>7. ASSUME NEW w \in Worker, NEW j \in Job, NEW r \in BOOLEAN, FailJob(w, j, r) PROVE Kept
    <3>1. j \in batch[w]
      BY <2>7 DEF FailJob, NextInBatch
    <3> QED BY <2>0, <2>7, <3>1 DEF FailJob, TypeOK
  <2>8. ASSUME NEW w \in Worker,
               \/ SelectForUpdate(w) \/ AbandonBatch(w) \/ Crash(w)
               \/ Stop(w) \/ Restart(w)
        PROVE  UNCHANGED status
    BY <2>8 DEF SelectForUpdate, AbandonBatch, Crash, Stop, Restart, rowVars
  <2>9. ASSUME NEW j \in Job, BackoffElapses(j) \/ AgeOrphan(j) \/ AgeHeld(j)
        PROVE  UNCHANGED status
    BY <2>9 DEF BackoffElapses, AgeOrphan, AgeHeld, AgeLock
  <2> QED
    BY <2>1, <2>3, <2>4, <2>5, <2>6, <2>7, <2>8, <2>9
       DEF Next, WorkerStep, ExecuteStep, SessionLost, CommitRefused
<1> QED BY <1>1, PromptProtocol, PTL DEF Spec, NoResurrection

-----------------------------------------------------------------------------
(* The refinement of JobLease by prompt workers.                             *)

PhaseOf(s) == CASE s = "absent" -> "absent"
                [] s = "pending" -> "queued"
                [] s = "running" -> "leased"
                [] OTHER -> "settled"

\* The phase of a job is that of its row, its lessee the session that has it to run.
Mapped ==
    /\ \A j \in Job : phaseBar[j] = PhaseOf(status[j])
    /\ \A j \in Job, w \in Worker : j \in batch[w] => lesseeBar[j] = w /\ status[j] = "running"
    /\ \A j \in Job : (\A w \in Worker : j \notin batch[w]) => lesseeBar[j] = NoWorker

\* With prompt workers a job in a batch is owned, by one worker, and so leased to it.
LEMMA MappingHolds == LockInv /\ PromptInv => Mapped
<1> SUFFICES ASSUME LockInv, PromptInv PROVE Mapped OBVIOUS
<1>1. \A j \in Job : phaseBar[j] = PhaseOf(status[j]) BY DEF phaseBar, PhaseOf
<1>2. ASSUME NEW j \in Job, NEW w \in Worker, j \in batch[w]
      PROVE  lesseeBar[j] = w /\ status[j] = "running"
  <2>1. Owns(w, j) BY <1>2 DEF PromptInv, HoldersValid
  <2>2. \A v \in Worker : Owns(v, j) => v = w
    <3>1. SUFFICES ASSUME NEW v \in Worker, Owns(v, j), v # w PROVE FALSE OBVIOUS
    <3>2. j \in batch[v] \cap batch[w] /\ myToken[v][j] = myToken[w][j]
      BY <1>2, <2>1, <3>1 DEF Owns
    <3> QED BY <3>1, <3>2 DEF LockInv, Distinct
  <2>3. lesseeBar[j] = w BY <2>1, <2>2 DEF lesseeBar, LockHeld
  <2>4. token[j] # 0
    <3>1. myToken[w][j] \in 1 .. claims[j] BY <1>2 DEF LockInv, Cached
    <3> QED BY <2>1, <3>1 DEF Owns, LockInv, TypeOK
  <2> QED BY <2>3, <2>4 DEF LockInv, LockIffRunning
<1>3. ASSUME NEW j \in Job, \A w \in Worker : j \notin batch[w] PROVE lesseeBar[j] = NoWorker
  BY <1>3 DEF lesseeBar, LockHeld, Owns
<1> QED BY <1>1, <1>2, <1>3 DEF Mapped

\* What a step of the queue moves in the lease.
LEMMA Moved ==
    ASSUME Mapped, Mapped', NEW S \in SUBSET Job, NEW p, NEW x \in Worker \cup {NoWorker},
           \A j \in S : /\ PhaseOf(status'[j]) = p
                        /\ x = NoWorker => \A w \in Worker : j \notin batch'[w]
                        /\ x # NoWorker => j \in batch'[x],
           \A j \in Job \ S : /\ PhaseOf(status'[j]) = PhaseOf(status[j])
                              /\ \A w \in Worker : j \in batch'[w] <=> j \in batch[w]
    PROVE  Lease!Move(S, p, x)
<1>1. ASSUME NEW j \in Job PROVE phaseBar'[j] = IF j \in S THEN p ELSE phaseBar[j]
  BY DEF Mapped
<1>2. ASSUME NEW j \in Job PROVE lesseeBar'[j] = IF j \in S THEN x ELSE lesseeBar[j]
  <2>1. CASE j \in S /\ x = NoWorker BY <2>1 DEF Mapped
  <2>2. CASE j \in S /\ x # NoWorker BY <2>2 DEF Mapped
  <2>3. CASE j \notin S
    <3>1. CASE \E w \in Worker : j \in batch[w]
      <4>1. PICK w \in Worker : j \in batch[w] BY <3>1
      <4>2. j \in batch'[w] BY <2>3, <4>1
      <4> QED BY <2>3, <4>1, <4>2 DEF Mapped
    <3>2. CASE \A w \in Worker : j \notin batch[w]
      <4>1. \A w \in Worker : j \notin batch'[w] BY <2>3, <3>2
      <4> QED BY <2>3, <3>2, <4>1 DEF Mapped
    <3> QED BY <3>1, <3>2
  <2> QED BY <2>1, <2>2, <2>3
<1>3. /\ phaseBar' = [j \in Job |-> phaseBar'[j]] /\ lesseeBar' = [j \in Job |-> lesseeBar'[j]]
  BY DEF phaseBar, lesseeBar
<1>4. phaseBar' = [j \in Job |-> IF j \in S THEN p ELSE phaseBar[j]]
  <2> HIDE DEF phaseBar
  <2> QED BY <1>1, <1>3
<1>5. lesseeBar' = [j \in Job |-> IF j \in S THEN x ELSE lesseeBar[j]]
  <2> HIDE DEF lesseeBar
  <2> QED BY <1>2, <1>3
<1> QED BY <1>4, <1>5 DEF Lease!Move

\* A step that changes neither rows nor batches, as far as the lease tells them apart.
LEMMA Stutters ==
    ASSUME Mapped, Mapped',
           \A j \in Job : /\ PhaseOf(status'[j]) = PhaseOf(status[j])
                          /\ \A w \in Worker : j \in batch'[w] <=> j \in batch[w]
    PROVE  UNCHANGED Lease!vars
<1>1. Lease!Move({}, "queued", NoWorker) BY Moved
<1>2. phaseBar' = [j \in Job |-> phaseBar[j]] /\ lesseeBar' = [j \in Job |-> lesseeBar[j]]
  BY <1>1 DEF Lease!Move
<1>3. phaseBar = [j \in Job |-> phaseBar[j]] /\ lesseeBar = [j \in Job |-> lesseeBar[j]]
  BY DEF phaseBar, lesseeBar
<1> QED BY <1>2, <1>3 DEF Lease!vars

\* Every step of the queue is a step of the lease, or leaves it as it is.
LEMMA LeaseStep ==
    ASSUME ~SlowWorkers
    PROVE  /\ LockInv /\ PromptInv /\ Mapped
           /\ LockInv' /\ PromptInv' /\ Mapped' /\ [Next]_vars
           => [Lease!Next]_(Lease!vars)
<1> SUFFICES ASSUME LockInv, PromptInv, Mapped, LockInv', PromptInv', Mapped', [Next]_vars
             PROVE  Lease!Next \/ UNCHANGED Lease!vars
  OBVIOUS
<1>0. TypeOK /\ Cached /\ Distinct BY DEF LockInv
<1>b. \A w \in Worker : batch[w] \subseteq Job BY <1>0 DEF TypeOK
<1>l. \A w \in Worker : \A j \in batch[w] : j \in Lease!LeasedTo(w)
  BY <1>b DEF Lease!LeasedTo, Mapped, PhaseOf
<1>1. ASSUME NEW S \in SUBSET Job, Insert(S), \A j \in S : status[j] = "absent", UNCHANGED batch
      PROVE  Lease!Next
  <2>1. \A j \in S : phaseBar[j] = "absent" /\ \A w \in Worker : j \notin batch[w]
    BY <1>1 DEF Mapped, PhaseOf
  <2>2. Lease!Move(S, "queued", NoWorker)
    <3>1. \A j \in S : PhaseOf(status'[j]) = "queued" BY <1>1 DEF Insert, PhaseOf
    <3>2. \A j \in Job \ S : status'[j] = status[j] BY <1>1 DEF Insert
    <3> QED BY <1>1, <2>1, <3>1, <3>2, Moved
  <2>3. Lease!Submit(S) BY <2>1, <2>2 DEF Lease!Submit
  <2> QED BY <2>3 DEF Lease!Next
<1>2. ASSUME NEW j \in Job, Enqueue(j) PROVE Lease!Next
  BY <1>1, <1>2 DEF Enqueue, workerVars
<1>3. ASSUME NEW w \in Worker, EnsurePeriodic(w) PROVE Lease!Next
  <2>1. PICK S \in SUBSET PeriodicJob : Insert(S) /\ \A j \in S : status[j] = "absent"
    BY <1>3 DEF EnsurePeriodic
  <2>2. S \in SUBSET Job BY JobAssumption
  <2> QED BY <1>1, <1>3, <2>1, <2>2 DEF EnsurePeriodic
<1>4. ASSUME UNCHANGED <<status, batch>> PROVE UNCHANGED Lease!vars
  BY <1>4, Stutters
<1>5. ASSUME NEW j \in Job, BackoffElapses(j) \/ AgeOrphan(j) PROVE UNCHANGED <<status, batch>>
  BY <1>5 DEF BackoffElapses, AgeOrphan, AgeLock, workerVars
<1>6. ASSUME NEW w \in Worker, SelectForUpdate(w) \/ Stop(w) \/ Restart(w)
      PROVE  UNCHANGED <<status, batch>>
  BY <1>6 DEF SelectForUpdate, Stop, Restart, rowVars
<1>7. ASSUME NEW w \in Worker, RecoverStale(w) PROVE Lease!Next
  <2>1. StaleRows \in SUBSET Job BY <1>0 DEF StaleRows, TypeOK
  <2>2. \A j \in StaleRows : status[j] = "running" /\ \A v \in Worker : j \notin batch[v]
    BY DEF StaleRows, PromptInv, AgedOrphan
  <2>3. batch' = batch /\ \A j \in Job : status'[j] = IF j \in StaleRows THEN "pending" ELSE status[j]
    BY <1>7 DEF RecoverStale
  <2>4. StaleRows \subseteq Lease!LeasedTo(NoWorker)
    BY <2>1, <2>2 DEF Lease!LeasedTo, Mapped, PhaseOf
  <2>5. Lease!Move(StaleRows, "queued", NoWorker)
    <3>1. \A j \in StaleRows : PhaseOf(status'[j]) = "queued" BY <2>1, <2>3 DEF PhaseOf
    <3>2. \A j \in Job \ StaleRows : status'[j] = status[j] BY <2>3
    <3> QED BY <2>1, <2>2, <2>3, <3>1, <3>2, Moved
  <2>6. Lease!Reclaim(StaleRows) BY <2>4, <2>5 DEF Lease!Reclaim
  <2> QED BY <2>1, <2>6 DEF Lease!Next
<1>8. ASSUME NEW w \in Worker, ClaimCommit(w) PROVE Lease!Next
  <2> DEFINE S == {j \in selected[w] : status[j] = "pending"}
  <2>1. S \in SUBSET Job /\ batch[w] = {} BY <1>0, <1>8 DEF TypeOK, ClaimCommit, Cached, Executing
  <2>2. \A j \in Job : status'[j] = IF j \in S THEN "running" ELSE status[j]
    BY <1>8 DEF ClaimCommit
  <2>3. batch'[w] = S /\ \A v \in Worker \ {w} : batch'[v] = batch[v]
    BY <1>0, <1>8 DEF ClaimCommit, TypeOK
  <2>4. \A j \in S : status[j] = "pending" OBVIOUS
  <2> HIDE DEF S
  <2>5. \A j \in S : phaseBar[j] = "queued" BY <2>1, <2>4 DEF Mapped, PhaseOf
  <2>6. Lease!Move(S, "leased", w)
    <3>1. \A j \in S : PhaseOf(status'[j]) = "leased" /\ j \in batch'[w] BY <2>1, <2>2, <2>3 DEF PhaseOf
    <3>2. \A j \in Job \ S : /\ status'[j] = status[j]
                             /\ \A v \in Worker : j \in batch'[v] <=> j \in batch[v]
      BY <2>1, <2>2, <2>3
    <3> QED BY <2>1, <3>1, <3>2, NoWorkerAssumption, Moved
  <2>7. Lease!Lease(w, S) BY <2>5, <2>6 DEF Lease!Lease
  <2> QED BY <2>1, <2>7 DEF Lease!Next
<1>9. ASSUME NEW w \in Worker, NEW j \in Job, j \in batch[w],
             batch' = [batch EXCEPT ![w] = @ \ {j}],
             \A k \in Job \ {j} : PhaseOf(status'[k]) = PhaseOf(status[k]),
             PhaseOf(status'[j]) \in {"queued", "settled"}
      PROVE  Lease!Next
  <2>1. \A v \in Worker \ {w} : j \notin batch[v] /\ batch'[v] = batch[v]
    <3>1. batch \in [Worker -> SUBSET Job] BY <1>0 DEF TypeOK
    <3>2. \A v \in Worker \ {w} : batch'[v] = batch[v] BY <1>9, <3>1
    <3>3. lesseeBar[j] = w BY <1>9 DEF Mapped
    <3>4. ASSUME NEW v \in Worker \ {w}, j \in batch[v] PROVE FALSE
      <4>1. lesseeBar[j] = v BY <3>4 DEF Mapped
      <4> QED BY <3>3, <3>4, <4>1
    <3> QED BY <3>2, <3>4
  <2>2. batch'[w] = batch[w] \ {j} BY <1>0, <1>9 DEF TypeOK
  <2>3. \A v \in Worker : j \notin batch'[v] BY <2>1, <2>2
  <2>4. \A k \in Job \ {j} : \A v \in Worker : k \in batch'[v] <=> k \in batch[v] BY <2>1, <2>2
  <2>5. Lease!Move({j}, PhaseOf(status'[j]), NoWorker) BY <1>9, <2>3, <2>4, Moved
  <2>6. j \in Lease!LeasedTo(w) BY <1>9, <1>l
  <2>7. Lease!GiveBack(w, j) \/ Lease!Settle(w, j)
    BY <1>9, <2>5, <2>6 DEF Lease!GiveBack, Lease!Settle
  <2> QED BY <2>7 DEF Lease!Next
<1>10. ASSUME NEW w \in Worker, NEW j \in Job, CompleteJob(w, j) PROVE Lease!Next
  <2>1. j \in batch[w] /\ Owns(w, j)
    BY <1>10 DEF CompleteJob, NextInBatch, PromptInv, HoldersValid
  <2>2. PICK P \in SUBSET Prunable :
            status' = [k \in Job |->
                           CASE k \in P -> "pruned"
                             [] k = j /\ Owns(w, j) -> "succeeded"
                             [] OTHER -> status[k]]
    BY <1>10 DEF CompleteJob
  <2>3. j \notin P /\ \A k \in P : status[k] = "succeeded" BY <2>1, <2>2 DEF Prunable
  <2>4. \A k \in Job \ {j} : PhaseOf(status'[k]) = PhaseOf(status[k]) BY <2>2, <2>3 DEF PhaseOf
  <2>5. PhaseOf(status'[j]) = "settled" BY <2>1, <2>2, <2>3 DEF PhaseOf
  <2>6. batch' = [batch EXCEPT ![w] = @ \ {j}] BY <1>10 DEF CompleteJob, Advance
  <2> QED BY <1>9, <2>1, <2>4, <2>5, <2>6
<1>11. ASSUME NEW w \in Worker, NEW j \in Job, NEW r \in BOOLEAN, FailJob(w, j, r) PROVE Lease!Next
  <2>1. j \in batch[w] /\ batch' = [batch EXCEPT ![w] = @ \ {j}]
    BY <1>11 DEF FailJob, NextInBatch, Advance
  <2>2. \A k \in Job \ {j} : status'[k] = status[k] BY <1>0, <1>11 DEF FailJob, TypeOK
  <2>3. status'[j] = AfterFailure(w, j, r) BY <1>0, <1>11 DEF FailJob, TypeOK
  <2>4. PhaseOf(status'[j]) \in {"queued", "settled"} BY <2>3 DEF AfterFailure, PhaseOf
  <2> QED BY <1>9, <2>1, <2>2, <2>4
<1>12. ASSUME NEW w \in Worker, AbandonBatch(w) \/ Crash(w) PROVE Lease!Next
  <2>1. UNCHANGED status /\ batch' = [batch EXCEPT ![w] = {}]
    BY <1>12 DEF AbandonBatch, Crash, rowVars
  <2>2. batch'[w] = {} /\ \A v \in Worker \ {w} : batch'[v] = batch[v] BY <1>0, <2>1 DEF TypeOK
  <2>3. Lease!LeasedTo(w) = batch[w]
    <3>1. ASSUME NEW j \in Lease!LeasedTo(w) PROVE j \in batch[w]
      <4>1. j \in Job /\ lesseeBar[j] = w BY <3>1 DEF Lease!LeasedTo
      <4>2. PICK v \in Worker : j \in batch[v] BY <4>1, NoWorkerAssumption DEF Mapped
      <4> QED BY <4>1, <4>2 DEF Mapped
    <3> QED BY <1>l, <3>1
  <2>4. \A j \in batch[w] : \A v \in Worker : j \notin batch'[v]
    BY <1>b, <2>2 DEF Mapped
  <2>5. Lease!Move(batch[w], "leased", NoWorker)
    <3>1. \A j \in batch[w] : PhaseOf(status'[j]) = "leased" BY <1>b, <2>1 DEF Mapped, PhaseOf
    <3>2. \A j \in Job \ batch[w] : \A v \in Worker : j \in batch'[v] <=> j \in batch[v] BY <2>2
    <3> QED BY <1>b, <2>1, <2>4, <3>1, <3>2, Moved
  <2>6. Lease!Abandon(w) BY <2>3, <2>5 DEF Lease!Abandon
  <2> QED BY <2>6 DEF Lease!Next
<1>13. CASE UNCHANGED vars BY <1>4, <1>13 DEF vars
<1>14. \A j \in Job : ~AgeHeld(j) BY DEF AgeHeld
<1> QED
  BY <1>2, <1>3, <1>4, <1>5, <1>6, <1>7, <1>8, <1>10, <1>11, <1>12, <1>13, <1>14
     DEF Next, WorkerStep, ExecuteStep, SessionLost, CommitRefused

\* With prompt workers the queue implements the lease: a job is run by one worker at a
\* time, only the lessee settles it or gives it back, and a lease is taken back only
\* from a worker that is gone (claim_jobs, complete_job, fail_job, recover_stale_jobs).
THEOREM QueueIsLease == ASSUME ~SlowWorkers PROVE Spec => RefinesLease
<1>1. Init => Lease!Init
  <2> SUFFICES ASSUME Init PROVE Lease!Init OBVIOUS
  <2>1. \A j \in Job : ~LockHeld(j) /\ status[j] = "absent" BY DEF Init, LockHeld, Owns
  <2> QED BY <2>1 DEF Lease!Init, phaseBar, lesseeBar
<1>2. /\ LockInv /\ PromptInv /\ Mapped
      /\ LockInv' /\ PromptInv' /\ Mapped' /\ [Next]_vars
      => [Lease!Next]_(Lease!vars)
  BY LeaseStep
<1> QED BY <1>1, <1>2, PromptProtocol, MappingHolds, PTL DEF Spec, RefinesLease, Lease!Spec

=============================================================================
