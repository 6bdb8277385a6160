---------------------------- MODULE JobQueueLease ----------------------------
(***************************************************************************)
(* The refinement mapping from JobQueue to JobLease.  It holds when no     *)
(* handler outlives its lock (SlowWorkers = FALSE).                        *)
(***************************************************************************)
EXTENDS JobQueue

CONSTANT NoWorker

ASSUME NoWorkerAssumption == NoWorker \notin Worker

phaseBar ==
    [j \in Job |-> CASE status[j] = "absent" -> "absent"
                     [] status[j] = "pending" -> "queued"
                     [] status[j] = "running" -> "leased"
                     [] OTHER -> "settled"]

\* The worker whose session holds the row's current lock token.
lesseeBar ==
    [j \in Job |-> IF LockHeld(j) THEN CHOOSE w \in Worker : Owns(w, j) ELSE NoWorker]

Lease == INSTANCE JobLease WITH phase <- phaseBar, lessee <- lesseeBar

\* The queue leases each job to one worker at a time: claims, outcomes, crashes
\* and recoveries are steps of JobLease (services/jobs.py, workers/worker.py).
RefinesLease == Lease!Spec

=============================================================================
