----------------------------- MODULE MCJobQueue -----------------------------
(***************************************************************************)
(* Instances of JobQueue for TLC.  Two jobs share a dedupe key, so that a  *)
(* late failure can collide with the row that replaced it; the third is    *)
(* the periodic cleanup, which runs last and prunes finished rows.         *)
(***************************************************************************)
EXTENDS JobQueueLease, TLC

CONSTANTS snapshotA, snapshotB, cleanup, conversation, housekeeping, TwoAttempts

MCJob      == {snapshotA, snapshotB, cleanup}
MCKey      == {conversation, housekeeping}
MCKeyOf    == [j \in MCJob |-> IF j = cleanup THEN housekeeping ELSE conversation]
MCPriority == [j \in MCJob |-> IF j = cleanup THEN 950 ELSE 100]
MCPeriodic == {cleanup}

\* Only TwoAttempts may be retried.
MCMaxAttempts == [j \in MCJob |-> IF j \in TwoAttempts THEN 2 ELSE 1]


\* Workers are interchangeable.
MCSymmetry == Permutations(Worker)

=============================================================================
