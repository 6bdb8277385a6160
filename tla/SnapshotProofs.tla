---------------------------- MODULE SnapshotProofs ----------------------------
(***************************************************************************)
(* Proofs about SnapshotPipeline, for any number of requests, promotions   *)
(* and workers and any number of faults.                                   *)
(***************************************************************************)
EXTENDS SnapshotPipeline, TLAPS

\* The empty document is a document.
LEMMA NoDraftType == NoDraft \in Document
BY DEF NoDraft, Document

\* Whatever a transaction loaded, it leaves a Boolean in snapshot_stale.
LEMMA FlushedType ==
    ASSUME stale \in BOOLEAN, NEW t, NEW new \in BOOLEAN
    PROVE  Flushed(t, new) \in BOOLEAN
BY Zenon DEF Flushed

\* The empty conversation has the types.
LEMMA SnapshotTypesInit == Init => TypeOK
<1> SUFFICES ASSUME Init PROVE TypeOK
  OBVIOUS
<1>1. Object(0, NoDraft) \in [number : Nat, doc : Document]
  BY NoDraftType DEF Object
<1>2. sawStale \in [Request \cup Worker -> BOOLEAN] /\ stale \in BOOLEAN
  BY Zenon DEF Init
<1> QED BY <1>1, <1>2, NoDraftType, SnapshotAssumption DEF Init, TypeOK

\* The type invariant is inductive: the handlers, the requests, recovery and the
\* deadlock victims keep every column in its domain.
THEOREM SnapshotTypes == Spec => []TypeOK
<1>1. Init => TypeOK
  BY SnapshotTypesInit
<1>2. TypeOK /\ [Next]_vars => TypeOK'
  <2> SUFFICES ASSUME TypeOK, [Next]_vars PROVE TypeOK'
    OBVIOUS
  <2> USE DEF TypeOK
  <2>1. ASSUME NEW r \in Request, RequestStep(r) PROVE TypeOK'
    <3>1. CASE Load(r) BY <3>1 DEF Load, retention, rowVars, jobVars, workerVars
    <3>2. CASE Store(r) BY <3>2 DEF Store, retention, rowVars, jobVars, workerVars
    <3>3. CASE MarkSnapshotStale(r)
      BY <3>3 DEF MarkSnapshotStale, retention, rowVars, jobVars, workerVars
    <3>4. CASE CommitRequest(r)
      <4>1. stale' \in BOOLEAN BY <3>4, FlushedType, Zenon DEF CommitRequest
      <4>2. /\ stage' = [stage EXCEPT ![r] = "committed"]
            /\ \/ job' = "pending" /\ inserted' = inserted + 1 /\ row' = inserted + 1
               \/ UNCHANGED <<job, inserted, row>>
            /\ UNCHANGED <<sawStale, ownJob, promoted, retention, number, recorded, objects,
                           holder, workerVars, faults>>
        BY <3>4, Zenon DEF CommitRequest
      <4> QED BY <4>1, <4>2 DEF retention, workerVars
    <3> QED BY <2>1, <3>1, <3>2, <3>3, <3>4 DEF RequestStep
  <2>2. ASSUME NEW r \in Request, RequestFails(r) PROVE TypeOK'
    BY <2>2, SnapshotAssumption DEF RequestFails, Fault, retention, rowVars, jobVars, workerVars
  <2>3. ASSUME NEW w \in Worker, WorkerStep(w) PROVE TypeOK'
    <3>1. CASE ClaimJob(w) BY <3>1 DEF ClaimJob, requestVars, retention, rowVars
    <3>6. CASE LoadConversation(w)
      BY <3>6 DEF LoadConversation, requestVars, retention, rowVars, jobVars
    <3>2. CASE BuildSnapshot(w)
      <4>1. [content |-> SnapshotRows, id |-> builds + 1] \in Document
        BY DEF SnapshotRows, Committed, Document
      <4> QED BY <3>2, <4>1 DEF BuildSnapshot, requestVars, retention, rowVars, jobVars
    <3>3. CASE PutSnapshot(w)
      <4>1. Object(SnapshotNumber(w), draft[w]) \in [number : Nat, doc : Document]
        BY DEF Object, SnapshotNumber
      <4> QED BY <3>3, <4>1 DEF PutSnapshot, requestVars, retention, rowVars, jobVars
    <3>4. CASE CompleteJob(w)
      BY <3>4 DEF CompleteJob, requestVars, retention, rowVars, jobVars
    <3>5. CASE CommitJob(w)
      <4>1. stale' \in BOOLEAN BY <3>5, FlushedType, Zenon DEF CommitJob
      <4>2. /\ number' = SnapshotNumber(w) /\ recorded' = draft[w]
            /\ job' \in {"none", job}
            /\ holder' = holder \ {w} /\ Leave(w)
            /\ UNCHANGED <<requestVars, sawStale, promoted, retention, objects, row, inserted,
                           faults>>
        BY <3>5, Zenon DEF CommitJob
      <4> QED BY <4>1, <4>2, NoDraftType DEF Leave, SnapshotNumber, requestVars, retention
    <3>7. CASE SkipSnapshot(w) \/ ConversationMissing(w)
      <4>1. /\ job' \in {"none", job} /\ holder' \subseteq holder /\ Leave(w)
            /\ UNCHANGED <<requestVars, sawStale, promoted, retention, rowVars, objects, row,
                           inserted, faults>>
        BY <3>7 DEF SkipSnapshot, ConversationMissing
      <4> QED BY <4>1, NoDraftType DEF Leave, requestVars, retention, rowVars
    <3>8. CASE CommitFindsNothing(w)
      BY <3>8, NoDraftType DEF CommitFindsNothing, Abandon, Leave, requestVars, retention, rowVars
    <3> QED BY <2>3, <3>1, <3>2, <3>3, <3>4, <3>5, <3>6, <3>7, <3>8 DEF WorkerStep
  <2>4. ASSUME NEW w \in Worker, FailJob(w) PROVE TypeOK'
    <3>1. faults' \in 0 .. MaxFaults
      BY <2>4, SnapshotAssumption DEF FailJob, Fault
    <3>2. CASE KeyTaken(w)
      BY <2>4, <3>1, <3>2, NoDraftType
         DEF FailJob, Leave, requestVars, retention, rowVars, jobVars
    <3>3. CASE ~KeyTaken(w)
      BY <2>4, <3>1, <3>3, NoDraftType
         DEF FailJob, Leave, AfterFailure, requestVars, retention, rowVars, jobVars
    <3> QED BY <3>2, <3>3
  <2>5. ASSUME NEW w \in Worker, WorkerDies(w) PROVE TypeOK'
    BY <2>5, SnapshotAssumption, NoDraftType
       DEF WorkerDies, Fault, Abandon, Leave, requestVars, retention, rowVars
  <2>6. ASSUME NEW r \in Request, NEW w \in Worker, Deadlock(r, w) PROVE TypeOK'
    BY <2>6, NoDraftType
       DEF Deadlock, RequestLoses, WorkerLoses, Leave, retention, rowVars, jobVars, workerVars
  <2>7. ASSUME NEW p \in Promotion, ReconcilePartial(p) PROVE TypeOK'
    BY <2>7 DEF ReconcilePartial, requestVars, retention, jobVars, workerVars
  <2>8. CASE RecoverStale
    BY <2>8, SnapshotAssumption
       DEF RecoverStale, Fault, requestVars, retention, rowVars, workerVars
  <2>10. ASSUME NEW D \in SUBSET Committed, SoftDelete \/ Purge \/ SweepUnderHold(D) PROVE TypeOK'
    <3>1. Committed \subseteq Request \cup Promotion BY DEF Committed
    <3>2. /\ life' \in {"deleted", "held", "purged"} /\ removed' \subseteq removed \cup Committed
          /\ UNCHANGED <<requestVars, sawStale, promoted, rowVars, objects, jobVars, workerVars,
                         faults>>
      BY <2>10 DEF SoftDelete, Purge, SweepUnderHold
    <3> QED BY <3>1, <3>2 DEF requestVars, rowVars, jobVars, workerVars
  <2>9. CASE UNCHANGED vars BY <2>9 DEF vars
  <2> QED BY <2>1, <2>2, <2>3, <2>4, <2>5, <2>6, <2>7, <2>8, <2>9, <2>10 DEF Next
<1> QED BY <1>1, <1>2, PTL DEF Spec

-----------------------------------------------------------------------------
(* If no handler outlives its lock, a recorded snapshot is intact and loses   *)
(* only what retention marked.                                                *)

SnapshotInv ==
    /\ TypeOK
    /\ Inserting
    /\ Leased
    /\ Based
    /\ Drafted
    /\ Written
    /\ RecordedCommitted
    /\ RecordedIntact

\* One step: no interleaving of requests, promotions, crashes, deadlocks and
\* recoveries breaks the invariant, and the recorded snapshot loses only what a
\* retention sweep has marked.
LEMMA SnapshotStep ==
    ASSUME ~SlowWorkers, SnapshotInv, [Next]_vars, TypeOK'
    PROVE  SnapshotInv' /\ recorded.content \ recorded'.content \subseteq removed
<1> USE DEF SnapshotInv
\* A request's step leaves the snapshot alone, up to its commit.
<1>1. ASSUME NEW r \in Request,
             stage' \in [Request -> {"new", "loaded", "stored", "queued", "committed", "refused"}],
             UNCHANGED <<number, recorded, objects, holder, wpc, base, draft, promoted, removed>>,
             \A q \in Request : stage[q] = "committed" => stage'[q] = "committed",
             job' = job \/ (job = "none" /\ job' = "pending")
      PROVE  /\ Leased' /\ Based' /\ Drafted' /\ Written' /\ RecordedCommitted' /\ RecordedIntact'
             /\ recorded.content \ recorded'.content \subseteq removed
  <2>1. Committed \subseteq Committed'
    BY <1>1 DEF Committed
  <2>2. Leased'
    BY <1>1 DEF Leased
  <2>3. Based' /\ Drafted'
    BY <1>1, <2>1 DEF Based, Drafted
  <2>4. Written' /\ RecordedIntact'
    BY <1>1 DEF Written, RecordedIntact, Object
  <2>5. RecordedCommitted'
    BY <1>1, <2>1 DEF RecordedCommitted
  <2> QED BY <1>1, <2>2, <2>3, <2>4, <2>5
<1>2. ASSUME NEW r \in Request, RequestStep(r) \/ RequestFails(r)
      PROVE  SnapshotInv' /\ recorded.content \ recorded'.content \subseteq removed
  <2>1. CASE Load(r)
    <3>1. Inserting'
      BY <2>1 DEF Load, Inserting, TypeOK, jobVars
    <3> QED BY <1>1, <2>1, <3>1 DEF Load, retention, rowVars, jobVars, workerVars, TypeOK
  <2>2. CASE Store(r)
    <3>1. Inserting'
      BY <2>2 DEF Store, Inserting, TypeOK, jobVars, RowLocked
    <3> QED BY <1>1, <2>2, <3>1 DEF Store, retention, rowVars, jobVars, workerVars, TypeOK
  <2>3. CASE MarkSnapshotStale(r)
    <3>1. Inserting'
      BY <2>3 DEF MarkSnapshotStale, Inserting, TypeOK, jobVars, JobLive
    <3> QED BY <1>1, <2>3, <3>1 DEF MarkSnapshotStale, retention, rowVars, jobVars, workerVars, TypeOK
  <2>4. CASE CommitRequest(r)
    <3>1. /\ stage[r] = "queued"
          /\ stage' = [stage EXCEPT ![r] = "committed"]
          /\ job' = IF r \in ownJob THEN "pending" ELSE job
          /\ UNCHANGED <<ownJob, promoted, removed, number, recorded, objects, holder, workerVars>>
      BY <2>4, Zenon DEF CommitRequest, retention
    <3>2. Inserting'
      BY <3>1 DEF Inserting, TypeOK
    <3>3. job' = job \/ (job = "none" /\ job' = "pending")
      BY <3>1 DEF Inserting
    <3> QED BY <1>1, <3>1, <3>2, <3>3 DEF workerVars, TypeOK
  <2>5. CASE RequestFails(r)
    <3>1. Inserting'
      BY <2>5 DEF RequestFails, Inserting, TypeOK, jobVars
    <3> QED BY <1>1, <2>5, <3>1 DEF RequestFails, retention, rowVars, jobVars, workerVars, TypeOK
  <2> QED BY <1>2, <2>1, <2>2, <2>3, <2>4, <2>5 DEF RequestStep
\* The worker at work is the only one.
<1>3. ASSUME NEW w \in Worker, wpc[w] # "idle"
      PROVE  /\ holder = {w} /\ job = "running"
             /\ \A v \in Worker : v # w => wpc[v] = "idle"
             /\ \A r \in ownJob : stage[r] = "committed"
  <2>1. holder = {w}
    BY <1>3 DEF Leased
  <2>2. job = "running"
    BY <2>1 DEF Leased
  <2>3. \A r \in ownJob : stage[r] = "committed"
    BY <2>2 DEF Inserting
  <2> QED BY <2>1, <2>2, <2>3 DEF Leased
\* So when it leaves without recording anything, nobody is at work.
<1>4. ASSUME NEW w \in Worker, wpc[w] # "idle", Leave(w), holder' \subseteq holder,
             job' # "running" => holder' = {},
             UNCHANGED <<number, recorded, objects, promoted, removed>>, Committed' = Committed
      PROVE  /\ Leased' /\ Based' /\ Drafted' /\ Written' /\ RecordedCommitted' /\ RecordedIntact'
             /\ recorded.content \ recorded'.content \subseteq removed
  <2>1. \A v \in Worker : wpc'[v] = "idle"
    BY <1>3, <1>4 DEF Leave, TypeOK
  <2>2. Leased'
    BY <1>4, <2>1 DEF Leased
  <2>3. Based' /\ Drafted' /\ Written'
    BY <2>1 DEF Based, Drafted, Written
  <2>4. RecordedCommitted' /\ RecordedIntact'
    BY <1>4 DEF RecordedCommitted, RecordedIntact, Object
  <2> QED BY <1>4, <2>2, <2>3, <2>4
<1>5. ASSUME NEW w \in Worker, WorkerStep(w)
      PROVE  SnapshotInv' /\ recorded.content \ recorded'.content \subseteq removed
  <2>1. CASE ClaimJob(w)
    <3>1. /\ UNCHANGED <<stage, ownJob, promoted, removed, number, recorded, objects, draft, base>>
          /\ job = "pending" /\ job' = "running" /\ holder' = {w}
          /\ wpc' = [wpc EXCEPT ![w] = "claimed"]
      BY <2>1 DEF ClaimJob, requestVars, retention, rowVars
    <3>2. \A v \in Worker : wpc[v] = "idle"
      BY <3>1 DEF Leased
    <3>3. Leased' /\ Inserting'
      BY <3>1, <3>2 DEF Leased, Inserting, TypeOK
    <3>4. \A v \in Worker : wpc'[v] \in {"idle", "claimed"}
      BY <3>1, <3>2 DEF TypeOK
    <3>5. Based' /\ Drafted' /\ Written'
      BY <3>4 DEF Based, Drafted, Written
    <3>6. RecordedCommitted' /\ RecordedIntact'
      BY <3>1 DEF RecordedCommitted, RecordedIntact, Committed, Object
    <3> QED BY <3>1, <3>3, <3>5, <3>6
  <2>6. CASE LoadConversation(w)
    <3>1. /\ UNCHANGED <<stage, ownJob, promoted, removed, number, recorded, objects, job, holder,
                         draft>>
          /\ wpc[w] = "claimed" /\ wpc' = [wpc EXCEPT ![w] = "loaded"]
          /\ base' = [base EXCEPT ![w] = number]
      BY <2>6 DEF LoadConversation, requestVars, retention, rowVars, jobVars
    <3>2. Leased' /\ Inserting'
      BY <3>1 DEF Leased, Inserting, TypeOK
    <3>3. Committed' = Committed
      BY <3>1 DEF Committed
    <3>4. \A v \in Worker : v # w => wpc'[v] = "idle"
      BY <1>3, <3>1 DEF TypeOK
    <3>5. base'[w] = number /\ wpc'[w] = "loaded"
      BY <3>1 DEF TypeOK
    <3>6. Based' /\ Drafted' /\ Written'
      BY <3>1, <3>4, <3>5 DEF Based, Drafted, Written
    <3>7. RecordedCommitted' /\ RecordedIntact'
      BY <3>1, <3>3 DEF RecordedCommitted, RecordedIntact, Object
    <3> QED BY <3>1, <3>2, <3>6, <3>7
  <2>2. CASE BuildSnapshot(w)
    <3>1. /\ UNCHANGED <<stage, ownJob, promoted, removed, number, recorded, objects, job, holder,
                         base>>
          /\ wpc[w] = "loaded" /\ wpc' = [wpc EXCEPT ![w] = "built"]
          /\ draft' = [draft EXCEPT ![w] = [content |-> Committed \ removed, id |-> builds + 1]]
      BY <2>2 DEF BuildSnapshot, SnapshotRows, requestVars, retention, rowVars, jobVars
    <3>2. Leased' /\ Inserting' /\ Based'
      BY <3>1 DEF Leased, Inserting, Based, TypeOK
    <3>3. Committed' = Committed
      BY <3>1 DEF Committed
    <3>4. \A v \in Worker : v # w => wpc'[v] = "idle"
      BY <1>3, <3>1 DEF TypeOK
    <3>5. draft'[w].content = Committed \ removed /\ wpc'[w] = "built"
      BY <3>1 DEF TypeOK
    <3>6. Drafted'
      BY <3>1, <3>3, <3>4, <3>5 DEF Drafted, RecordedCommitted
    <3>7. Written'
      BY <3>4, <3>5 DEF Written
    <3>8. RecordedCommitted' /\ RecordedIntact'
      BY <3>1, <3>3 DEF RecordedCommitted, RecordedIntact, Object
    <3> QED BY <3>1, <3>2, <3>6, <3>7, <3>8
  <2>3. CASE PutSnapshot(w)
    <3>1. /\ UNCHANGED <<stage, ownJob, promoted, removed, number, recorded, job, holder, draft,
                         base>>
          /\ wpc[w] = "built" /\ wpc' = [wpc EXCEPT ![w] = "written"]
      BY <2>3 DEF PutSnapshot, requestVars, retention, rowVars, jobVars
    <3>2. base[w] = number
      BY <3>1 DEF Based
    <3>3. objects' = {o \in objects : o.number # number + 1} \cup {Object(number + 1, draft[w])}
      BY <2>3, <3>2 DEF PutSnapshot, SnapshotNumber
    <3>4. Leased' /\ Inserting'
      BY <3>1 DEF Leased, Inserting, TypeOK
    <3>5. Committed' = Committed
      BY <3>1 DEF Committed
    <3>6. Based' /\ Drafted'
      BY <3>1, <3>5 DEF Based, Drafted, TypeOK
    <3>7. \A v \in Worker : v # w => wpc'[v] = "idle"
      BY <1>3, <3>1 DEF TypeOK
    <3>8. Object(number + 1, draft[w]).number = number + 1
      BY DEF Object
    <3>9. Written'
      <4>1. {o \in objects' : o.number = number + 1} = {Object(number + 1, draft[w])}
        BY <3>3, <3>8
      <4> QED BY <3>1, <3>7, <4>1 DEF Written, Object
    <3>10. RecordedIntact'
      <4>1. number # number + 1
        BY DEF TypeOK
      <4>2. {o \in objects' : o.number = number} = {o \in objects : o.number = number}
        BY <3>3, <3>8, <4>1
      <4> QED BY <3>1, <4>2 DEF RecordedIntact, Object
    <3>11. RecordedCommitted'
      BY <3>1, <3>5 DEF RecordedCommitted
    <3> QED BY <3>1, <3>4, <3>6, <3>9, <3>10, <3>11
  <2>4. CASE CompleteJob(w)
    <3>1. /\ UNCHANGED <<stage, ownJob, promoted, removed, number, recorded, objects, job, holder,
                         draft, base>>
          /\ wpc[w] = "written" /\ wpc' = [wpc EXCEPT ![w] = "completing"]
      BY <2>4 DEF CompleteJob, requestVars, retention, rowVars, jobVars
    <3>2. Leased' /\ Inserting'
      BY <3>1 DEF Leased, Inserting, TypeOK
    <3>3. Committed' = Committed
      BY <3>1 DEF Committed
    <3>4. Based' /\ Drafted'
      BY <3>1, <3>3 DEF Based, Drafted, TypeOK
    <3>5. Written' /\ RecordedIntact'
      BY <3>1 DEF Written, RecordedIntact, Object, TypeOK
    <3>6. RecordedCommitted'
      BY <3>1, <3>3 DEF RecordedCommitted
    <3> QED BY <3>1, <3>2, <3>4, <3>5, <3>6
  <2>5. CASE CommitJob(w)
    <3>1. /\ wpc[w] = "completing" /\ number' = base[w] + 1 /\ recorded' = draft[w]
          /\ job' = (IF w \in holder THEN "none" ELSE job) /\ holder' = holder \ {w}
          /\ wpc' = [wpc EXCEPT ![w] = "idle"]
          /\ UNCHANGED <<requestVars, promoted, removed, objects>>
      BY <2>5, Zenon DEF CommitJob, Leave, SnapshotNumber, retention
    <3>2. /\ number' = number + 1 /\ recorded.content \ removed \subseteq draft[w].content
          /\ draft[w].content \subseteq Committed
      BY <3>1 DEF Based, Drafted
    <3>3. Committed' = Committed
      BY <3>1 DEF Committed, requestVars
    <3>4. \A v \in Worker : wpc'[v] = "idle"
      BY <1>3, <3>1 DEF TypeOK
    <3>5. holder' = {} /\ job' = "none"
      BY <1>3, <3>1
    <3>6. Leased' /\ Based' /\ Drafted' /\ Written'
      BY <3>4, <3>5 DEF Leased, Based, Drafted, Written
    <3>7. Inserting'
      BY <3>1, <3>5 DEF Inserting, requestVars
    <3>8. RecordedIntact'
      BY <3>1, <3>2 DEF Written, RecordedIntact, Object
    <3>9. RecordedCommitted' /\ recorded.content \ recorded'.content \subseteq removed
      BY <3>1, <3>2, <3>3 DEF RecordedCommitted
    <3> QED BY <3>6, <3>7, <3>8, <3>9
  <2>7. CASE SkipSnapshot(w) \/ ConversationMissing(w) \/ CommitFindsNothing(w)
    <3>1. /\ wpc[w] # "idle" /\ Leave(w)
          /\ UNCHANGED <<requestVars, promoted, removed, rowVars, objects>>
          /\ \/ job' = "none" /\ holder' \in {{}, holder \ {w}}
             \/ UNCHANGED <<job, holder>>
             \/ job' = job /\ holder' = holder \ {w}
      BY <2>7 DEF SkipSnapshot, ConversationMissing, CommitFindsNothing, Abandon, retention
    <3>2. Inserting'
      BY <1>3, <3>1 DEF Inserting, requestVars
    <3>3. Committed' = Committed
      BY <3>1 DEF Committed, requestVars
    <3>4. /\ job' # "running" => holder' = {}
          /\ holder' \subseteq holder
      BY <1>3, <3>1
    <3> QED BY <1>4, <3>1, <3>2, <3>3, <3>4 DEF rowVars
  <2> QED BY <1>5, <2>1, <2>2, <2>3, <2>4, <2>5, <2>6, <2>7 DEF WorkerStep
<1>6. ASSUME NEW w \in Worker, FailJob(w) \/ WorkerDies(w)
      PROVE  SnapshotInv' /\ recorded.content \ recorded'.content \subseteq removed
  <2>1. /\ wpc[w] # "idle" /\ Leave(w)
        /\ UNCHANGED <<requestVars, promoted, removed, rowVars, objects>>
        /\ \/ UNCHANGED <<job, holder>>
           \/ job' = "pending" /\ holder' = {}
           \/ job' = job /\ holder' = holder \ {w}
    BY <1>6 DEF FailJob, WorkerDies, Abandon, AfterFailure, retention, jobVars
  <2>2. Inserting'
    BY <1>3, <2>1 DEF Inserting, requestVars
  <2>3. Committed' = Committed
    BY <2>1 DEF Committed, requestVars
  <2>4. job' # "running" => holder' = {}
    BY <1>3, <2>1
  <2> QED BY <1>4, <2>1, <2>2, <2>3, <2>4 DEF rowVars
<1>7. ASSUME NEW r \in Request, NEW w \in Worker, Deadlock(r, w)
      PROVE  SnapshotInv' /\ recorded.content \ recorded'.content \subseteq removed
  <2>1. CASE RequestLoses(r, w)
    <3>1. Inserting'
      BY <2>1 DEF RequestLoses, Deadlocked, Inserting, TypeOK, jobVars
    <3> QED BY <1>1, <2>1, <3>1
            DEF RequestLoses, Deadlocked, retention, rowVars, jobVars, workerVars, TypeOK
  <2>2. CASE WorkerLoses(r, w)
    <3>1. /\ wpc[w] = "completing" /\ stage[r] = "stored" /\ Leave(w)
          /\ stage' = [stage EXCEPT ![r] = "queued"] /\ holder' = holder \ {w}
          /\ UNCHANGED <<ownJob, promoted, removed, number, recorded, objects, job>>
      BY <2>2 DEF WorkerLoses, Deadlocked, retention, rowVars
    <3>2. Inserting'
      BY <3>1 DEF Inserting, TypeOK
    <3>3. Committed' = Committed
      BY <3>1 DEF Committed, TypeOK
    <3>4. job' # "running" => holder' = {}
      BY <1>3, <3>1
    <3> QED BY <1>4, <3>1, <3>2, <3>3, <3>4
  <2> QED BY <1>7, <2>1, <2>2 DEF Deadlock
<1>8. ASSUME NEW p \in Promotion, ReconcilePartial(p)
      PROVE  SnapshotInv' /\ recorded.content \ recorded'.content \subseteq removed
  <2>1. /\ UNCHANGED <<stage, ownJob, removed, number, recorded, objects, job, holder, wpc, draft,
                       base>>
        /\ promoted' = promoted \cup {p}
    BY <1>8, Zenon DEF ReconcilePartial, requestVars, retention, jobVars, workerVars
  <2>2. Leased' /\ Inserting'
    BY <2>1 DEF Leased, Inserting
  <2>3. Committed \subseteq Committed'
    BY <2>1 DEF Committed
  <2>4. Based' /\ Drafted' /\ RecordedCommitted'
    BY <2>1, <2>3 DEF Based, Drafted, RecordedCommitted
  <2>5. Written' /\ RecordedIntact'
    BY <2>1 DEF Written, RecordedIntact, Object
  <2> QED BY <2>1, <2>2, <2>4, <2>5
<1>9. CASE RecoverStale
  <2>1. /\ holder = {} /\ job = "running" /\ job' = "pending" /\ holder' = {}
        /\ UNCHANGED <<stage, ownJob, promoted, removed, number, recorded, objects, wpc, draft, base>>
    BY <1>9 DEF RecoverStale, Orphaned, requestVars, retention, rowVars, workerVars
  <2>2. Leased' /\ Inserting'
    BY <2>1 DEF Leased, Inserting
  <2>3. Committed' = Committed
    BY <2>1 DEF Committed
  <2>4. Based' /\ Drafted' /\ RecordedCommitted'
    BY <2>1, <2>3 DEF Based, Drafted, RecordedCommitted
  <2>5. Written' /\ RecordedIntact'
    BY <2>1 DEF Written, RecordedIntact, Object
  <2> QED BY <2>1, <2>2, <2>4, <2>5
<1>10. CASE UNCHANGED vars
  <2>1. Committed' = Committed
    BY <1>10 DEF Committed, vars
  <2>2. Leased' /\ Inserting' /\ Based' /\ Drafted' /\ RecordedCommitted'
    BY <1>10, <2>1 DEF Leased, Inserting, Based, Drafted, RecordedCommitted, vars
  <2>3. Written' /\ RecordedIntact'
    BY <1>10 DEF Written, RecordedIntact, Object, vars
  <2> QED BY <1>10, <2>2, <2>3 DEF vars
<1>11. ASSUME NEW D \in SUBSET Committed, SoftDelete \/ Purge \/ SweepUnderHold(D)
       PROVE  SnapshotInv' /\ recorded.content \ recorded'.content \subseteq removed
  <2>1. /\ UNCHANGED <<stage, ownJob, promoted, number, recorded, objects, job, holder, wpc, draft,
                       base>>
        /\ removed \subseteq removed'
    BY <1>11 DEF SoftDelete, Purge, SweepUnderHold, requestVars, rowVars, jobVars, workerVars
  <2>2. Leased' /\ Inserting'
    BY <2>1 DEF Leased, Inserting
  <2>3. Committed' = Committed
    BY <2>1 DEF Committed
  <2>4. Based' /\ Drafted' /\ RecordedCommitted'
    BY <2>1, <2>3 DEF Based, Drafted, RecordedCommitted
  <2>5. Written' /\ RecordedIntact'
    BY <2>1 DEF Written, RecordedIntact, Object
  <2> QED BY <2>1, <2>2, <2>4, <2>5
<1> QED BY <1>2, <1>5, <1>6, <1>7, <1>8, <1>9, <1>10, <1>11 DEF Next

\* The empty conversation satisfies the invariant.
LEMMA SnapshotStart == Init => SnapshotInv
<1> SUFFICES ASSUME Init PROVE SnapshotInv
  OBVIOUS
<1>1. /\ stage = [r \in Request |-> "new"] /\ ownJob = {} /\ promoted = {}
      /\ number = 0 /\ recorded = NoDraft /\ objects = {Object(0, NoDraft)}
      /\ job = "none" /\ holder = {} /\ wpc = [w \in Worker |-> "idle"]
  BY Zenon DEF Init
<1>2. TypeOK
  BY SnapshotTypesInit
<1>3. Inserting /\ Leased
  BY <1>1 DEF Inserting, Leased
<1>4. Based /\ Drafted /\ Written
  BY <1>1 DEF Based, Drafted, Written
<1>5. RecordedCommitted /\ RecordedIntact
  BY <1>1 DEF RecordedCommitted, RecordedIntact, NoDraft, Object
<1> QED BY <1>2, <1>3, <1>4, <1>5 DEF SnapshotInv

\* When no handler outlives its lock, the recorded digest always is that of the
\* object write_snapshot stored under the recorded key.
THEOREM SnapshotKept == ASSUME ~SlowWorkers PROVE Spec => []RecordedIntact
<1>1. SnapshotInv /\ [Next]_vars /\ TypeOK' => SnapshotInv'
  BY SnapshotStep
<1>2. SnapshotInv => RecordedIntact
  BY DEF SnapshotInv
<1> QED BY <1>1, <1>2, SnapshotStart, SnapshotTypes, PTL DEF Spec

\* When no handler outlives its lock, a snapshot run drops no version that an earlier
\* snapshot had, except those a retention sweep has marked (deleted_at IS NULL in
\* build_snapshot), for sweeps and holds at any point of the run.
THEOREM SnapshotsLoseOnlyDeleted == ASSUME ~SlowWorkers PROVE Spec => OnlyRetentionRemoves
<1>1. SnapshotInv /\ [Next]_vars /\ TypeOK' => SnapshotInv'
  BY SnapshotStep
<1>2. SnapshotInv /\ [Next]_vars /\ TypeOK' =>
          [recorded.content \ recorded'.content \subseteq removed]_vars
  BY SnapshotStep
<1> QED BY <1>1, <1>2, SnapshotStart, SnapshotTypes, PTL DEF Spec, OnlyRetentionRemoves

=============================================================================
