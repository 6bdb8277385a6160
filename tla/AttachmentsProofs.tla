-------------------------- MODULE AttachmentsProofs --------------------------
(***************************************************************************)
(* Proofs about Attachments, for any attachments, bodies, retries and      *)
(* faults.                                                                 *)
(***************************************************************************)
EXTENDS Attachments, TLAPS

\* A flush column by column.
LEMMA FlushColumns ==
    ASSUME NEW cur \in AttachmentRow, NEW old \in AttachmentRow, NEW new \in AttachmentRow
    PROVE  /\ Flush(cur, old, new) \in AttachmentRow
           /\ Flush(cur, old, new).state = IF new.state = old.state THEN cur.state ELSE new.state
<1>1. DOMAIN cur = {"state", "sha256", "uploadKey", "verified", "cleanKey", "curatedKey",
                    "linkedTo"}
  BY DEF AttachmentRow
<1> QED BY <1>1 DEF Flush, AttachmentRow

\* A flush of a row that at most the sweep has changed leaves the new row, except
\* for a state the transaction did not change.
LEMMA FlushUndisturbed ==
    ASSUME NEW cur \in AttachmentRow, NEW old \in AttachmentRow, NEW new \in AttachmentRow,
           OnlyExpired(cur, old)
    PROVE  Flush(cur, old, new) =
             [new EXCEPT !.state = IF new.state = old.state THEN cur.state ELSE new.state]
<1>1. DOMAIN cur = {"state", "sha256", "uploadKey", "verified", "cleanKey", "curatedKey",
                    "linkedTo"}
  BY DEF AttachmentRow
<1> QED BY <1>1 DEF Flush, AttachmentRow, OnlyExpired

\* The rows that requests and handlers compute have the columns' types.
LEMMA InitiatedTyped ==
    ASSUME NEW old \in AttachmentRow, NEW b \in Body, NEW only \in BOOLEAN
    PROVE  Initiated(old, b, only) \in AttachmentRow
BY DEF Initiated, AttachmentRow, State, Kept

\* The same for complete_attachment.
LEMMA CompletedTyped ==
    ASSUME NEW a, NEW old \in AttachmentRow, NEW b \in Body, turns \in Nat
    PROVE  Completed(a, old, b) \in AttachmentRow
BY DEF Completed, Linked, AttachmentRow, State, Kept

\* The same for the handler.
LEMMA FinalizedTyped ==
    ASSUME NEW w \in HandlerState
    PROVE  Finalized(w) \in AttachmentRow
<1>1. CASE w.pc = "copied"
  <2>1. Stripped(w.data) \in BOOLEAN BY DEF Stripped
  <2> QED BY <1>1, <2>1 DEF Finalized, HandlerState, AttachmentRow, State, Kept
<1>2. CASE w.pc = "reject" BY <1>2 DEF Finalized, HandlerState, AttachmentRow, State, Kept
<1>3. CASE w.pc \notin {"copied", "reject"} BY <1>3 DEF Finalized, HandlerState
<1> QED BY <1>1, <1>2, <1>3

\* A row before its first init.
LEMMA NoRowTyped == NoRow \in AttachmentRow
BY DEF NoRow, AttachmentRow, State

\* Every attachment starts without row, object and job.
LEMMA InitTyped == Init => TypeOK
BY NoRowTyped DEF Init, TypeOK, Client, Handler, Objects, ClientState, JobRow, HandlerState

\* The steps of a client keep the types.
LEMMA ClientTyped ==
    ASSUME TypeOK, NEW a \in Attachment, ClientNext(a)
    PROVE  TypeOK'
<1> USE NoRowTyped DEF TypeOK
<1>a. ASSUME NEW b \in Body PROVE [object[a] EXCEPT !.quarantine = b] \in Objects
  BY DEF Objects
<1>b. (raced[a] \/ worker[a].pc = "verified") \in BOOLEAN
  OBVIOUS
<1>c. ASSUME NEW b \in Body, Arrive(a, b)
      PROVE  object' \in [Attachment -> Objects] /\ raced' \in [Attachment -> BOOLEAN]
  BY <1>a, <1>b, <1>c DEF Arrive
<1>d. ASSUME NEW pc \in {"idle", "upload", "done"}, NEW b \in Body \cup {None}
      PROVE  Client(pc, b, client[a].inits) \in ClientState
  BY DEF Client, ClientState
<1>1. ASSUME NEW b \in Body, NEW only \in BOOLEAN, InitLoad(a, b, only) PROVE TypeOK'
  <2>1. Initiated(row[a], b, only) \in AttachmentRow BY InitiatedTyped
  <2> QED BY <1>1, <2>1 DEF InitLoad, ClientState
<1>2. CASE InitCommit(a)
  <2>1. Flush(row[a], client[a].loaded, client[a].next) \in AttachmentRow
    BY FlushColumns DEF ClientState
  <2> QED BY <1>2, <2>1 DEF InitCommit, Client, ClientState
<1>3. CASE Put(a)
  <2>1. [client[a] EXCEPT !.pc = "uploaded"] \in ClientState BY DEF ClientState
  <2> QED BY <1>3, <1>c, <2>1 DEF Put
<1>4. CASE PutFails(a)
  BY <1>4, <1>d DEF PutFails, Client
<1>5. CASE LatePut(a) BY <1>5, <1>c DEF LatePut
<1>6. ASSUME NEW declared \in Body, CompleteLoad(a, declared) PROVE TypeOK'
  <2>1. Completed(a, row[a], declared) \in AttachmentRow BY CompletedTyped
  <2>2. client' = [client EXCEPT ![a] =
            [client[a] EXCEPT !.pc = "complete", !.loaded = row[a],
                              !.next = Completed(a, row[a], declared)]]
    BY <1>6 DEF CompleteLoad, ClientState
  <2>3. client'[a] \in ClientState BY <2>1, <2>2 DEF ClientState
  <2> QED BY <1>6, <2>2, <2>3 DEF CompleteLoad
<1>7. CASE CompleteCommit(a)
  <2>1. Flush(row[a], client[a].loaded, client[a].next) \in AttachmentRow
    BY FlushColumns DEF ClientState
  <2>2. Enqueued(job[a]) \in JobRow BY DEF Enqueued, JobRow
  <2> QED BY <1>7, <1>d, <2>1, <2>2 DEF CompleteCommit, Client
<1>8. CASE RequestFails(a) BY <1>8, <1>d DEF RequestFails, Client, Fault
<1> QED BY <1>1, <1>2, <1>3, <1>4, <1>5, <1>6, <1>7, <1>8 DEF ClientNext

\* The steps of the job keep the types.
LEMMA WorkerTyped ==
    ASSUME TypeOK, NEW a \in Attachment, WorkerNext(a)
    PROVE  TypeOK'
<1> USE NoRowTyped DEF TypeOK
<1>a. Handler("idle") \in HandlerState /\ Handler("claimed") \in HandlerState
  BY DEF Handler, HandlerState
<1>b. ASSUME NEW s \in {"pending", "succeeded", "dead", "failed"}
      PROVE  [job[a] EXCEPT !.status = s] \in JobRow
  BY DEF JobRow
<1>1. CASE Claim(a)
  <2>1. [status |-> "running", attempts |-> job[a].attempts + 1] \in JobRow BY DEF JobRow
  <2> QED BY <1>1, <1>a, <2>1 DEF Claim
<1>2. CASE Finalize(a) BY <1>2 DEF Finalize, Stored, HandlerState, Objects
<1>3. CASE Copy(a)
  <2>1. object'[a] \in Objects
    BY <1>3 DEF Copy, Stored, Objects, HandlerState
  <2>2. [worker[a] EXCEPT !.pc = "copied"] \in HandlerState BY DEF HandlerState
  <2> QED BY <1>3, <2>1, <2>2 DEF Copy
<1>4. CASE FinalizeCommit(a)
  <2>1. Flush(row[a], worker[a].loaded, Finalized(worker[a])) \in AttachmentRow
    BY FlushColumns, FinalizedTyped DEF HandlerState
  <2> QED BY <1>4, <1>a, <1>b, <2>1 DEF FinalizeCommit
<1>5. CASE FinalizeFails(a) BY <1>5, <1>a, <1>b DEF FinalizeFails, Fault, AfterFailure
<1>6. CASE Crash(a) BY <1>6, <1>a DEF Crash, Fault
<1>7. CASE Recover(a) BY <1>7, <1>b DEF Recover
<1> QED BY <1>1, <1>2, <1>3, <1>4, <1>5, <1>6, <1>7 DEF WorkerNext

\* Types are kept by every step.
LEMMA NextTyped == TypeOK /\ [Next]_vars => TypeOK'
<1> SUFFICES ASSUME TypeOK, [Next]_vars PROVE TypeOK' OBVIOUS
<1>1. ASSUME NEW a \in Attachment, Tick(a) PROVE TypeOK'
  <2>1. age'[a] \in 0 .. 2 BY <1>1 DEF TypeOK, Tick
  <2> QED BY <1>1, <2>1 DEF TypeOK, Tick
<1>2. CASE MessageStored BY <1>2 DEF TypeOK, MessageStored
<1>3. CASE SweepSelect BY <1>3 DEF TypeOK, SweepSelect
<1>4. CASE SweepCommit
  <2>1. \A a \in Attachment : [row[a] EXCEPT !.state = "expired"] \in AttachmentRow
    BY DEF TypeOK, AttachmentRow, State
  <2> QED BY <1>4, <2>1 DEF TypeOK, SweepCommit
<1>5. CASE UNCHANGED vars BY <1>5 DEF TypeOK, vars
<1> QED BY ClientTyped, WorkerTyped, <1>1, <1>2, <1>3, <1>4, <1>5 DEF Next

\* The type invariant of the upload pipeline.
THEOREM AttachmentTypes == Spec => []TypeOK
BY InitTyped, NextTyped, PTL DEF Spec

-----------------------------------------------------------------------------
(* The inductive invariant: what holds of each attachment. *)

One(a) == /\ InTurn(a) /\ RequestSound(a) /\ HandlerSound(a) /\ CleanSound(a)
          /\ row[a].state = "quarantine" => JobAhead(a)

UploadInv == TypeOK /\ \A a \in Attachment : One(a)

\* An action of one attachment leaves the others alone.
LEMMA OthersKept ==
    ASSUME UploadInv, TypeOK', NEW a \in Attachment, One(a)',
           \A b \in Attachment \ {a} :
              /\ row'[b] = row[b] /\ object'[b] = object[b] /\ client'[b] = client[b]
              /\ job'[b] = job[b] /\ worker'[b] = worker[b] /\ raced'[b] = raced[b]
    PROVE  UploadInv'
<1>1. ASSUME NEW b \in Attachment \ {a} PROVE One(b)'
  BY <1>1 DEF UploadInv, One, InTurn, RequestSound, HandlerSound, CleanSound, JobAhead
<1> QED BY <1>1 DEF UploadInv

\* A row is loaded.
LEMMA JustLoaded == ASSUME NEW r \in AttachmentRow PROVE OnlyExpired(r, r)
BY DEF OnlyExpired, AttachmentRow

\* A PUT that arrives between the handler's read and its copy is a race; any
\* other changes nothing that was promised.
LEMMA ArriveKeeps ==
    ASSUME UploadInv, TypeOK', NEW a \in Attachment, NEW b \in Body, Arrive(a, b),
           UNCHANGED <<row, job, worker>>,
           client'[a] = client[a] \/ (/\ client[a].pc # "done" /\ job[a].status = "none"
                                      /\ client'[a].pc \notin {"init", "complete"}),
           \A x \in Attachment \ {a} : client'[x] = client[x]
    PROVE  UploadInv'
<1>1. /\ object'[a].quarantine = b /\ object'[a].clean = object[a].clean
      /\ object'[a].curated = object[a].curated /\ b # None
      /\ \A x \in Attachment \ {a} : object'[x] = object[x] /\ raced'[x] = raced[x]
  BY AttachmentAssumption DEF Arrive, UploadInv, TypeOK, Objects
<1>2. raced'[a] = (raced[a] \/ worker[a].pc = "verified")
  BY DEF Arrive, UploadInv, TypeOK
<1>3. HandlerSound(a)' BY <1>1, <1>2 DEF UploadInv, One, HandlerSound
<1>4. CleanSound(a)' BY <1>1, <1>2 DEF UploadInv, One, CleanSound
<1>5. One(a)' BY <1>1, <1>3, <1>4 DEF UploadInv, One, InTurn, RequestSound, JobAhead
<1> QED BY <1>1, <1>5, OthersKept

\* The client's steps.
LEMMA ClientKeeps ==
    ASSUME UploadInv, NEW a \in Attachment, ClientNext(a)
    PROVE  UploadInv'
<1>0. TypeOK' BY ClientTyped DEF UploadInv
<1> USE DEF UploadInv
<1>1. ASSUME NEW b \in Body, NEW only \in BOOLEAN, InitLoad(a, b, only) PROVE UploadInv'
  <2>1. /\ client'[a].pc = "init" /\ client'[a].loaded = row[a]
        /\ client'[a].next = Initiated(row[a], b, only)
        /\ UNCHANGED <<row, object, job, worker, raced>>
        /\ client[a].pc = "idle" /\ \A x \in Attachment \ {a} : client'[x] = client[x]
    BY <1>1 DEF InitLoad, TypeOK
  <2>2. OnlyExpired(row[a], row[a]) BY JustLoaded DEF TypeOK
  <2>3. RequestSound(a)'
    BY <2>1, <2>2 DEF RequestSound, Initiated, One, InTurn, TypeOK, AttachmentRow, Kept, State
  <2>4. One(a)' BY <2>1, <2>3 DEF One, InTurn, HandlerSound, CleanSound, JobAhead
  <2> QED BY <1>0, <2>1, <2>4, OthersKept
<1>2. CASE InitCommit(a)
  <2>1. /\ client[a].pc = "init" /\ row'[a] = Flush(row[a], client[a].loaded, client[a].next)
        /\ client'[a].pc \in {"upload", "done"} /\ UNCHANGED <<object, job, worker, raced>>
        /\ \A x \in Attachment \ {a} : client'[x] = client[x] /\ row'[x] = row[x]
    BY <1>2 DEF InitCommit, TypeOK, Client, ClientState
  <2>2. /\ job[a].status = "none" /\ worker[a].pc = "idle"
        /\ row[a].state \notin {"quarantine", "clean"}
    BY <2>1 DEF One, InTurn
  <2>3. /\ row'[a].state \notin {"quarantine", "clean"}
        /\ row'[a].state = "pending" => row'[a].uploadKey
    <3>1. /\ row[a] \in AttachmentRow /\ client[a].loaded \in AttachmentRow
          /\ client[a].next \in AttachmentRow
      BY DEF TypeOK, ClientState
    <3>2. RequestSound(a) BY DEF One
    <3>3. OnlyExpired(row[a], client[a].loaded) BY <2>1, <3>2 DEF RequestSound
    <3>4. /\ row'[a].state = IF client[a].next.state = client[a].loaded.state
                            THEN row[a].state ELSE client[a].next.state
          /\ row'[a].uploadKey = client[a].next.uploadKey
      BY <2>1, <3>1, <3>3, FlushUndisturbed DEF AttachmentRow
    <3> QED BY <2>1, <2>2, <3>2, <3>3, <3>4 DEF RequestSound, OnlyExpired
  <2>4. One(a)' BY <2>1, <2>2, <2>3 DEF One, InTurn, RequestSound, HandlerSound, CleanSound
  <2> QED BY <1>0, <2>1, <2>4, OthersKept
<1>3. CASE Put(a)
  <2>1. /\ client'[a].pc = "uploaded" /\ client[a].pc = "upload" /\ Arrive(a, client[a].body)
        /\ client[a].body \in Body
        /\ UNCHANGED <<row, job, worker>> /\ \A x \in Attachment \ {a} : client'[x] = client[x]
    BY <1>3 DEF Put, TypeOK, ClientState
  <2> QED BY <1>0, <2>1, ArriveKeeps DEF One, InTurn
<1>4. CASE PutFails(a)
  <2>1. /\ client'[a].pc = "idle" /\ client[a].pc = "upload"
        /\ UNCHANGED <<row, object, job, worker, raced>>
        /\ \A x \in Attachment \ {a} : client'[x] = client[x]
    BY <1>4 DEF PutFails, TypeOK, Client
  <2>2. One(a)' BY <2>1 DEF One, InTurn, RequestSound, HandlerSound, CleanSound, JobAhead
  <2> QED BY <1>0, <2>1, <2>2, OthersKept
<1>5. CASE LatePut(a)
  <2>1. PICK b \in late[a] : Arrive(a, b) /\ UNCHANGED <<row, client, job, worker>>
    BY <1>5 DEF LatePut
  <2>2. b \in Body BY DEF TypeOK
  <2> QED BY <1>0, <2>1, <2>2, ArriveKeeps
<1>6. ASSUME NEW declared \in Body, CompleteLoad(a, declared) PROVE UploadInv'
  <2>1. /\ client'[a].pc = "complete" /\ client'[a].loaded = row[a]
        /\ client'[a].next = Completed(a, row[a], declared)
        /\ UNCHANGED <<row, object, job, worker, raced>>
        /\ client[a].pc # "done" /\ \A x \in Attachment \ {a} : client'[x] = client[x]
    BY <1>6 DEF CompleteLoad, TypeOK, ClientState
  <2>2. OnlyExpired(row[a], row[a]) BY JustLoaded DEF TypeOK
  <2>3. LET new == Completed(a, row[a], declared)
        IN  new.state # "clean" /\ (new.state \in {"pending", "quarantine"} => new.uploadKey)
    BY <2>1 DEF Completed, Linked, One, InTurn, TypeOK, AttachmentRow
  <2>4. RequestSound(a)' BY <2>1, <2>2, <2>3 DEF RequestSound
  <2>5. One(a)' BY <2>1, <2>4 DEF One, InTurn, HandlerSound, CleanSound, JobAhead
  <2> QED BY <1>0, <2>1, <2>5, OthersKept
<1>7. CASE CompleteCommit(a)
  <2>1. /\ client[a].pc = "complete" /\ row'[a] = Flush(row[a], client[a].loaded, client[a].next)
        /\ UNCHANGED <<object, worker, raced>>
        /\ client'[a].pc = IF client[a].next.state \in {"quarantine", "clean"}
                           THEN "done" ELSE "idle"
        /\ job'[a] = IF client[a].next.state = "quarantine" THEN Enqueued(job[a]) ELSE job[a]
        /\ \A x \in Attachment \ {a} :
              client'[x] = client[x] /\ row'[x] = row[x] /\ job'[x] = job[x]
    BY <1>7 DEF CompleteCommit, TypeOK, Client, ClientState
  <2>2. /\ job[a].status = "none" /\ worker[a].pc = "idle"
        /\ row[a].state \notin {"quarantine", "clean"}
    BY <2>1 DEF One, InTurn
  <2>3. /\ row'[a].state # "clean"
        /\ row'[a].state = "quarantine" => client[a].next.state = "quarantine"
        /\ row'[a].state \in {"pending", "quarantine"} => row'[a].uploadKey
    <3>1. /\ row[a] \in AttachmentRow /\ client[a].loaded \in AttachmentRow
          /\ client[a].next \in AttachmentRow
      BY DEF TypeOK, ClientState
    <3>2. RequestSound(a) BY DEF One
    <3>3. OnlyExpired(row[a], client[a].loaded) BY <2>1, <3>2 DEF RequestSound
    <3>4. /\ row'[a].state = IF client[a].next.state = client[a].loaded.state
                            THEN row[a].state ELSE client[a].next.state
          /\ row'[a].uploadKey = client[a].next.uploadKey
      BY <2>1, <3>1, <3>3, FlushUndisturbed DEF AttachmentRow
    <3> QED BY <2>1, <2>2, <3>2, <3>3, <3>4 DEF RequestSound, OnlyExpired
  <2>4. One(a)'
    BY <2>1, <2>2, <2>3
    DEF One, InTurn, RequestSound, HandlerSound, CleanSound, Enqueued, JobAhead
  <2> QED BY <1>0, <2>1, <2>4, OthersKept
<1>8. CASE RequestFails(a)
  <2>1. /\ client'[a].pc = "idle" /\ client[a].pc # "done"
        /\ UNCHANGED <<row, object, job, worker, raced>>
        /\ \A x \in Attachment \ {a} : client'[x] = client[x]
    BY <1>8 DEF RequestFails, TypeOK, Client
  <2>2. One(a)' BY <2>1 DEF One, InTurn, RequestSound, HandlerSound, CleanSound, JobAhead
  <2> QED BY <1>0, <2>1, <2>2, OthersKept
<1> QED BY <1>1, <1>2, <1>3, <1>4, <1>5, <1>6, <1>7, <1>8 DEF ClientNext

\* The job's steps.
LEMMA WorkerKeeps ==
    ASSUME UploadInv, NEW a \in Attachment, WorkerNext(a)
    PROVE  UploadInv'
<1>0. TypeOK' BY WorkerTyped DEF UploadInv
<1> USE DEF UploadInv
<1>a. ASSUME UNCHANGED <<row, object, client, raced>>, job'[a].status # "none", job[a].status # "none",
             worker'[a].pc # "idle" => job'[a].status = "running",
             row[a].state = "quarantine" => JobAhead(a)',
             worker'[a].pc \in {"idle", "claimed"},
             \A x \in Attachment \ {a} : job'[x] = job[x] /\ worker'[x] = worker[x]
      PROVE  UploadInv'
  <2>1. One(a)' BY <1>a DEF One, InTurn, RequestSound, HandlerSound, CleanSound
  <2> QED BY <1>0, <1>a, <2>1, OthersKept
<1>1. CASE Claim(a)
  BY <1>1, <1>a DEF Claim, TypeOK, Handler, JobAhead
<1>2. CASE Finalize(a)
  <2>1. /\ worker[a].pc = "claimed" /\ UNCHANGED <<row, object, client, job, raced>>
        /\ worker'[a].loaded = row[a] /\ worker'[a].data = object[a].quarantine
        /\ worker'[a].pc =
              CASE row[a].state = "clean" -> "skip"
                [] row[a].state # "clean" /\ (row[a].state # "quarantine" \/ ~row[a].uploadKey)
                     -> "dead"
                [] OTHER -> IF Verified(row[a], object[a].quarantine)
                            THEN "verified" ELSE "reject"
        /\ \A x \in Attachment \ {a} : worker'[x] = worker[x]
    BY <1>2 DEF Finalize, TypeOK, Stored
  <2>2. OnlyExpired(row[a], row[a]) BY JustLoaded DEF TypeOK
  <2>3. HandlerSound(a)'
    BY <2>1, <2>2, AttachmentAssumption
    DEF HandlerSound, One, InTurn, Verified, Detected
  <2>4. One(a)' BY <2>1, <2>3 DEF One, InTurn, RequestSound, CleanSound, JobAhead
  <2> QED BY <1>0, <2>1, <2>4, OthersKept
<1>3. CASE Copy(a)
  <2>1. /\ worker[a].pc = "verified" /\ UNCHANGED <<row, client, job, raced>>
        /\ worker'[a].loaded = worker[a].loaded /\ worker'[a].data = worker[a].data
        /\ worker'[a].pc = "copied"
        /\ object'[a].clean = object[a].quarantine
        /\ Stripped(worker[a].data) => object'[a].curated = worker[a].data
        /\ \A x \in Attachment \ {a} : worker'[x] = worker[x] /\ object'[x] = object[x]
    BY <1>3 DEF Copy, TypeOK, Stored, HandlerState, Objects
  <2>2. row[a].state # "clean" BY <2>1 DEF One, HandlerSound, OnlyExpired
  <2>3. HandlerSound(a)' BY <2>1 DEF HandlerSound, One
  <2>4. One(a)' BY <2>1, <2>2, <2>3 DEF One, InTurn, RequestSound, CleanSound, JobAhead
  <2> QED BY <1>0, <2>1, <2>4, OthersKept
<1>4. CASE FinalizeCommit(a)
  <2> DEFINE w == worker[a]
  <2>1. /\ w.pc \in {"copied", "reject", "skip", "dead"} /\ UNCHANGED <<object, client, raced>>
        /\ row'[a] = Flush(row[a], w.loaded, Finalized(w))
        /\ job'[a].status \in {"dead", "succeeded"} /\ worker'[a].pc = "idle"
        /\ \A x \in Attachment \ {a} :
              worker'[x] = worker[x] /\ row'[x] = row[x] /\ job'[x] = job[x]
    BY <1>4 DEF FinalizeCommit, TypeOK, Handler, JobRow
  <2>2. w \in HandlerState /\ w.loaded \in AttachmentRow /\ row[a] \in AttachmentRow
    BY DEF TypeOK, HandlerState
  <2>3. OnlyExpired(row[a], w.loaded) /\ client[a].pc = "done" /\ job[a].status = "running"
    BY <2>1 DEF One, InTurn, HandlerSound
  <2>4. LET new == Finalized(w)
        IN  row'[a] = [new EXCEPT !.state = IF new.state = w.loaded.state
                                            THEN row[a].state ELSE new.state]
    BY <2>1, <2>2, <2>3, FinalizedTyped, FlushUndisturbed
  <2>5. CASE w.pc = "copied"
    <3>1. /\ Finalized(w).state = "clean" /\ Finalized(w).verified = w.data
          /\ Finalized(w).sha256 = w.loaded.sha256 /\ Finalized(w).cleanKey
          /\ Finalized(w).curatedKey = Stripped(w.data) /\ w.loaded.state = "quarantine"
      BY <2>2, <2>5 DEF Finalized, One, HandlerSound, AttachmentRow
    <3>2. /\ row'[a].state = "clean" /\ row'[a].verified = w.data /\ row'[a].cleanKey
          /\ row'[a].sha256 = w.loaded.sha256 /\ row'[a].curatedKey = Stripped(w.data)
      BY <2>4, <3>1, FinalizedTyped, <2>2 DEF AttachmentRow
    <3>3. CleanSound(a)' BY <2>1, <2>5, <3>2 DEF CleanSound, One, HandlerSound
    <3>4. One(a)' BY <2>1, <2>3, <3>2, <3>3 DEF One, InTurn, RequestSound, HandlerSound
    <3> QED BY <1>0, <2>1, <3>4, OthersKept
  <2>6. CASE w.pc = "reject"
    <3>1. row'[a].state = "rejected"
      BY <2>2, <2>4, <2>6, FinalizedTyped DEF Finalized, One, HandlerSound, AttachmentRow
    <3>2. One(a)' BY <2>1, <2>3, <3>1 DEF One, InTurn, RequestSound, HandlerSound, CleanSound
    <3> QED BY <1>0, <2>1, <3>2, OthersKept
  <2>7. CASE w.pc \in {"skip", "dead"}
    <3>1. row'[a] = row[a] /\ row[a].state # "quarantine"
      BY <2>2, <2>3, <2>4, <2>7 DEF Finalized, One, HandlerSound, AttachmentRow, OnlyExpired
    <3>2. One(a)' BY <2>1, <2>3, <3>1 DEF One, InTurn, RequestSound, HandlerSound, CleanSound
    <3> QED BY <1>0, <2>1, <3>2, OthersKept
  <2> QED BY <2>1, <2>5, <2>6, <2>7
<1>5. CASE FinalizeFails(a)
  <2>1. job[a].status = "running" BY <1>5 DEF FinalizeFails, One, InTurn
  <2> QED BY <1>5, <1>a, <2>1, AttachmentAssumption
          DEF FinalizeFails, TypeOK, Handler, JobAhead, AfterFailure, JobRow
<1>6. CASE Crash(a)
  <2>1. job[a].status = "running" BY <1>6 DEF Crash, One, InTurn
  <2> QED BY <1>6, <1>a, <2>1 DEF Crash, TypeOK, Handler, JobAhead
<1>7. CASE Recover(a) BY <1>7, <1>a DEF Recover, TypeOK, JobAhead, JobRow
<1> QED BY <1>1, <1>2, <1>3, <1>4, <1>5, <1>6, <1>7 DEF WorkerNext

\* The sweep makes rows expired, which no request and no handler relies on.
LEMMA SweepKeeps ==
    ASSUME UploadInv, TypeOK', SweepCommit
    PROVE  UploadInv'
<1>1. ASSUME NEW a \in Attachment PROVE One(a)'
  <2>1. UNCHANGED <<object, client, job, worker, raced>> /\ row[a] \in AttachmentRow
    BY DEF SweepCommit, UploadInv, TypeOK
  <2>2. CASE row'[a] = row[a]
    BY <2>1, <2>2 DEF UploadInv, One, InTurn, RequestSound, HandlerSound, CleanSound, JobAhead
  <2>3. CASE row'[a] = [row[a] EXCEPT !.state = "expired"]
    <3>1. \A old \in AttachmentRow : OnlyExpired(row[a], old) => OnlyExpired(row'[a], old)
      BY <2>1, <2>3 DEF OnlyExpired, AttachmentRow
    <3>2. row'[a].state = "expired" BY <2>1, <2>3 DEF AttachmentRow
    <3>3. client[a].loaded \in AttachmentRow /\ worker[a].loaded \in AttachmentRow
      BY DEF UploadInv, TypeOK, ClientState, HandlerState
    <3> QED BY <2>1, <3>1, <3>2, <3>3
            DEF UploadInv, One, InTurn, RequestSound, HandlerSound, CleanSound
  <2> QED BY <2>2, <2>3 DEF SweepCommit
<1> QED BY <1>1 DEF UploadInv

\* Initially nothing is under way.
LEMMA InitUpload == Init => UploadInv
BY InitTyped DEF Init, UploadInv, One, InTurn, RequestSound, HandlerSound, CleanSound, Client,
   Handler, NoRow

\* Every step preserves the invariant.
LEMMA NextUpload == UploadInv /\ [Next]_vars => UploadInv'
<1> SUFFICES ASSUME UploadInv, [Next]_vars PROVE UploadInv' OBVIOUS
<1>0. TypeOK' BY NextTyped DEF UploadInv
<1>1. CASE UNCHANGED <<row, object, client, job, worker, raced>>
  BY <1>0, <1>1 DEF UploadInv, One, InTurn, RequestSound, HandlerSound, CleanSound, JobAhead
<1>2. ASSUME NEW a \in Attachment, Tick(a) PROVE UploadInv' BY <1>1, <1>2 DEF Tick
<1>3. CASE MessageStored BY <1>1, <1>3 DEF MessageStored
<1>4. CASE SweepSelect BY <1>1, <1>4 DEF SweepSelect
<1>5. CASE SweepCommit BY <1>0, <1>5, SweepKeeps
<1>6. CASE UNCHANGED vars BY <1>1, <1>6 DEF vars
<1> QED BY ClientKeeps, WorkerKeeps, <1>2, <1>3, <1>4, <1>5, <1>6 DEF Next

\* A clean attachment holds the bytes that were verified (handlers.py,
\* handle_finalize_attachment), for any number of uploads, retries, late PUTs,
\* crashes and sweeps; the exception is the PUT between read and copy.
THEOREM CleanIsVerified == Spec => []CleanVerified
<1>1. UploadInv => CleanVerified BY DEF UploadInv, One, CleanVerified
<1> QED BY <1>1, InitUpload, NextUpload, PTL DEF Spec

\* No attachment is left in quarantine without the job that gets it out
\* (attachments.py, complete_attachment; jobs.py, fail_job).
THEOREM QuarantineIsServed == Spec => []QuarantineHasJob
<1>1. UploadInv => QuarantineHasJob BY DEF UploadInv, One, QuarantineHasJob
<1> QED BY <1>1, InitUpload, NextUpload, PTL DEF Spec

=============================================================================
