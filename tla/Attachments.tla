----------------------------- MODULE Attachments -----------------------------
(***************************************************************************)
(* An uploaded file on its way through quarantine: the client's calls      *)
(* (init, presigned PUT, complete), the finalize_attachment job that       *)
(* verifies and copies the bytes, and the sweep that expires uploads that  *)
(* never came (services/attachments.py, workers/handlers.py).              *)
(*                                                                         *)
(* A request or a handler loads the attachments row once, without a lock,  *)
(* talks to S3, and writes at commit the columns whose value differs from  *)
(* the one it LOADED (Flush); the session does not autoflush.  A client    *)
(* makes one call at a time for an attachment and may start over, with     *)
(* other bytes, after a refusal; a PUT it gave up on may still arrive.     *)
(* One worker at a time runs a job: a worker that outlives its lock is the *)
(* subject of JobQueue.                                                    *)
(***************************************************************************)
EXTENDS Integers, FiniteSets

CONSTANTS
    Attachment,    \* client_attachment_id, each with one filename
    Body,          \* file contents; a body stands for its own sha256
    SizeOf,        \* len(data)
    Allowed,       \* the bodies whose magic bytes are of the declared type
    Tagged,        \* the bodies strip_metadata makes a curated copy of
    None,
    MaxInits,      \* bound: how often a client starts over
    MaxAttempts,   \* jobs.max_attempts
    MaxFaults      \* bound: failed transactions, S3 errors, crashes

ASSUME AttachmentAssumption ==
    /\ SizeOf \in [Body -> Nat]
    /\ Allowed \subseteq Body /\ Tagged \subseteq Body
    /\ None \notin Body
    /\ MaxInits \in Nat /\ MaxAttempts \in Nat \ {0} /\ MaxFaults \in Nat

VARIABLES
    row,       \* the attachments table
    age,       \* presign_expires_at against the clock, see Tick
    object,    \* the S3 objects under the attachment's three keys
    late,      \* PUTs the client has given up on and S3 may still receive
    turns,     \* user messages of the conversation stored so far
    client,    \* where the client stands in its upload
    job,       \* the finalize job with the dedupe key of the attachment
    worker,    \* the handler that runs the job
    sweep,     \* the rows expire_stale_pending has selected
    raced,     \* history: a PUT arrived between the handler's read and its copy
    faults

vars == <<row, age, object, late, turns, client, job, worker, sweep, raced, faults>>

NoRow == [state |-> "none", sha256 |-> None, uploadKey |-> FALSE, verified |-> None,
          cleanKey |-> FALSE, curatedKey |-> FALSE, linkedTo |-> {}]

\* The states in which init_attachment answers "duplicate".
Kept == {"clean", "quarantine", "metadata_only"}

State == Kept \cup {"none", "pending", "rejected", "expired"}

\* A client, and a handler, between two transactions.
Client(pc, body, inits) ==
    [pc |-> pc, body |-> body, inits |-> inits, loaded |-> NoRow, next |-> NoRow]
Handler(pc) == [pc |-> pc, loaded |-> NoRow, data |-> None]

Init ==
    /\ row = [a \in Attachment |-> NoRow]
    /\ age = [a \in Attachment |-> 0]
    /\ object = [a \in Attachment |-> [quarantine |-> None, clean |-> None, curated |-> None]]
    /\ late = [a \in Attachment |-> {}]
    /\ turns = 0
    /\ client = [a \in Attachment |->
                    Client("idle", None, 0)]
    /\ job = [a \in Attachment |-> [status |-> "none", attempts |-> 0]]
    /\ worker = [a \in Attachment |-> Handler("idle")]
    /\ sweep = {}
    /\ raced = [a \in Attachment |-> FALSE]
    /\ faults = 0

\* The row after a transaction that loaded it as old flushes it as new.
Flush(current, old, new) ==
    [c \in DOMAIN current |-> IF new[c] = old[c] THEN current[c] ELSE new[c]]

Fault == faults < MaxFaults /\ faults' = faults + 1

\* What head_object and get_bytes find under the quarantine key.
Stored(a) == object[a].quarantine

\* A PUT of body b reaches S3.
Arrive(a, b) ==
    /\ object' = [object EXCEPT ![a].quarantine = b]
    /\ raced' = [raced EXCEPT ![a] = @ \/ worker[a].pc = "verified"]

-----------------------------------------------------------------------------
(* Client requests *)

\* The row init_attachment makes of the one it found.
Initiated(old, b, metadataOnly) ==
    CASE old.state \in Kept -> old
      [] old.state \notin Kept /\ metadataOnly ->
            [old EXCEPT !.state = "metadata_only", !.sha256 = b]
      [] OTHER -> [old EXCEPT !.state = "pending", !.sha256 = b, !.uploadKey = TRUE]

\* init_attachment up to its commit.
InitLoad(a, b, metadataOnly) ==
    /\ client[a].pc = "idle" /\ client[a].inits < MaxInits
    /\ client' = [client EXCEPT ![a] =
          [pc |-> "init", body |-> b, loaded |-> row[a], next |-> Initiated(row[a], b, metadataOnly),
           inits |-> @.inits + 1]]
    /\ UNCHANGED <<row, age, object, late, turns, job, worker, sweep, raced, faults>>

\* Its commit; a new presigned URL restarts the upload window.
InitCommit(a) ==
    /\ client[a].pc = "init"
    /\ LET old == client[a].loaded
           new == client[a].next
           url == new.state = "pending"
       IN  /\ row' = [row EXCEPT ![a] = Flush(@, old, new)]
           /\ age' = [age EXCEPT ![a] = IF url THEN 0 ELSE @]
           /\ client' = [client EXCEPT ![a] =
                  IF url THEN Client("upload", @.body, @.inits) ELSE Client("done", None, @.inits)]
    /\ UNCHANGED <<object, late, turns, job, worker, sweep, raced, faults>>

\* uploadToStorage within the presigned URL's lifetime: S3 accepts only the
\* bytes whose length and checksum the URL was signed for.
Put(a) ==
    /\ client[a].pc = "upload" /\ age[a] = 0
    /\ Arrive(a, client[a].body)
    /\ client' = [client EXCEPT ![a].pc = "uploaded"]
    /\ UNCHANGED <<row, age, late, turns, job, worker, sweep, faults>>

\* The PUT times out or is refused: the upload has failed for the client.
PutFails(a) ==
    /\ client[a].pc = "upload"
    /\ late' = [late EXCEPT ![a] = IF age[a] = 0 THEN @ \cup {client[a].body} ELSE @]
    /\ client' = [client EXCEPT ![a] = Client("idle", None, @.inits)]
    /\ UNCHANGED <<row, age, object, turns, job, worker, sweep, raced, faults>>

LatePut(a) ==
    \E b \in late[a] :
        /\ Arrive(a, b)
        /\ late' = [late EXCEPT ![a] = @ \ {b}]
        /\ UNCHANGED <<row, age, turns, client, job, worker, sweep, faults>>

\* _link_attachment without a source message id: the latest user message.
Linked(r) == IF turns = 0 THEN r ELSE [r EXCEPT !.linkedTo = @ \cup {turns}]

\* What complete_attachment makes of the row it loaded, declared being the
\* checksum the request repeats.
Completed(a, old, declared) ==
    LET stored == Stored(a)
    IN  IF old.state = "clean" THEN old
        ELSE IF declared # old.sha256 THEN [old EXCEPT !.state = "rejected"]
        ELSE IF age[a] > 0 THEN [old EXCEPT !.state = "expired"]
        ELSE IF ~old.uploadKey \/ stored = None THEN old
        ELSE IF SizeOf[stored] # SizeOf[declared] THEN [old EXCEPT !.state = "rejected"]
        ELSE Linked([old EXCEPT !.state = "quarantine"])

CompleteLoad(a, declared) ==
    /\ client[a].pc \in {"upload", "uploaded"}
    /\ client' = [client EXCEPT ![a].pc = "complete", ![a].loaded = row[a],
                                ![a].next = Completed(a, row[a], declared)]
    /\ UNCHANGED <<row, age, object, late, turns, job, worker, sweep, raced, faults>>

\* enqueue_job(FINALIZE_ATTACHMENT): nothing while one is pending or running.
Enqueued(j) == IF j.status \in {"pending", "running"} THEN j
               ELSE [status |-> "pending", attempts |-> 0]

\* The commit of complete_attachment: row and job together.
CompleteCommit(a) ==
    /\ client[a].pc = "complete"
    /\ LET verified == client[a].next.state = "quarantine"
       IN  /\ row' = [row EXCEPT ![a] = Flush(@, client[a].loaded, client[a].next)]
           /\ job' = [job EXCEPT ![a] = IF verified THEN Enqueued(@) ELSE @]
           /\ client' = [client EXCEPT ![a] =
                  Client(IF @.next.state \in {"quarantine", "clean"} THEN "done" ELSE "idle",
                         None, @.inits)]
    /\ UNCHANGED <<age, object, late, turns, worker, sweep, raced, faults>>

\* The request fails before its commit: rolled back, and the client told so.
RequestFails(a) ==
    /\ client[a].pc \in {"init", "complete"}
    /\ Fault
    /\ client' = [client EXCEPT ![a] = Client("idle", None, @.inits)]
    /\ UNCHANGED <<row, age, object, late, turns, job, worker, sweep, raced>>

\* The turn the file belongs to is ingested (module Ingest).
MessageStored ==
    /\ turns < 1
    /\ turns' = turns + 1
    /\ UNCHANGED <<row, age, object, late, client, job, worker, sweep, raced, faults>>

-----------------------------------------------------------------------------
(* The finalize_attachment job *)

Claim(a) ==
    /\ job[a].status = "pending"
    /\ job' = [job EXCEPT ![a] = [status |-> "running", attempts |-> @.attempts + 1]]
    /\ worker' = [worker EXCEPT ![a] = Handler("claimed")]
    /\ UNCHANGED <<row, age, object, late, turns, client, sweep, raced, faults>>

\* detect_mime_from_bytes finds the declared type, or its container.
Detected(data) == data \in Allowed

\* strip_metadata found something to strip.
Stripped(data) == data \in Tagged

\* Mutant: the digest is not compared.
Verified_TypeOnly(r, data) == Detected(data)

\* The checks of the bytes read: length, digest, magic bytes.
Verified(r, data) == data = r.sha256 /\ Detected(data)

\* The row is loaded and the quarantine object read and verified.
Finalize(a) ==
    /\ worker[a].pc = "claimed"
    /\ LET r    == row[a]
           data == Stored(a)
       IN  worker' = [worker EXCEPT ![a] =
             [pc     |-> CASE r.state = "clean" -> "skip"
                           [] r.state # "clean" /\ (r.state # "quarantine" \/ ~r.uploadKey)
                                -> "dead"
                           [] OTHER -> IF Verified(r, data) THEN "verified" ELSE "reject",
              loaded |-> r, data |-> data]]
    /\ UNCHANGED <<row, age, object, late, turns, client, job, sweep, raced, faults>>

\* copy_object copies whatever the quarantine key holds now; the curated copy
\* is made from the bytes that were read.
Copy(a) ==
    /\ worker[a].pc = "verified"
    /\ object' = [object EXCEPT ![a].clean = Stored(a),
                                ![a].curated = IF Stripped(worker[a].data)
                                               THEN worker[a].data ELSE @]
    /\ worker' = [worker EXCEPT ![a].pc = "copied"]
    /\ UNCHANGED <<row, age, late, turns, client, job, sweep, raced, faults>>

\* The row the handler leaves: accepted, rejected by _reject_attachment, or as it was.
Finalized(w) ==
    CASE w.pc = "copied" -> [w.loaded EXCEPT !.state = "clean", !.verified = w.data,
                               !.cleanKey = TRUE, !.curatedKey = Stripped(w.data)]
      [] w.pc = "reject" -> [w.loaded EXCEPT !.state = "rejected"]
      [] OTHER           -> w.loaded

\* The handler's changes and the end of the job are one commit; a
\* NonRetryableError buries the job.
FinalizeCommit(a) ==
    /\ worker[a].pc \in {"copied", "reject", "skip", "dead"}
    /\ row' = [row EXCEPT ![a] = Flush(@, worker[a].loaded, Finalized(worker[a]))]
    /\ job' = [job EXCEPT ![a].status = IF worker[a].pc = "dead" THEN "dead" ELSE "succeeded"]
    /\ worker' = [worker EXCEPT ![a] = Handler("idle")]
    /\ UNCHANGED <<age, object, late, turns, client, sweep, raced, faults>>

\* Mutant: the job fails for good one attempt early.
AfterFailure_Early(j) == IF j.attempts + 1 < MaxAttempts THEN "pending" ELSE "failed"

\* fail_job: rescheduled until the attempts are used up.
AfterFailure(j) == IF j.attempts < MaxAttempts THEN "pending" ELSE "failed"

\* S3 fails under the handler.
FinalizeFails(a) ==
    /\ worker[a].pc \in {"claimed", "verified"}
    /\ Fault
    /\ job' = [job EXCEPT ![a].status = AfterFailure(job[a])]
    /\ worker' = [worker EXCEPT ![a] = Handler("idle")]
    /\ UNCHANGED <<row, age, object, late, turns, client, sweep, raced>>

\* The worker dies between two steps; its transaction is rolled back.
Crash(a) ==
    /\ worker[a].pc # "idle"
    /\ Fault
    /\ worker' = [worker EXCEPT ![a] = Handler("idle")]
    /\ UNCHANGED <<row, age, object, late, turns, client, job, sweep, raced>>

\* Mutant: a job without attempts left is not recovered.
Recover_AttemptsLeft(a) ==
    /\ job[a].status = "running" /\ worker[a].pc = "idle" /\ job[a].attempts < MaxAttempts
    /\ job' = [job EXCEPT ![a].status = "pending"]
    /\ UNCHANGED <<row, age, object, late, turns, client, worker, sweep, raced, faults>>

\* recover_stale_jobs.
Recover(a) ==
    /\ job[a].status = "running" /\ worker[a].pc = "idle"
    /\ job' = [job EXCEPT ![a].status = "pending"]
    /\ UNCHANGED <<row, age, object, late, turns, client, worker, sweep, raced, faults>>

-----------------------------------------------------------------------------
(* Expiry *)

\* The clock passes the expiry of the URL and 15 minutes (1), then 60 minutes
\* (2).  PUTs signed before are refused from then on.  Transactions are short
\* against these times: none is open across a Tick.
Tick(a) ==
    /\ row[a].uploadKey /\ age[a] < 2
    /\ client[a].pc \notin {"init", "complete"} /\ sweep = {}
    /\ age' = [age EXCEPT ![a] = @ + 1]
    /\ late' = [late EXCEPT ![a] = {}]
    /\ UNCHANGED <<row, object, turns, client, job, worker, sweep, raced, faults>>

\* expire_stale_pending selects, and at commit updates by id what it selected.
SweepSelect ==
    /\ sweep = {}
    /\ sweep' = {a \in Attachment : row[a].state = "pending" /\ age[a] = 2}
    /\ sweep' # {}
    /\ UNCHANGED <<row, age, object, late, turns, client, job, worker, raced, faults>>

SweepCommit ==
    /\ sweep # {}
    /\ row' = [a \in Attachment |->
                  IF a \in sweep THEN [row[a] EXCEPT !.state = "expired"] ELSE row[a]]
    /\ sweep' = {}
    /\ UNCHANGED <<age, object, late, turns, client, job, worker, raced, faults>>

-----------------------------------------------------------------------------
ClientNext(a) ==
    \/ \E b \in Body, metadataOnly \in BOOLEAN : InitLoad(a, b, metadataOnly)
    \/ InitCommit(a)
    \/ Put(a)
    \/ PutFails(a)
    \/ LatePut(a)
    \/ \E declared \in Body : CompleteLoad(a, declared)
    \/ CompleteCommit(a)
    \/ RequestFails(a)

WorkerNext(a) ==
    \/ Claim(a)
    \/ Finalize(a)
    \/ Copy(a)
    \/ FinalizeCommit(a)
    \/ FinalizeFails(a)
    \/ Crash(a)
    \/ Recover(a)

Next ==
    \/ \E a \in Attachment : ClientNext(a) \/ WorkerNext(a) \/ Tick(a)
    \/ MessageStored
    \/ SweepSelect
    \/ SweepCommit

Spec == Init /\ [][Next]_vars

\* The workers keep polling and stale locks are recovered in every cycle;
\* clients, S3 and the clock promise nothing.
FairSpec ==
    /\ Spec
    /\ \A a \in Attachment :
          WF_vars(Claim(a) \/ Finalize(a) \/ Copy(a) \/ FinalizeCommit(a) \/ Recover(a))

-----------------------------------------------------------------------------
(* Properties *)

\* The columns of the attachments table.
AttachmentRow ==
    [state : State, sha256 : Body \cup {None}, uploadKey : BOOLEAN,
     verified : Body \cup {None}, cleanKey : BOOLEAN, curatedKey : BOOLEAN,
     linkedTo : SUBSET Nat]

\* The S3 objects of an attachment, a client, a jobs row and a handler.
Objects == [quarantine : Body \cup {None}, clean : Body \cup {None}, curated : Body \cup {None}]
ClientState ==
    [pc : {"idle", "init", "upload", "uploaded", "complete", "done"},
     body : Body \cup {None}, inits : Nat, loaded : AttachmentRow, next : AttachmentRow]
JobRow ==
    [status : {"none", "pending", "running", "succeeded", "dead", "failed"}, attempts : Nat]
HandlerState ==
    [pc : {"idle", "claimed", "skip", "dead", "reject", "verified", "copied"},
     loaded : AttachmentRow, data : Body \cup {None}]

\* The columns keep to their enumerations, and so do the copies of them that
\* requests and handlers work on; who is about to upload has something to upload.
TypeOK ==
    /\ row \in [Attachment -> AttachmentRow]
    /\ age \in [Attachment -> 0 .. 2]
    /\ object \in [Attachment -> Objects]
    /\ late \in [Attachment -> SUBSET Body]
    /\ turns \in Nat
    /\ client \in [Attachment -> ClientState]
    /\ \A a \in Attachment : client[a].pc \in {"init", "upload"} => client[a].body \in Body
    /\ job \in [Attachment -> JobRow]
    /\ worker \in [Attachment -> HandlerState]
    /\ sweep \subseteq Attachment
    /\ raced \in [Attachment -> BOOLEAN]
    /\ faults \in Nat

\* A row in quarantine or clean, and its job, come after the client's last call;
\* a handler is at work only while its job is running.
InTurn(a) ==
    /\ row[a].state \in {"quarantine", "clean"} \/ job[a].status # "none" =>
          client[a].pc = "done"
    /\ worker[a].pc # "idle" => job[a].status = "running"
    /\ row[a].state = "clean" => job[a].status # "none"
    /\ row[a].state \in {"pending", "quarantine"} => row[a].uploadKey

\* Since a row was loaded as old, at most the sweep has changed it.
OnlyExpired(current, old) ==
    /\ current.state \in {old.state, "expired"}
    /\ current = [old EXCEPT !.state = current.state]

\* What an open request will flush.
RequestSound(a) ==
    client[a].pc \in {"init", "complete"} =>
        LET new == client[a].next
        IN  /\ OnlyExpired(row[a], client[a].loaded)
            /\ new.state # "clean"
            /\ new.state = "quarantine" => client[a].pc = "complete"
            /\ new.state \in {"pending", "quarantine"} => new.uploadKey

\* What a handler at work knows, and has copied.
HandlerSound(a) ==
    LET w == worker[a]
    IN  /\ w.pc \notin {"idle", "claimed"} => OnlyExpired(row[a], w.loaded)
        /\ w.pc \in {"verified", "copied"} =>
              w.loaded.state = "quarantine" /\ w.data = w.loaded.sha256 /\ w.data \in Allowed
        /\ w.pc = "reject" => w.loaded.state = "quarantine"
        /\ w.pc \in {"skip", "dead"} => w.loaded.state # "quarantine"
        /\ w.pc = "verified" =>
              object[a].quarantine # None /\ (object[a].quarantine = w.data \/ raced[a])
        /\ w.pc = "copied" =>
              /\ object[a].clean = w.data \/ (raced[a] /\ object[a].clean # None)
              /\ Stripped(w.data) => object[a].curated = w.data

CleanSound(a) ==
    row[a].state = "clean" =>
        /\ row[a].cleanKey /\ row[a].verified = row[a].sha256
        /\ row[a].verified \in Allowed
        /\ object[a].clean = row[a].verified \/ (raced[a] /\ object[a].clean # None)
        /\ row[a].curatedKey => object[a].curated = row[a].verified

\* A clean attachment is what the row says: its clean object is there and was
\* verified as bytes of an allowed type with the declared checksum.  The one
\* way past it is a PUT between the handler's read and its copy, which is not
\* pinned to the version read (raced); the curated copy is right even then.
CleanVerified == \A a \in Attachment : CleanSound(a)

JobAhead(a) ==
    \/ job[a].status \in {"pending", "running"}
    \/ job[a].status = "failed" /\ job[a].attempts >= MaxAttempts

\* An attachment in quarantine has a job that will finalize it, unless that
\* job has used up its attempts: complete_attachment commits both together,
\* and the job is not over before the row has left quarantine.
QuarantineHasJob == \A a \in Attachment : row[a].state = "quarantine" => JobAhead(a)

\* A quarantined attachment is clean or rejected in the end, through crashes
\* and S3 errors, unless its job runs out of attempts.
Settles ==
    \A a \in Attachment :
        row[a].state = "quarantine" ~>
            (row[a].state # "quarantine" \/ job[a].status = "failed")

=============================================================================
