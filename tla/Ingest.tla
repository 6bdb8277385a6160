-------------------------------- MODULE Ingest --------------------------------
(***************************************************************************)
(* How requests write one conversation (services/ingest.py, behind         *)
(* api/v1/ingest.py): message batches, whose items run in savepoints, and  *)
(* conversation upserts.  A request is one READ COMMITTED transaction that *)
(* reads without locks and writes late: the session does not autoflush, so *)
(* the first UPDATE or INSERT of the conversations row, which every item   *)
(* causes, comes with the item's first flush.  It takes the row's lock,    *)
(* and from then on the request has the conversation to itself until it    *)
(* commits; but what it writes was computed from what it read before.  The *)
(* identity map is weak: an item reads anew what earlier ones have let go. *)
(*                                                                         *)
(* A message is known by its fingerprint, which is unique and never        *)
(* changes.  Role and normalised text are one content.  Parts, branches,   *)
(* titles and the jobs queued on the way (see SnapshotPipeline) are left   *)
(* out.                                                                    *)
(***************************************************************************)
EXTENDS Integers, Sequences, FiniteSets

CONSTANTS
    Request,       \* requests; a client may send one again
    Upsert,        \* those of them that are conversation upserts
    BatchOf,       \* the payloads of a request
    Key,           \* idempotency keys of payloads
    Source,        \* values of source_message_id
    Slot,          \* sequence neighbourhood and timestamp bucket
    Content,       \* role and normalised text
    None,          \* no source_message_id, no message, no request
    MaxFaults      \* bound: crashes and failing statements

\* CompletionStatus.  The extension sends the first two, the API admits all four.
Status == {"partial", "complete", "reconciled", "unknown"}

\* CaptureCompleteness by rank: LIVE_ONLY is 1, COMPLIANCE_VERIFIED is 5.
Rank == 0 .. 5
LiveOnly == 1
ComplianceVerified == 5

\* rank is capture_completeness of an upsert, LIVE_ONLY in a message.  The key is
\* made of source id, role, text and status (normalizeMessage), not of the slot.
Payload == [key : Key, source : Source \cup {None}, slot : Slot, content : Content,
            status : Status, intact : BOOLEAN, rank : Rank]

Fingerprint == Slot \X Content

ASSUME IngestAssumption ==
    /\ Upsert \subseteq Request
    /\ BatchOf \in [Request -> Seq(Payload)]
    /\ \A r \in Request : BatchOf[r] # << >>
    /\ \A r \in Upsert : Len(BatchOf[r]) = 1
    /\ None \notin Source \cup Request /\ None \notin Fingerprint
    /\ MaxFaults \in Nat

\* The key is a digest of what is sent (idempotencyKey): it tells the content, and
\* an upsert's key from a message's.
ASSUME KeyAssumption ==
    \A q, r \in Request : \A i \in 1 .. Len(BatchOf[q]), j \in 1 .. Len(BatchOf[r]) :
        BatchOf[q][i].key = BatchOf[r][j].key =>
            /\ q \in Upsert <=> r \in Upsert
            /\ q \notin Upsert => BatchOf[q][i].content = BatchOf[r][j].content

VARIABLES
    db,        \* the committed rows of the conversation
    draft,     \* the same as the request that has the lock sees them
    lock,      \* the request that has written the conversations row
    claims,    \* idempotency_keys, committed
    mine,      \* the keys a request has claimed and not committed
    stage,     \* what a request does next
    index,     \* the item it is at
    held,      \* did it have the lock when the item's savepoint began?
    seen,      \* the columns of conversations as it loaded them
    target,    \* what it found, with the columns it loaded
    match,     \* the version of that message with the same content, 0 for none
    answered,  \* payloads answered "accepted" or "duplicate"
    faults

itemVars == <<seen, target, match>>
vars == <<db, draft, lock, claims, mine, stage, index, held, seen, target, match, answered,
          faults>>

Stage == {"new", "load", "create", "claim", "by_source", "by_print", "by_content", "version",
          "store", "touch", "commit", "done", "failed"}

\* A row of message_versions.
Version == [message : Fingerprint, number : Nat, content : Content, status : Status, key : Key]

\* The rows of the conversation: the conversations row, messages by fingerprint
\* and message_versions.
Rows == [exists : BOOLEAN, rank : Rank, count : Nat,
         messages : SUBSET Fingerprint,
         source : [Fingerprint -> Source \cup {None}],
         versionCount : [Fingerprint -> Nat],
         current : [Fingerprint -> Nat],
         status : [Fingerprint -> Status],
         versions : SUBSET Version]

NoRows == [exists |-> FALSE, rank |-> 0, count |-> 0, messages |-> {},
           source |-> [m \in Fingerprint |-> None],
           versionCount |-> [m \in Fingerprint |-> 0],
           current |-> [m \in Fingerprint |-> 0],
           status |-> [m \in Fingerprint |-> "partial"],
           versions |-> {}]

\* What _find_message returns; fragment: is the version that match names partial?
Target == [message : Fingerprint \cup {None}, source : Source \cup {None}, count : Nat,
           status : Status, fragment : BOOLEAN]

NoTarget == [message |-> None, source |-> None, count |-> 0, status |-> "partial",
             fragment |-> FALSE]

Item(r) == BatchOf[r][index[r]]

\* What r sees: its own writes once it has the lock, else what is committed.
View(r) == IF lock = r THEN draft ELSE db

\* Another request has written the row, and r has to wait for its end.
LockFree(r) == lock \in {None, r}

Init ==
    /\ db = NoRows /\ draft = NoRows /\ lock = None
    /\ claims = {}
    /\ mine = [r \in Request |-> {}]
    /\ stage = [r \in Request |-> "new"]
    /\ index = [r \in Request |-> 1]
    /\ held = [r \in Request |-> FALSE]
    /\ seen = [r \in Request |-> [rank |-> 0, count |-> 0]]
    /\ target = [r \in Request |-> NoTarget]
    /\ match = [r \in Request |-> 0]
    /\ answered = [r \in Request |-> {}]
    /\ faults = 0

Goto(r, s) == stage' = [stage EXCEPT ![r] = s]

-----------------------------------------------------------------------------
(* The frame of a request *)

\* build_context has let the request through; an upsert claims its key first.
Begin(r) ==
    /\ stage[r] = "new"
    /\ Goto(r, IF r \in Upsert THEN "claim" ELSE "load")
    /\ UNCHANGED <<db, draft, lock, claims, mine, index, held, itemVars, answered, faults>>

\* The item is through; the next savepoint begins.
NextItem(r) ==
    /\ index' = [index EXCEPT ![r] = @ + 1]
    /\ held' = [held EXCEPT ![r] = (lock' = r)]
    /\ Goto(r, IF index[r] = Len(BatchOf[r]) THEN "commit" ELSE "load")
    /\ seen' = [seen EXCEPT ![r] = [rank |-> 0, count |-> 0]]
    /\ target' = [target EXCEPT ![r] = NoTarget]
    /\ match' = [match EXCEPT ![r] = 0]

Answer(r) == answered' = [answered EXCEPT ![r] = @ \cup {Item(r)}]

\* The transaction is over; what r holds is released.
End(r, s) ==
    /\ lock' = IF lock = r THEN None ELSE lock
    /\ draft' = IF lock = r THEN NoRows ELSE draft
    /\ mine' = [mine EXCEPT ![r] = {}]
    /\ index' = [index EXCEPT ![r] = 1]
    /\ held' = [held EXCEPT ![r] = FALSE]
    /\ Goto(r, s)
    /\ seen' = [seen EXCEPT ![r] = [rank |-> 0, count |-> 0]]
    /\ target' = [target EXCEPT ![r] = NoTarget]
    /\ match' = [match EXCEPT ![r] = 0]

\* get_db_session commits.
Commit(r) ==
    /\ stage[r] = "commit"
    /\ db' = View(r)
    /\ claims' = claims \cup mine[r]
    /\ End(r, "done")
    /\ UNCHANGED <<answered, faults>>

\* The request fails as a whole: the client gets an error or no answer.
Abort(r) ==
    /\ End(r, "failed")
    /\ answered' = [answered EXCEPT ![r] = {}]
    /\ UNCHANGED <<db, claims>>

Fault == faults < MaxFaults /\ faults' = faults + 1

Crash(r) == Fault /\ stage[r] \notin {"new", "done", "failed"} /\ Abort(r)

\* The client sends the request once more, after an error or a lost answer.
Resend(r) ==
    /\ stage[r] \in {"done", "failed"}
    /\ Goto(r, "new")
    /\ answered' = [answered EXCEPT ![r] = {}]
    /\ UNCHANGED <<db, draft, lock, claims, mine, index, held, itemVars, faults>>

\* Mutant: the key is claimed outside the item's savepoint and survives it.
KeysAfterRollback_Kept(r) == mine[r]

\* The rollback of the item's savepoint takes back its claim ...
KeysAfterRollback(r) ==
    IF stage[r] \in {"by_source", "by_print", "by_content", "version", "store"}
    THEN mine[r] \ {Item(r).key} ELSE mine[r]

\* ... and, if it was taken in this item, the row lock.  The answer of the item
\* is "retryable".  An upsert has no savepoint and fails.
RollBackItem(r) ==
    IF r \in Upsert
    THEN Abort(r)
    ELSE /\ mine' = [mine EXCEPT ![r] = KeysAfterRollback(r)]
         /\ IF lock = r /\ ~held[r]
            THEN lock' = None /\ draft' = NoRows
            ELSE UNCHANGED <<lock, draft>>
         /\ NextItem(r)
         /\ UNCHANGED <<db, claims, answered>>

-----------------------------------------------------------------------------
(* get_or_create_conversation and _claim_idempotency *)

\* content_sha256 does not match the text: "rejected".
RejectItem(r) ==
    /\ stage[r] = "load"
    /\ ~Item(r).intact
    /\ UNCHANGED <<db, draft, lock, claims, mine, answered, faults>>
    /\ NextItem(r)

LoadConversation(r) ==
    /\ stage[r] = "load"
    /\ Item(r).intact
    /\ IF View(r).exists
       THEN /\ seen' = [seen EXCEPT ![r] = [rank |-> View(r).rank, count |-> View(r).count]]
            /\ Goto(r, IF r \in Upsert THEN "touch" ELSE "claim")
       ELSE Goto(r, "create") /\ UNCHANGED seen
    /\ UNCHANGED <<db, draft, lock, claims, mine, index, held, target, match, answered, faults>>

\* _merge_completeness
MergeCompleteness(current, incoming) ==
    IF incoming # ComplianceVerified /\ incoming > current THEN incoming ELSE current

\* The flush inserts the row and waits for another insert of it.  If that one
\* commits, get_or_create_conversation rolls back the whole session and raises;
\* the item's savepoint is closed by then, and the request fails.
CreateConversation(r) ==
    /\ stage[r] = "create"
    /\ LockFree(r)
    /\ IF db.exists
       THEN Abort(r)
       ELSE LET rank == MergeCompleteness(0, Item(r).rank)
            IN  /\ lock' = r
                /\ draft' = [db EXCEPT !.exists = TRUE, !.rank = rank]
                /\ seen' = [seen EXCEPT ![r] = [rank |-> rank, count |-> 0]]
                /\ Goto(r, IF r \in Upsert THEN "touch" ELSE "claim")
                /\ UNCHANGED <<db, claims, mine, index, held, target, match, answered>>
    /\ UNCHANGED faults

\* Mutant: the key is looked up and then inserted, and the INSERT waits for nobody.
KeyBusy_Never(r) == FALSE

\* Another request has claimed the key and not ended: the INSERT waits for it.
KeyBusy(r) == \E q \in Request \ {r} : Item(r).key \in mine[q]

Replayed(r) == Item(r).key \in claims \cup mine[r]

\* INSERT ... ON CONFLICT DO NOTHING.  A replay is answered "duplicate"; the end
\* of its savepoint still flushes the conversation.
ClaimKey(r) ==
    /\ stage[r] = "claim"
    /\ ~KeyBusy(r)
    /\ mine' = [mine EXCEPT ![r] = @ \cup ({Item(r).key} \ claims)]
    /\ Goto(r, CASE r \in Upsert -> "load"
                 [] r \notin Upsert /\ Replayed(r) -> "touch"
                 [] OTHER -> "by_source")
    /\ UNCHANGED <<db, draft, lock, claims, index, held, itemVars, answered, faults>>

-----------------------------------------------------------------------------
(* _find_message *)

Found(r, m) ==
    /\ target' = [target EXCEPT ![r] = [message |-> m, source |-> View(r).source[m],
                                        count |-> View(r).versionCount[m],
                                        status |-> View(r).status[m], fragment |-> FALSE]]
    /\ Goto(r, "version")
    /\ UNCHANGED <<db, draft, lock, claims, mine, index, held, seen, match, answered, faults>>

NotFound(r, s) ==
    /\ Goto(r, s)
    /\ UNCHANGED <<db, draft, lock, claims, mine, index, held, itemVars, answered, faults>>

WithSource(r) == {m \in View(r).messages : Item(r).source # None /\ View(r).source[m] = Item(r).source}

PrintOf(p) == <<p.slot, p.content>>

WithContent(r) == {m \in View(r).messages :
                      \E v \in View(r).versions : v.message = m /\ v.content = Item(r).content}

FindBySource(r) ==
    /\ stage[r] = "by_source"
    /\ IF WithSource(r) = {} THEN NotFound(r, "by_print")
       ELSE \E m \in WithSource(r) : Found(r, m)

FindByFingerprint(r) ==
    /\ stage[r] = "by_print"
    /\ IF PrintOf(Item(r)) \in View(r).messages THEN Found(r, PrintOf(Item(r)))
       ELSE NotFound(r, "by_content")

\* Content identity; the first by sequence_index, which the model leaves open.
FindByContent(r) ==
    /\ stage[r] = "by_content"
    /\ IF WithContent(r) = {} THEN NotFound(r, "store")
       ELSE \E m \in WithContent(r) : Found(r, m)

\* The SELECT for existing_version.
LookForVersion(r) ==
    /\ stage[r] = "version"
    /\ LET same == {v \in View(r).versions : /\ v.message = target[r].message
                                             /\ v.content = Item(r).content}
           old  == CHOOSE v \in same : TRUE
       IN  /\ match' = [match EXCEPT ![r] = IF same = {} THEN 0 ELSE old.number]
           /\ target' = [target EXCEPT ![r].fragment = same # {} /\ old.status = "partial"]
    /\ Goto(r, "store")
    /\ UNCHANGED <<db, draft, lock, claims, mine, index, held, seen, answered, faults>>

-----------------------------------------------------------------------------
(* The flushes of an item *)

\* The flush of the conversation: the ORM writes capture_completeness only if
\* it differs from the value LOADED.
Touched(r, rows) ==
    LET merged == MergeCompleteness(seen[r].rank, Item(r).rank)
    IN  [rows EXCEPT !.rank = IF merged = seen[r].rank THEN @ ELSE merged]

\* A replay, or an upsert: only the conversation is written.
TouchConversation(r) ==
    /\ stage[r] = "touch"
    /\ LockFree(r)
    /\ lock' = r
    /\ draft' = Touched(r, View(r))
    /\ Answer(r)
    /\ NextItem(r)
    /\ UNCHANGED <<db, claims, mine, faults>>

\* The message the item's version belongs to.
MessageOf(r) == IF target[r].message = None THEN PrintOf(Item(r)) ELSE target[r].message

NewMessage(r) == target[r].message = None

\* The late-arriving source_message_id of a message loaded without one.
SourceAfter(r) ==
    IF target[r].source = None THEN Item(r).source ELSE target[r].source

VersionNumber(r) == target[r].count + 1

\* Mutant: the table lacks uq_message_versions_message_number.
NumberTaken_Never(r) == FALSE

NumberTaken(r) ==
    \E v \in View(r).versions : v.message = MessageOf(r) /\ v.number = VersionNumber(r)

\* A unique index refuses the flush: the fingerprint, the source id, the number
\* or the content of the version.
Conflict(r) ==
    \/ NewMessage(r) /\ MessageOf(r) \in View(r).messages
    \/ /\ Item(r).source # None /\ target[r].source = None
       /\ \E m \in View(r).messages \ {MessageOf(r)} : View(r).source[m] = Item(r).source
    \/ /\ match[r] = 0
       /\ \/ NumberTaken(r)
          \/ \E v \in View(r).versions : v.message = MessageOf(r) /\ v.content = Item(r).content

\* The messages row as the flush leaves it: again only what differs from the
\* loaded value is written.
WithMessage(r, rows) ==
    [rows EXCEPT !.messages = @ \cup {MessageOf(r)},
                 !.source = [@ EXCEPT ![MessageOf(r)] =
                                IF NewMessage(r) \/ SourceAfter(r) # target[r].source
                                THEN SourceAfter(r) ELSE rows.source[MessageOf(r)]]]

\* Mutant: every version decides the status of its message.
StatusAfter_Latest(r) == Item(r).status

\* completion_status of the message after a new version.
StatusAfter(r) ==
    IF Item(r).status = "complete" \/ (~NewMessage(r) /\ target[r].status = "complete")
    THEN "complete" ELSE Item(r).status

\* Mutant: a message that is still streaming gets its new text in place.
AppendVersion_InPlace(r, rows) ==
    LET m == MessageOf(r)
        n == IF NewMessage(r) THEN 1 ELSE target[r].count
    IN  [WithMessage(r, rows) EXCEPT
            !.versions = {v \in @ : v.message # m \/ v.number # n} \cup
                            {[message |-> m, number |-> n, content |-> Item(r).content,
                              status |-> Item(r).status, key |-> Item(r).key]},
            !.versionCount = [@ EXCEPT ![m] = n],
            !.current = [@ EXCEPT ![m] = n],
            !.status = [@ EXCEPT ![m] = StatusAfter(r)]]

\* A new version becomes current.
AppendVersion(r, rows) ==
    LET m == MessageOf(r)
        n == VersionNumber(r)
    IN  [WithMessage(r, rows) EXCEPT
            !.versions = @ \cup {[message |-> m, number |-> n, content |-> Item(r).content,
                                  status |-> Item(r).status, key |-> Item(r).key]},
            !.versionCount = [@ EXCEPT ![m] = n],
            !.current = [@ EXCEPT ![m] = n],
            !.status = [@ EXCEPT ![m] =
                           IF NewMessage(r) \/ StatusAfter(r) # target[r].status
                           THEN StatusAfter(r) ELSE rows.status[m]],
            !.count = IF n = 1 THEN seen[r].count + 1 ELSE @]

\* The content is there already; a version of it that was loaded as partial is
\* promoted.  A message that was loaded as complete is not written.
ReuseVersion(r, rows) ==
    LET old == CHOOSE v \in rows.versions : v.message = MessageOf(r) /\ v.number = match[r]
    IN  IF target[r].fragment /\ Item(r).status = "complete"
        THEN [WithMessage(r, rows) EXCEPT
                !.versions = (@ \ {old}) \cup {[old EXCEPT !.status = "reconciled"]},
                !.status = [@ EXCEPT ![MessageOf(r)] =
                               IF target[r].status = "complete"
                               THEN rows.status[MessageOf(r)] ELSE "complete"]]
        ELSE WithMessage(r, rows)

\* The rest of ingest_message, which waits for nothing once it has the lock.
StoreItem(r) ==
    /\ stage[r] = "store"
    /\ LockFree(r)
    /\ ~Conflict(r)
    /\ lock' = r
    /\ draft' = Touched(r, IF match[r] = 0 THEN AppendVersion(r, View(r))
                           ELSE ReuseVersion(r, View(r)))
    /\ Answer(r)
    /\ NextItem(r)
    /\ UNCHANGED <<db, claims, mine, faults>>

\* IntegrityError: the savepoint is rolled back, the item is "retryable".
StoreConflicts(r) ==
    /\ stage[r] = "store"
    /\ LockFree(r)
    /\ Conflict(r)
    /\ RollBackItem(r)
    /\ UNCHANGED faults

\* Any other error inside the item: the same.
ItemFails(r) ==
    /\ Fault
    /\ stage[r] \notin {"new", "commit", "done", "failed"}
    /\ RollBackItem(r)

\* q has the row and waits for r's key, r waits for the row: PostgreSQL makes one
\* of them fail.
Deadlocked(r, q) ==
    /\ r # q /\ lock = q
    /\ stage[r] \in {"create", "store", "touch"}
    /\ stage[q] = "claim" /\ Item(q).key \in mine[r]

Victim(r, q) ==
    /\ Deadlocked(r, q) \/ Deadlocked(q, r)
    /\ RollBackItem(r)
    /\ UNCHANGED faults

-----------------------------------------------------------------------------
RequestStep(r) ==
    \/ Begin(r) \/ RejectItem(r) \/ LoadConversation(r) \/ CreateConversation(r) \/ ClaimKey(r)
    \/ FindBySource(r) \/ FindByFingerprint(r) \/ FindByContent(r) \/ LookForVersion(r)
    \/ TouchConversation(r) \/ StoreItem(r) \/ StoreConflicts(r) \/ Commit(r)

Next ==
    \E r \in Request :
        \/ RequestStep(r)
        \/ Crash(r) \/ Resend(r) \/ ItemFails(r)
        \/ \E q \in Request : Victim(r, q)

Spec == Init /\ [][Next]_vars

-----------------------------------------------------------------------------
(* Properties *)

\* The browser never gets a conversation marked COMPLIANCE_VERIFIED: committed
\* ranks are below it.
TypeOK ==
    /\ db \in Rows /\ draft \in Rows
    /\ db.rank < ComplianceVerified /\ draft.rank < ComplianceVerified
    /\ lock \in Request \cup {None}
    /\ claims \subseteq Key
    /\ mine \in [Request -> SUBSET Key]
    /\ stage \in [Request -> Stage]
    /\ index \in [Request -> Nat \ {0}]
    /\ held \in [Request -> BOOLEAN]
    /\ seen \in [Request -> [rank : Rank, count : Nat]]
    /\ target \in [Request -> Target]
    /\ match \in [Request -> Nat]
    /\ answered \in [Request -> SUBSET Payload]
    /\ faults \in 0 .. MaxFaults

\* Keys of payloads whose sender does not say whether the text is complete.
Undecided == {k \in Key : \E r \in Request : \E i \in 1 .. Len(BatchOf[r]) :
                 BatchOf[r][i].key = k /\ BatchOf[r][i].status \notin {"partial", "complete"}}

\* R has such a version of message m, and one that was sent as complete.
Doubtful(R, m) == \E v \in R.versions : v.message = m /\ v.key \in Undecided
Finished(R, m) == \E v \in R.versions : v.message = m /\ v.status = "complete"

\* What the unique indexes and the writes of ingest make of the rows.
RowsSound(R) ==
    /\ \A v \in R.versions : v.message \in R.messages
    /\ \A m \in R.messages :
          /\ {v.number : v \in {w \in R.versions : w.message = m}} = 1 .. R.versionCount[m]
          /\ R.current[m] \in 1 .. R.versionCount[m]
          /\ R.status[m] \in {"partial", "complete"} \/ Doubtful(R, m)
          /\ Finished(R, m) => R.status[m] = "complete"
    /\ \A v, w \in R.versions : v.message = w.message /\ v.number = w.number => v = w
    /\ \A v, w \in R.versions : v.key = w.key => v = w

\* The version is in R, maybe promoted.
Persists(v, R) ==
    \E w \in R.versions : /\ w.message = v.message /\ w.number = v.number
                          /\ w.content = v.content /\ w.key = v.key

\* What requests add keeps what they have found.  A message stops being complete
\* only with a new version and a doubtful one: a status that was decided before the
\* message became complete overwrites it.
Extends(A, B) ==
    /\ A.exists => B.exists
    /\ \A m \in A.messages : /\ m \in B.messages
                             /\ A.versionCount[m] <= B.versionCount[m]
                             /\ A.status[m] = "complete" =>
                                   \/ B.status[m] = "complete"
                                   \/ A.versionCount[m] # B.versionCount[m] /\ Doubtful(B, m)
                             /\ A.versionCount[m] = B.versionCount[m] /\ Finished(B, m)
                                   => Finished(A, m)
    /\ \A v \in A.versions : Persists(v, B)

\* The committed rows and those of the request that has the lock.
RowsKept ==
    /\ RowsSound(db) /\ RowsSound(draft)
    /\ lock # None => draft.exists /\ Extends(db, draft)
    /\ \A v \in db.versions : v.key \in claims
    /\ \A r \in Request : lock = r => \A v \in draft.versions : v.key \in claims \cup mine[r]

\* A key has one owner.
KeysOwned ==
    \A r \in Request : /\ mine[r] \cap claims = {}
                       /\ \A q \in Request \ {r} : mine[r] \cap mine[q] = {}

\* Between the claim of its key and its flush an item is searched for.
Searching == {"by_source", "by_print", "by_content", "version", "store"}

\* Where request r stands in its batch and in its transaction.
FrameSound(r) ==
    /\ index[r] \in 1 .. Len(BatchOf[r]) + 1
    /\ stage[r] # "commit" => index[r] <= Len(BatchOf[r])
    /\ stage[r] \in {"new", "done", "failed"} => mine[r] = {} /\ lock # r
    /\ held[r] => lock = r
    /\ stage[r] = "create" => lock # r
    /\ \/ stage[r] \in Searching \cup {"touch"}
       \/ stage[r] = "claim" /\ r \notin Upsert
       => View(r).exists
    /\ r \in Upsert => stage[r] \notin Searching
    /\ stage[r] = "touch" /\ r \notin Upsert => Item(r).key \in claims \cup mine[r]
    /\ \A k \in mine[r] : \E i \in 1 .. Len(BatchOf[r]) : k = BatchOf[r][i].key

\* What r has found is still there when r writes, with the counts it loaded or
\* higher ones; as long as nobody has added a version, what r knows of the status
\* is good enough.  The key it has claimed is in no version yet.
TargetSound(r) ==
    /\ stage[r] \notin {"version", "store"} => target[r] = NoTarget
    /\ stage[r] # "store" => match[r] = 0
    /\ stage[r] = "version" => target[r].message # None
    /\ target[r].message = None => target[r] = NoTarget /\ match[r] = 0
    /\ target[r].message # None =>
          /\ target[r].message \in View(r).messages
          /\ target[r].count <= View(r).versionCount[target[r].message]
          /\ target[r].status \in {"partial", "complete"} \/ Doubtful(View(r), target[r].message)
          /\ target[r].count = View(r).versionCount[target[r].message] =>
                /\ target[r].status = "complete" => View(r).status[target[r].message] = "complete"
                /\ Finished(View(r), target[r].message) => target[r].status = "complete"
    /\ match[r] # 0 =>
          \E v \in View(r).versions : /\ v.message = target[r].message /\ v.number = match[r]
                                      /\ v.content = Item(r).content
    /\ stage[r] \in Searching => /\ Item(r).key \in mine[r]
                                 /\ \A v \in View(r).versions : v.key # Item(r).key

Archived(p, R) == \E v \in R.versions : v.content = p.content

\* What r falls back to if its item's savepoint is rolled back.
Base(r) == IF held[r] THEN draft ELSE db

\* A committed key of a message stands for a message in the archive.
ClaimsStand ==
    \A q \in Request \ Upsert : \A i \in 1 .. Len(BatchOf[q]) :
        BatchOf[q][i].key \in claims => Archived(BatchOf[q][i], db)

\* So does a claimed one, unless its item is under way, and so does an answer.
AnswersKept(r) ==
    /\ \A q \in Request \ Upsert : \A i \in 1 .. Len(BatchOf[q]) :
          BatchOf[q][i].key \in mine[r] =>
              \/ Archived(BatchOf[q][i], Base(r))
              \/ stage[r] \in Searching /\ BatchOf[q][i].key = Item(r).key
    /\ r \notin Upsert => \A p \in answered[r] : Archived(p, Base(r))

RequestsSound == \A r \in Request : FrameSound(r) /\ TargetSound(r) /\ AnswersKept(r)

\* "UNIQUE(message_id, version_number) keep the ordering honest"
\* (CODEBASE_WALKTHROUGH.md:107): the versions of a message are numbered 1 to
\* version_count without a gap, whatever stale counts requests computed with.
VersionsNumbered ==
    \A m \in db.messages :
        /\ {v.number : v \in {w \in db.versions : w.message = m}} = 1 .. db.versionCount[m]
        /\ db.current[m] \in 1 .. db.versionCount[m]
        /\ \A v, w \in db.versions :
              v.message = m /\ w.message = m /\ v.number = w.number => v = w

\* A payload is stored at most once, however often and however concurrently its
\* batch is sent and wherever the capture placed it ("an offline retry produces
\* the same key and the backend recognises the replay", shared/util.ts:44).
StoredOnce == \A v, w \in db.versions : v.key = w.key => v = w

\* What a committed request has answered "accepted" or "duplicate" is in the
\* archive: no rolled back savepoint leaves a claim that later hides a message.
AnsweredStored ==
    \A r \in Request \ Upsert : stage[r] = "done" =>
        \A p \in answered[r] : \E v \in db.versions : v.content = p.content

\* A message with a complete version is complete itself, whatever statuses are sent
\* and however stale the one a request decides on: the message that reconcile_partial
\* looks for (handlers.py:268-286) is never in the archive.
NothingToReconcile ==
    \A v \in db.versions : v.status = "complete" => db.status[v.message] = "complete"

=============================================================================
