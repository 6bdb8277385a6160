------------------------------ MODULE Governance ------------------------------
(***************************************************************************)
(* Who may take a conversation away, and who may hand it out: the          *)
(* retention sweep (services/retention.py), legal holds and exports        *)
(* (services/exports.py) over the same rows.                               *)
(*                                                                         *)
(* The sweep and a hold are transactions of several statements.  Each      *)
(* UPDATE sees what is committed when it runs, waits for the rows another  *)
(* open transaction has updated, and locks its own until the commit (READ  *)
(* COMMITTED).  An export is one long transaction that only reads rows,    *)
(* so every statement of it sees what is committed by then; what it writes *)
(* to S3 is not undone when it fails.                                      *)
(***************************************************************************)
EXTENDS Integers, FiniteSets, Sequences

CONSTANTS
    Conversation,
    Message,
    ConvOf,        \* the conversation of a message
    Hold,          \* calls of apply_legal_hold
    ScopeOf,       \* conversation_ids of such a call
    Kind,          \* the kind of the export
    Splits,        \* the names of split_ratios, sorted
    SplitOf,       \* split_for_conversation
    MaxSweeps,     \* bound: retention_sweep jobs
    MaxReviews,    \* bound: changes of a training approval
    MaxFaults      \* bound: crashes and S3 errors

ASSUME GovernanceAssumption ==
    /\ Conversation \cap Message = {}
    /\ ConvOf \in [Message -> Conversation]
    /\ ScopeOf \in [Hold -> SUBSET Conversation]
    /\ Kind \in {"curated_training_jsonl", "compliance_extract", "legal_hold_bundle"}
    /\ SplitOf \in [Conversation -> {Splits[n] : n \in DOMAIN Splits}]
    /\ MaxSweeps \in Nat /\ MaxReviews \in Nat /\ MaxFaults \in Nat

VARIABLES
    stored,     \* messages ingested so far
    held,       \* rows with legal_hold (conversations and messages)
    deleted,    \* rows with deleted_at
    erased,     \* messages whose version has deleted_at
    purged,     \* conversations physically deleted, with all that hangs off them
    old,        \* conversations past retain_days
    graceOver,  \* conversations past grace_days since their soft delete
    approved,   \* conversations with an approved training_approvals row
    sweep,      \* the retention_sweep job
    sweeps,
    hold,       \* the apply_legal_hold transactions
    export,     \* the exports row and its run_export job
    objects,    \* the export's part objects, by key
    eligible,   \* history: what the export's last attempt found eligible
    reviews, faults

rowVars == <<stored, held, deleted, erased, purged, old, graceOver, approved>>
vars == <<rowVars, sweep, sweeps, hold, export, objects, eligible, reviews, faults>>

Row == Conversation \cup Message

MessagesOf(C) == {m \in stored : ConvOf[m] \in C}

NoSweep == [pc |-> "idle", ids |-> {}, deletes |-> {}, erases |-> {}, purges |-> {}]

\* An export between two attempts: the job of one that is pending or failed runs.
Attempt(status) ==
    [status |-> status, pc |-> "queued", todo |-> {}, records |-> {}, written |-> <<>>,
     parts |-> <<>>]

\* Empty conversations, approved for training.
Init ==
    /\ stored = {} /\ held = {} /\ deleted = {} /\ erased = {} /\ purged = {}
    /\ old = {} /\ graceOver = {} /\ approved = Conversation
    /\ sweep = NoSweep /\ sweeps = 0
    /\ hold = [h \in Hold |-> [pc |-> "asked", step |-> 1, rows |-> {}]]
    /\ export = Attempt("pending")
    /\ objects = << >> /\ eligible = {} /\ reviews = 0 /\ faults = 0

Fault == faults < MaxFaults /\ faults' = faults + 1

\* The rows that open transactions of these holds have updated.
LockedBy(holds) == UNION {hold[h].rows : h \in {h \in holds : hold[h].pc = "open"}}

-----------------------------------------------------------------------------
(* The world around *)

\* Ingest (module Ingest) stores a message and updates its conversation,
\* deleted or not; the new row is not held.
IngestMessage(m) ==
    /\ m \notin stored /\ ConvOf[m] \notin purged
    /\ ConvOf[m] \notin LockedBy(Hold) \cup sweep.deletes \cup sweep.purges
    /\ stored' = stored \cup {m}
    /\ UNCHANGED <<held, deleted, erased, purged, old, graceOver, approved, sweep, sweeps,
                   hold, export, objects, eligible, reviews, faults>>

TimePasses(c) ==
    /\ \/ c \notin old /\ old' = old \cup {c} /\ UNCHANGED graceOver
       \/ c \in deleted \ graceOver /\ graceOver' = graceOver \cup {c} /\ UNCHANGED old
    /\ UNCHANGED <<stored, held, deleted, erased, purged, approved, sweep, sweeps,
                   hold, export, objects, eligible, reviews, faults>>

\* A reviewer approves a conversation or withdraws the approval.
Review(c) ==
    /\ reviews < MaxReviews /\ c \notin purged
    /\ reviews' = reviews + 1
    /\ approved' = IF c \in approved THEN approved \ {c} ELSE approved \cup {c}
    /\ UNCHANGED <<stored, held, deleted, erased, purged, old, graceOver, sweep, sweeps,
                   hold, export, objects, eligible, faults>>

-----------------------------------------------------------------------------
(* retention_sweep *)

\* The rows an UPDATE of the sweep changes: "AND legal_hold IS false".
Unheld(rows) == rows \ held

\* Mutant: a schema without the constraint.
CheckViolated_Missing(heldRows, deletedRows) == FALSE

\* CHECK legal_hold_blocks_soft_delete.
CheckViolated(heldRows, deletedRows) == heldRows \cap deletedRows # {}

SweepSelect ==
    /\ sweep.pc = "idle" /\ sweeps < MaxSweeps
    /\ sweeps' = sweeps + 1
    /\ LET ids == {c \in Conversation \ (purged \cup deleted \cup held) : c \in old}
       IN  sweep' = [NoSweep EXCEPT !.ids = ids,
                        !.pc = IF ids = {} THEN "purge select" ELSE "conversations"]
    /\ UNCHANGED <<rowVars, hold, export, objects, eligible, reviews, faults>>

\* One UPDATE of the sweep: the rows it matches, once they are free.  The
\* CHECK would roll the whole sweep back.
SweepUpdate(rows, next) ==
    LET hit == Unheld(rows)
    IN  /\ hit \cap LockedBy(Hold) = {}
        /\ IF CheckViolated(held, hit)
           THEN sweep' = NoSweep
           ELSE sweep' = [sweep EXCEPT !.deletes = @ \cup hit, !.pc = next]
        /\ UNCHANGED <<rowVars, sweeps, hold, export, objects, eligible, reviews, faults>>

SweepConversations == sweep.pc = "conversations" /\ SweepUpdate(sweep.ids, "messages")

SweepMessages == sweep.pc = "messages" /\ SweepUpdate(MessagesOf(sweep.ids), "versions")

\* The versions' own legal_hold, which nothing ever sets.
SweepVersions ==
    /\ sweep.pc = "versions"
    /\ sweep' = [sweep EXCEPT !.erases = MessagesOf(sweep.ids), !.pc = "purge select"]
    /\ UNCHANGED <<rowVars, sweeps, hold, export, objects, eligible, reviews, faults>>

\* Mutant: the SELECT does not compare deleted_at with the cutoff.
PurgeSelect_NoGrace ==
    /\ sweep.pc = "purge select"
    /\ sweep' = [sweep EXCEPT !.pc = "purge",
                    !.ids = {c \in (deleted \cap Conversation) \ purged : c \notin held}]
    /\ UNCHANGED <<rowVars, sweeps, hold, export, objects, eligible, reviews, faults>>

\* hard_delete_grace_expired of a hard_delete policy: the SELECT, the DELETE.
PurgeSelect ==
    /\ sweep.pc = "purge select"
    /\ sweep' = [sweep EXCEPT !.pc = "purge",
                    !.ids = {c \in (deleted \cap graceOver) \ purged : c \notin held}]
    /\ UNCHANGED <<rowVars, sweeps, hold, export, objects, eligible, reviews, faults>>

Purge ==
    /\ sweep.pc = "purge"
    /\ Unheld(sweep.ids) \cap LockedBy(Hold) = {}
    /\ sweep' = [sweep EXCEPT !.pc = "commit", !.purges = Unheld(sweep.ids)]
    /\ UNCHANGED <<rowVars, sweeps, hold, export, objects, eligible, reviews, faults>>

\* One commit for everything; the cascade takes messages, versions, approvals.
SweepCommit ==
    /\ sweep.pc = "commit"
    /\ LET gone == sweep.purges \cup MessagesOf(sweep.purges)
       IN  /\ deleted' = (deleted \cup sweep.deletes) \ gone
           /\ held' = held \ gone
           /\ erased' = (erased \cup sweep.erases) \ gone
           /\ stored' = stored \ gone
           /\ purged' = purged \cup sweep.purges
           /\ approved' = approved \ gone
    /\ sweep' = NoSweep
    /\ UNCHANGED <<old, graceOver, sweeps, hold, export, objects, eligible,
                   reviews, faults>>

\* The worker dies or the database fails: nothing of the sweep remains.
SweepFails ==
    /\ sweep.pc # "idle"
    /\ Fault
    /\ sweep' = NoSweep
    /\ UNCHANGED <<rowVars, sweeps, hold, export, objects, eligible, reviews>>

-----------------------------------------------------------------------------
(* apply_legal_hold *)

\* Mutant: messages first, the other way round than the sweep.
HoldTables_MessagesFirst == <<"messages", "conversations">>

\* The tables it updates, in this order.
HoldTables == <<"conversations", "messages">>

Scope(h, table) ==
    IF table = "conversations" THEN ScopeOf[h] \ purged ELSE MessagesOf(ScopeOf[h])

\* The next UPDATE ... SET legal_hold = true.
HoldUpdate(h) ==
    /\ hold[h].pc \in {"asked", "open"} /\ hold[h].step <= Len(HoldTables)
    /\ LET rows == Scope(h, HoldTables[hold[h].step])
       IN  /\ rows \cap (LockedBy(Hold \ {h}) \cup sweep.deletes \cup sweep.purges) = {}
           /\ hold' = [hold EXCEPT ![h] =
                 IF CheckViolated(rows, deleted)
                 THEN [pc |-> "failed", step |-> 1, rows |-> {}]
                 ELSE [pc |-> "open", step |-> @.step + 1, rows |-> @.rows \cup rows]]
    /\ UNCHANGED <<rowVars, sweep, sweeps, export, objects, eligible, reviews, faults>>

HoldCommit(h) ==
    /\ hold[h].pc = "open" /\ hold[h].step > Len(HoldTables)
    /\ held' = held \cup hold[h].rows
    /\ hold' = [hold EXCEPT ![h].pc = "done"]
    /\ UNCHANGED <<stored, deleted, erased, purged, old, graceOver, approved, sweep, sweeps,
                   export, objects, eligible, reviews, faults>>

-----------------------------------------------------------------------------
(* run_export *)

\* eligible_conversation_ids.  approved stands for: approved as a whole, without
\* secrets, and captured completely enough to vouch for.  The filters of the
\* request narrow the set further and are left out.
Eligible ==
    LET live == Conversation \ (purged \cup deleted)
    IN  CASE Kind = "legal_hold_bundle"      -> live
          [] Kind = "compliance_extract"     -> live \ held
          [] Kind = "curated_training_jsonl" -> (live \ held) \cap approved

\* handle_run_export starts an attempt: the ids are read once.
ExportSelect ==
    /\ export.pc = "queued" /\ export.status # "completed"
    /\ export' = [Attempt(export.status) EXCEPT !.pc = "build", !.todo = Eligible]
    /\ eligible' = Eligible
    /\ UNCHANGED <<rowVars, sweep, sweeps, hold, objects, reviews, faults>>

\* build_conversation_record: nothing for a conversation deleted meanwhile.
BuildRecord(c) ==
    /\ export.pc = "build" /\ c \in export.todo
    /\ export' = [export EXCEPT !.todo = @ \ {c},
           !.records = IF c \in purged \cup deleted THEN @
                       ELSE @ \cup {[conversation |-> c, turns |-> MessagesOf({c}) \ deleted]}]
    /\ UNCHANGED <<rowVars, sweep, sweeps, hold, objects, eligible, reviews, faults>>

\* The records of a split.
Bucket(split) == {r \in export.records : SplitOf[r.conversation] = split}

\* The splits with records, in order: one part each, numbered from 1.
Parts == SelectSeq(Splits, LAMBDA split : Bucket(split) # {})

\* Mutant: a part that is there already is not written again.
Put_IfAbsent(n, split) ==
    [key \in DOMAIN objects \cup {<<n, split>>} |->
        IF key \in DOMAIN objects THEN objects[key] ELSE Bucket(split)]

\* The objects after put_jsonl_gz of the part n of split.
Put(n, split) ==
    [key \in DOMAIN objects \cup {<<n, split>>} |->
        IF key = <<n, split>> THEN Bucket(split) ELSE objects[key]]

PutPart ==
    LET n == Len(export.written) + 1
    IN  /\ export.pc = "build" /\ export.todo = {} /\ n <= Len(Parts)
        /\ objects' = Put(n, Parts[n])
        /\ export' = [export EXCEPT !.written =
              Append(@, [key |-> <<n, Parts[n]>>, records |-> Bucket(Parts[n])])]
        /\ UNCHANGED <<rowVars, sweep, sweeps, hold, eligible, reviews, faults>>

\* The manifest is written and the row committed with the end of the job.
ExportCommit ==
    /\ export.pc = "build" /\ export.todo = {} /\ Len(export.written) = Len(Parts)
    /\ export' = [Attempt("completed") EXCEPT !.parts = export.written]
    /\ UNCHANGED <<rowVars, sweep, sweeps, hold, objects, eligible, reviews, faults>>

\* An S3 error marks the export failed; a crash leaves the row as it was.  The
\* job runs again, the objects written remain.
ExportFails ==
    /\ export.pc = "build"
    /\ Fault
    /\ \E status \in {"failed", export.status} : export' = Attempt(status)
    /\ UNCHANGED <<rowVars, sweep, sweeps, hold, objects, eligible, reviews>>

-----------------------------------------------------------------------------
SweepNext ==
    \/ SweepSelect
    \/ SweepConversations
    \/ SweepMessages
    \/ SweepVersions
    \/ PurgeSelect
    \/ Purge
    \/ SweepCommit

HoldNext(h) == HoldUpdate(h) \/ HoldCommit(h)

Next ==
    \/ \E m \in Message : IngestMessage(m)
    \/ \E c \in Conversation : TimePasses(c) \/ Review(c) \/ BuildRecord(c)
    \/ SweepNext
    \/ SweepFails
    \/ \E h \in Hold : HoldNext(h)
    \/ ExportSelect
    \/ PutPart
    \/ ExportCommit
    \/ ExportFails

Spec == Init /\ [][Next]_vars

\* PostgreSQL runs the statements of open transactions.
FairSpec == Spec /\ WF_vars(SweepNext) /\ \A h \in Hold : WF_vars(HoldNext(h))

-----------------------------------------------------------------------------
(* Properties *)

\* The rows of the two tables.
Present == (Conversation \ purged) \cup stored

\* Marks and approvals are on rows that exist, and every status is one of the
\* enumerations.
TypeOK ==
    /\ purged \subseteq Conversation /\ stored \subseteq Message
    /\ old \subseteq Conversation /\ graceOver \subseteq Conversation
    /\ held \subseteq Present /\ deleted \subseteq Present
    /\ erased \subseteq stored /\ approved \subseteq Conversation \ purged
    /\ sweep \in [pc : {"idle", "conversations", "messages", "versions", "purge select",
                        "purge", "commit"},
                  ids : SUBSET (Conversation \ purged), deletes : SUBSET Present,
                  erases : SUBSET stored, purges : SUBSET Conversation]
    /\ hold \in [Hold -> [pc : {"asked", "open", "done", "failed"}, step : 1..3,
                          rows : SUBSET Row]]

\* The cascade leaves no message of a purged conversation.
Cascaded == \A m \in stored : ConvOf[m] \notin purged

\* What the sweep is about to delete is neither held nor about to be.
SweepApart ==
    (sweep.deletes \cup sweep.purges) \cap (held \cup LockedBy(Hold)) = {}

\* A hold has marked rows that are not deleted, with each message its
\* conversation, and once past the first statement all its conversations.
HoldWhole ==
    \A h \in Hold :
        /\ hold[h].rows \cap deleted = {}
        /\ hold[h].rows \subseteq Present
        /\ \A m \in hold[h].rows \cap Message : ConvOf[m] \in hold[h].rows
        /\ hold[h].step > 1 => ScopeOf[h] \ purged \subseteq hold[h].rows
        /\ hold[h].pc = "done" => hold[h].rows \subseteq held
        /\ hold[h].pc \in {"asked", "failed"} => hold[h].rows = {}

\* What the sweep is about to do was due when it looked, and still is.
SweepDue ==
    /\ sweep.pc \in {"conversations", "messages", "versions"} => sweep.ids \subseteq old
    /\ sweep.pc = "purge" => sweep.ids \subseteq deleted \cap graceOver
    /\ sweep.deletes \cap Conversation \subseteq old
    /\ sweep.purges \subseteq deleted \cap graceOver

\* "Legal hold always wins": whatever an apply_legal_hold that succeeded has
\* marked, conversations and messages, is neither soft deleted nor purged
\* afterwards, however the sweep's statements fall around the hold's.
HeldKept ==
    \A h \in Hold : hold[h].pc = "done" =>
        hold[h].rows \cap (deleted \cup purged) = {} /\ hold[h].rows \subseteq held

\* "Two stages, always in this order" (docs/DATABASE.md:151): when a sweep commits,
\* however long after its SELECTs, what it soft deletes is past its retention and
\* not held, what it purges was soft deleted by an earlier sweep, is past its grace
\* period and not held, and a message goes with its conversation only.
TwoStages ==
    [][/\ (deleted' \ deleted) \cap held = {}
       /\ (deleted' \ deleted) \cap Conversation \subseteq old
       /\ purged' \ purged \subseteq (deleted \cap graceOver) \ held
       /\ \A m \in stored \ stored' : ConvOf[m] \in purged' \ purged]_vars

\* A completed export is what its manifest says: each part it lists is stored
\* under its key with the records counted, and each record is of a conversation
\* its own last attempt found eligible, whatever earlier attempts left behind.
ManifestMatches ==
    export.status = "completed" =>
        \A n \in DOMAIN export.parts :
            LET part == export.parts[n]
            IN  /\ part.key \in DOMAIN objects /\ objects[part.key] = part.records
                /\ \A r \in part.records : r.conversation \in eligible

\* A hold is decided: the sweep and other holds, which update conversations
\* before messages as it does, cannot block it for ever.
HoldDecided == \A h \in Hold : hold[h].pc = "open" ~> hold[h].pc \in {"done", "failed"}

=============================================================================
