---------------------------- MODULE ComplianceSync ----------------------------
(***************************************************************************)
(* The compliance feed: the poller that collects upstream events           *)
(* (workers/compliance_poller.py, services/compliance_import.py) and the   *)
(* compliance_sync job that folds them into conversations.                 *)
(*                                                                         *)
(* A polling cycle is ONE transaction, open across every page request and  *)
(* every S3 write, and its errors are caught INSIDE session_scope: what a  *)
(* failed cycle has written so far is committed.  S3 objects are not part  *)
(* of the transaction.                                                     *)
(*                                                                         *)
(* The upstream log is external.  It numbers its events as they appear; a  *)
(* cursor is a position in it; since and until bound the event times.      *)
(***************************************************************************)
EXTENDS Integers, FiniteSets, FiniteSetsExt

CONSTANTS
    NumEvents,      \* bound: events that ever appear upstream
    Backlog,        \* how many of them are in the log when the poller first starts
    Conversation,
    ConversationOf, \* event.conversation_id
    Deletion,       \* the events with is_deletion
    Overlap,        \* COMPLIANCE_OVERLAP_SECONDS
    Lateness,       \* how late an event may appear upstream
    PageSize,       \* COMPLIANCE_PAGE_SIZE
    MaxPages,       \* COMPLIANCE_MAX_PAGES_PER_CYCLE
    ImportLimit,    \* the limit of import_pending_source_events
    MaxTime,        \* bound: the clock
    MaxFaults       \* bound: upstream and storage errors, crashes

Event == 1 .. NumEvents

ASSUME ComplianceAssumption ==
    /\ NumEvents \in Nat /\ Backlog \in 0 .. NumEvents
    /\ ConversationOf \in [Event -> Conversation]
    /\ Deletion \subseteq Event
    /\ Overlap \in Nat /\ Lateness \in Nat
    /\ PageSize \in Nat \ {0} /\ MaxPages \in Nat \ {0} /\ ImportLimit \in Nat \ {0}
    /\ MaxTime \in Nat /\ MaxFaults \in Nat

VARIABLES
    now,
    visible,      \* the events 1 .. visible are in the upstream log
    eventTime,    \* event.event_time
    windowStart,  \* sync_checkpoints.window_start
    cursor,       \* sync_checkpoints.cursor_value, 0 for NULL
    keys,         \* source_event_keys
    rows,         \* source_events
    processed,    \* source_events with processed_at
    objects,      \* the raw events in S3
    job,          \* the live compliance_sync job
    pc,           \* where the poller stands in its cycle
    until,        \* the cycle's window_end
    position,     \* the cycle's cursor
    more,         \* has_more of the page it fetched last
    pages,        \* pages fetched in this cycle
    page,         \* the events of the page it has still to persist
    newKeys, newRows, \* what the cycle's open transaction has inserted
    known,        \* history: how much of the log there was when the cycle began
    reading,      \* the rows the running job has selected
    sponsored,    \* history: rows whose own cycle inserted the job
    damaged,      \* history: events whose key was claimed by a cycle that failed to store them
    left,         \* history: events a cycle that ended at its page limit moved past
    overtaken,    \* history: rows left by a job that imported its full limit
    conversations, tombstones, \* imported conversations, those marked upstream_deleted
    faults

upstream  == <<visible, eventTime>>
cycleVars == <<pc, until, position, more, pages, page, newKeys, newRows, known>>
storeVars == <<keys, rows>>
history   == <<sponsored, damaged, left, overtaken>>
jobVars   == <<job, reading, processed, conversations, tombstones>>
vars == <<now, visible, eventTime, windowStart, cursor, keys, rows, processed, objects, job, pc,
          until, position, more, pages, page, newKeys, newRows, known, reading, sponsored,
          damaged, left, overtaken, conversations, tombstones, faults>>

\* The first start: get_or_create_checkpoint opens the window one day back.
Init ==
    /\ now = 0 /\ visible = Backlog /\ eventTime = [e \in Event |-> 0]
    /\ windowStart = 0 /\ cursor = 0
    /\ keys = {} /\ rows = {} /\ processed = {} /\ objects = {}
    /\ job = "none" /\ reading = {} /\ sponsored = {} /\ damaged = {} /\ left = {}
    /\ overtaken = {}
    /\ conversations = {} /\ tombstones = {}
    /\ pc = "idle" /\ until = 0 /\ position = 0 /\ more = FALSE /\ pages = 0 /\ page = {}
    /\ newKeys = {} /\ newRows = {} /\ known = 0
    /\ faults = 0

Fault == faults < MaxFaults /\ faults' = faults + 1

-----------------------------------------------------------------------------
(* Upstream *)

Tick ==
    /\ now < MaxTime
    /\ now' = now + 1
    /\ UNCHANGED <<upstream, windowStart, cursor, storeVars, objects, jobVars, cycleVars,
                   history, faults>>

\* The next event appears in the log, with the time it happened at.
Appear(t) ==
    /\ visible < NumEvents
    /\ t >= now - Lateness
    /\ visible' = visible + 1
    /\ eventTime' = [eventTime EXCEPT ![visible + 1] = t]
    /\ UNCHANGED <<now, windowStart, cursor, storeVars, objects, jobVars, cycleVars, history,
                   faults>>

-----------------------------------------------------------------------------
(* CompliancePoller.run_cycle *)

StartCycle ==
    /\ pc = "idle"
    /\ pc' = "fetching"
    /\ until' = now /\ position' = cursor
    /\ more' = FALSE /\ pages' = 0
    /\ known' = visible
    /\ UNCHANGED <<now, upstream, windowStart, cursor, storeVars, objects, jobVars, page, newKeys,
                   newRows, history, faults>>

\* Mutant: the window is not overlapped.
Since_NoOverlap == windowStart

\* The cycle's window_start.
Since == windowStart - Overlap

\* What the upstream log has for the cycle's window after its cursor.
Answer == {e \in 1 .. visible : e > position /\ eventTime[e] \in Since .. until}

\* Mutant: every page is taken for the last one.
HasMore_Never(P) == FALSE

\* has_more of page P.
HasMore(P) == P # Answer

\* No page is left, or the cycle's limit is reached.
LastPage == ~more \/ pages >= MaxPages

FetchPage ==
    /\ pc = "fetching"
    /\ LET P == {e \in Answer : Cardinality({f \in Answer : f < e}) < PageSize}
       IN  /\ page' = P
           /\ more' = HasMore(P)
           /\ position' = IF P = {} THEN position ELSE Max(P)
    /\ pages' = pages + 1
    /\ pc' = "persisting"
    /\ UNCHANGED <<now, upstream, windowStart, cursor, storeVars, objects, jobVars, until,
                   newKeys, newRows, known, history, faults>>

\* The claim of the event's key conflicts: persist_event returns False.
AlreadyImported(e) == e \in keys \cup newKeys

\* persist_event: claim the key, write the raw event to S3, insert the row.
PersistEvent(e) ==
    /\ pc = "persisting"
    /\ page # {} /\ e = Min(page)
    /\ page' = page \ {e}
    /\ IF AlreadyImported(e)
       THEN UNCHANGED <<newKeys, newRows, objects>>
       ELSE /\ newKeys' = newKeys \cup {e}
            /\ objects' = objects \cup {e}
            /\ newRows' = newRows \cup {e}
    /\ UNCHANGED <<now, upstream, windowStart, cursor, storeVars, jobVars, pc, until, position,
                   more, pages, known, history, faults>>

NextPage ==
    /\ pc = "persisting"
    /\ page = {}
    /\ ~LastPage
    /\ pc' = "fetching"
    /\ UNCHANGED <<now, upstream, windowStart, cursor, storeVars, objects, jobVars, until,
                   position, more, pages, page, newKeys, newRows, known, history, faults>>

\* The poller sleeps until its next cycle.
EndCycle ==
    /\ pc' = "idle" /\ page' = {} /\ newKeys' = {} /\ newRows' = {}
    /\ until' = 0 /\ position' = 0 /\ more' = FALSE /\ pages' = 0 /\ known' = 0

\* What is in the log, before the cycle's cursor or window_end, and was not claimed.
Unclaimed ==
    {e \in 1 .. visible : e <= position \/ eventTime[e] <= until} \ (keys \cup newKeys)

\* advance_checkpoint, enqueue_job if the cycle brought new events, and commit.
\* A cycle that ends at its page limit moves the window too, and keeps the cursor.
Advance ==
    /\ pc = "persisting"
    /\ page = {}
    /\ LastPage
    /\ windowStart' = until
    /\ cursor' = IF more THEN position ELSE 0
    /\ left' = IF more THEN left \cup Unclaimed ELSE left
    /\ keys' = keys \cup newKeys /\ rows' = rows \cup newRows
    /\ IF newRows # {} /\ job = "none"
       THEN job' = "pending" /\ sponsored' = sponsored \cup newRows
       ELSE UNCHANGED <<job, sponsored>>
    /\ EndCycle
    /\ UNCHANGED <<now, upstream, objects, reading, processed, conversations, tombstones, damaged,
                   overtaken, faults>>

\* Mutant: the checkpoint is advanced although the cycle failed.
WindowAfterFailure_Advanced == until

\* record_checkpoint_failure leaves the window where it is.
WindowAfterFailure == windowStart

\* The exception handler of run_cycle: session_scope commits what the cycle has
\* inserted so far, K and all; no job is queued.
FailCycle(K) ==
    /\ Fault
    /\ windowStart' = WindowAfterFailure
    /\ keys' = keys \cup newKeys \cup K /\ rows' = rows \cup newRows
    /\ EndCycle
    /\ damaged' = damaged \cup K
    /\ UNCHANGED <<now, upstream, cursor, jobVars, sponsored, left, overtaken>>

\* fetch_log_page gives up after its retries.
FetchFails == pc = "fetching" /\ FailCycle({}) /\ UNCHANGED objects

\* put_json raises, before or after S3 stored the object: the key is claimed.
StorageError(e) ==
    /\ pc = "persisting"
    /\ page # {} /\ e = Min(page) /\ ~AlreadyImported(e)
    /\ FailCycle({e})
    /\ objects' \in {objects, objects \cup {e}}

\* The process dies, or a database error ends it: everything is rolled back.
PollerDies ==
    /\ Fault
    /\ pc # "idle"
    /\ EndCycle
    /\ UNCHANGED <<now, upstream, windowStart, cursor, storeVars, objects, jobVars, history>>

-----------------------------------------------------------------------------
(* The compliance_sync job: import_pending_source_events *)

Pending == rows \ processed

\* The unprocessed rows that come before e by event time.
Earlier(e) ==
    {f \in Pending : eventTime[f] < eventTime[e] \/ (eventTime[f] = eventTime[e] /\ f < e)}

\* Mutant: the query stops one row early.
Oldest_Short == {e \in Pending : Cardinality(Earlier(e)) < ImportLimit - 1}

\* The first ImportLimit unprocessed rows.
Oldest == {e \in Pending : Cardinality(Earlier(e)) < ImportLimit}

ReadPending ==
    /\ job = "pending"
    /\ job' = "running"
    /\ reading' = Oldest
    /\ UNCHANGED <<now, upstream, windowStart, cursor, storeVars, objects, processed,
                   conversations, tombstones, cycleVars, history, faults>>

\* Two rows of one conversation that has no row yet: the session does not
\* autoflush, so the SELECT for the second misses the first's INSERT, and the
\* flush breaks uq_conversations_org_workspace_source.
CreatedTwice ==
    \E e, f \in reading : /\ e # f
                          /\ ConversationOf[e] = ConversationOf[f]
                          /\ ConversationOf[e] \notin conversations

\* Deletions become tombstones, of unknown conversations too.
Tombstoned == {ConversationOf[e] : e \in reading \cap Deletion}

\* What a job that took its full limit leaves: it queues no further job.
Overtaken == IF Cardinality(reading) < ImportLimit THEN {} ELSE Pending \ reading

\* The handler's writes and complete_job commit.
CommitImport ==
    /\ job = "running"
    /\ ~CreatedTwice
    /\ processed' = processed \cup reading
    /\ conversations' = conversations \cup {ConversationOf[e] : e \in reading}
    /\ tombstones' = tombstones \cup Tombstoned
    /\ reading' = {} /\ job' = "none"
    /\ overtaken' = overtaken \cup Overtaken
    /\ UNCHANGED <<now, upstream, windowStart, cursor, storeVars, objects, cycleVars, sponsored,
                   damaged, left, faults>>

\* The job is rolled back.
RollBack ==
    /\ job = "running"
    /\ reading' = {}
    /\ UNCHANGED <<now, upstream, windowStart, cursor, storeVars, objects, processed,
                   conversations, tombstones, cycleVars, history>>

\* fail_job: it is tried again, until it has used up its attempts.
ImportConflicts ==
    /\ CreatedTwice
    /\ RollBack
    /\ job' \in {"pending", "none"}
    /\ UNCHANGED faults

\* Another failure or a crash; there are fewer of them than attempts.
ImportFails == Fault /\ RollBack /\ job' = "pending"

-----------------------------------------------------------------------------
CycleStep ==
    \/ StartCycle \/ FetchPage \/ NextPage \/ Advance
    \/ \E e \in page : PersistEvent(e)

ImportStep == ReadPending \/ CommitImport \/ ImportConflicts

Next ==
    \/ Tick
    \/ \E t \in 0 .. now : Appear(t)
    \/ CycleStep
    \/ FetchFails \/ PollerDies
    \/ \E e \in page : StorageError(e)
    \/ ImportStep \/ ImportFails

Spec == Init /\ [][Next]_vars

\* The poller keeps polling, the container is restarted when it dies, and a
\* worker runs the job.  Nothing has to appear upstream.
Fairness == WF_vars(CycleStep) /\ WF_vars(ImportStep)

FairSpec == Spec /\ Fairness

-----------------------------------------------------------------------------
(* Properties *)

TypeOK ==
    /\ now \in 0 .. MaxTime /\ visible \in 0 .. NumEvents
    /\ eventTime \in [Event -> 0 .. MaxTime]
    /\ windowStart \in 0 .. MaxTime /\ cursor \in 0 .. NumEvents
    /\ keys \subseteq Event /\ rows \subseteq keys /\ processed \subseteq rows
    /\ objects \subseteq Event
    /\ job \in {"none", "pending", "running"} /\ reading \subseteq Pending
    /\ sponsored \subseteq rows /\ damaged \subseteq keys \ rows
    /\ left \subseteq Event /\ overtaken \subseteq rows
    /\ conversations \subseteq Conversation /\ tombstones \subseteq conversations
    /\ pc \in {"idle", "fetching", "persisting"}
    /\ until \in 0 .. MaxTime /\ position \in 0 .. NumEvents
    /\ more \in BOOLEAN /\ pages \in 0 .. MaxPages
    /\ page \subseteq Event
    /\ newKeys \subseteq Event \ keys /\ newRows \subseteq newKeys
    /\ known \in 0 .. NumEvents
    /\ faults \in 0 .. MaxFaults

Stored(e) == e \in rows /\ e \in objects

\* Everything claimed is stored, or was damaged; S3 is ahead of PostgreSQL.
ClaimsKept ==
    /\ keys = rows \cup damaged /\ newKeys = newRows
    /\ rows \cup newRows \subseteq objects
    /\ pc = "idle" => newKeys = {} /\ page = {}

\* Accounted for: claimed, or known to be left behind.
Accounted(e) == e \in keys \cup newKeys \cup left

\* How far the cycle has come: the log up to its position, and the log it found
\* once no page is left.  What has appeared since it began is not too late.
CycleSound ==
    /\ \A e \in 1 .. visible : e <= cursor => e \in keys \cup left
    /\ cursor <= visible /\ windowStart <= now
    /\ pc = "fetching" => pages < MaxPages /\ page = {}
    /\ pc # "idle" =>
          /\ until <= now /\ known <= visible /\ position <= visible
          /\ \A e \in 1 .. visible : e > known => eventTime[e] >= until - Lateness
          /\ \A e \in 1 .. visible : e <= position /\ eventTime[e] \in Since .. until
                                        => Accounted(e) \/ e \in page
    /\ pc = "persisting" /\ ~more =>
          \A e \in 1 .. known : eventTime[e] \in Since .. until => e <= position

\* "A crash causes reprocessing, never loss", and "an event that arrives slightly
\* late is still collected" (docs/COMPLIANCE_ADAPTER.md:64-67): an event that no
\* later window will cover is in PostgreSQL and in S3, unless a storage error
\* left its key claimed or a cycle at its page limit moved past it.
NothingSkipped ==
    \A e \in (1 .. visible) \ (damaged \cup left) :
        eventTime[e] < windowStart - Overlap => Stored(e)

\* window_start is "only advanced after every event in the window has been
\* persisted to PostgreSQL and S3" (models/events.py:194): every event of the
\* window that was in the log when the cycle began, with the same exceptions.
WindowStored ==
    [][windowStart' # windowStart =>
          \A e \in (1 .. known) \ (damaged \cup left') :
              eventTime[e] \in Since .. until => Stored(e)']_vars

\* Every event that appears upstream is eventually collected, whatever requests
\* fail and however late it appears, within the overlap; or a storage error left
\* its key claimed, or a cycle at its page limit moved past it.
Collected == \A e \in Event : e <= visible ~> Stored(e) \/ e \in damaged \cup left

\* Two unprocessed events of one conversation that is not archived yet.
Blocked ==
    \E e, f \in Pending : /\ e # f
                          /\ ConversationOf[e] = ConversationOf[f]
                          /\ ConversationOf[e] \notin conversations

\* The rows of a cycle that inserted the compliance_sync job itself are
\* eventually folded into the conversation model, unless a job with its full
\* limit of rows left them behind, or a pair of events of one new conversation
\* blocks the import for good.
SponsoredImported ==
    \A e \in Event : e \in sponsored ~> (e \in processed \cup overtaken \/ []Blocked)

=============================================================================
