----------------------------- MODULE IngestArchive -----------------------------
(***************************************************************************)
(* Ingest implements Archive: the history of a message is its committed    *)
(* versions by their number, whatever the requests under way have read,    *)
(* claimed or written.                                                     *)
(***************************************************************************)
EXTENDS Ingest

\* How many versions the rows R have of message m, and the n-th of them.
Depth(R, m) == IF m \in R.messages THEN R.versionCount[m] ELSE 0

VersionAt(R, m, n) == CHOOSE v \in R.versions : v.message = m /\ v.number = n

History(R) ==
    [m \in Fingerprint |->
        [n \in 1 .. Depth(R, m) |-> [text |-> VersionAt(R, m, n).content,
                                     key  |-> VersionAt(R, m, n).key]]]

Complete(R) == {m \in R.messages : R.status[m] = "complete"}

Arch == INSTANCE Archive WITH
    Message <- Fingerprint, Text <- Content,
    history <- History(db), known <- claims, complete <- Complete(db)

\* "message_versions is append-only and nothing is ever overwritten"
\* (CODEBASE_WALKTHROUGH.md:107): seen from outside, requests that overlap, fail
\* half way and are sent again only ever append.  No committed version is lost,
\* renumbered or rewritten, a new one has a key nobody used before and a text its
\* message has not, and no complete message turns partial again, except one with a
\* version sent as "unknown" or "reconciled" (ingest.py:704 decides on a stale status).
RefinesArchive == Arch!Spec

-----------------------------------------------------------------------------
(* What the mapping rests on, beyond the invariants of Ingest *)

\* No message of R says the same thing twice.
NoRepeats(R) == \A v, w \in R.versions : v.message = w.message /\ v.content = w.content => v = w

\* What a request adds has keys that only it has claimed.
HistoryKept ==
    /\ NoRepeats(db) /\ NoRepeats(draft)
    /\ \A r \in Request : lock = r => \A v \in draft.versions : v.key \in mine[r] \/ Persists(v, db)

=============================================================================
