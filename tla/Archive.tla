-------------------------------- MODULE Archive --------------------------------
(***************************************************************************)
(* What ingest promises of a conversation, without transactions, locks and *)
(* retries: every message has a history of texts that only grows, each     *)
(* text was sent under an idempotency key that nobody had used before, no  *)
(* message says the same thing twice, and a complete message stays         *)
(* complete unless a sender adds a version without saying whether it is.   *)
(* Ingest implements it (IngestArchive).                                   *)
(***************************************************************************)
EXTENDS Integers, Sequences

CONSTANTS
    Message,   \* what identifies a message
    Text,      \* what a version of it says
    Key,       \* idempotency keys
    Undecided  \* those of versions sent as neither partial nor complete

VARIABLES
    history,   \* the versions of every message, oldest first
    known,     \* the keys the server answers "duplicate"
    complete   \* messages the client need not send again

vars == <<history, known, complete>>

Entry == [text : Text, key : Key]

Init ==
    /\ history = [m \in Message |-> << >>]
    /\ known = {}
    /\ complete = {}

\* h is older, or as old.
Continues(h, g) == Len(h) <= Len(g) /\ \A n \in 1 .. Len(h) : g[n] = h[n]

\* A request commits: what it adds comes after what is there, under keys of its
\* own, one for each version.
Store ==
    /\ known \subseteq known' /\ known' \subseteq Key
    /\ history' \in [Message -> Seq(Entry)]
    /\ \A m \in Message :
          /\ Continues(history[m], history'[m])
          /\ \A n \in 1 .. Len(history'[m]) \ 1 .. Len(history[m]) :
                /\ history'[m][n].key \in known' \ known
                /\ \A i \in 1 .. n - 1 : history'[m][i].text # history'[m][n].text
                /\ \A o \in Message : \A i \in 1 .. Len(history'[o]) :
                      history'[o][i].key = history'[m][n].key => o = m /\ i = n
    /\ \A m \in complete \ complete' :
          /\ Len(history[m]) < Len(history'[m])
          /\ \E n \in 1 .. Len(history'[m]) : history'[m][n].key \in Undecided
    /\ complete' \subseteq {m \in Message : history'[m] # << >>}

Spec == Init /\ [][Store]_vars

=============================================================================
