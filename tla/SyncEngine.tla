------------------------------ MODULE SyncEngine ------------------------------
(***************************************************************************)
(* The extension's path from a captured batch to the backend: the bounded  *)
(* IndexedDB queue (modules/offline-queue.ts), the flush loop              *)
(* (background/sync-engine.ts), the error classes of modules/api-client.ts *)
(* and the session the service worker sends with (service-worker.ts).      *)
(*                                                                         *)
(* Everything runs on one thread, but every await is an interleaving       *)
(* point.  Several enqueues and flushes (alarm, online event, popup,       *)
(* capture) are in progress at once, and a flush works on COPIES of the    *)
(* items takeDue read.  Chrome may kill the service worker at any await:   *)
(* the store survives, everything in progress is gone.                     *)
(***************************************************************************)
EXTENDS Integers, FiniteSets, FiniteSetsExt

CONSTANTS
    Call,        \* calls of OfflineQueue.enqueue, one captured batch each
    Key, NoKey,  \* idempotency keys of batches; no key
    KeyOf,       \* the key of the batch a call enqueues
    Message,     \* captured messages
    MessagesOf,  \* the messages of a batch
    ByteSize,    \* byteSize of a batch
    Flusher,     \* flush() calls that may be in progress together
    boot,        \* the enforceLimits call of bootstrap()
    MaxItems, MaxBytes, MaxAttempts,  \* QueueLimits
    FlushLimit,  \* the limit of takeDue
    MaxFaults,   \* bound: worker deaths, items over age
    Conflicts,   \* may the server answer single messages with "retryable"?
    Expiry,      \* may the access token expire?
    Refusals     \* may the backend refuse it, with 401?

ASSUME SyncAssumption ==
    /\ IsFiniteSet(Call) /\ boot \notin Call /\ NoKey \notin Key
    /\ KeyOf \in [Call -> Key]
    /\ MessagesOf \in [Key -> SUBSET Message]
    /\ ByteSize \in [Key -> Nat]
    /\ MaxItems \in Nat /\ MaxBytes \in Nat
    /\ MaxAttempts \in Nat \ {0} /\ FlushLimit \in Nat \ {0}
    /\ MaxFaults \in Nat
    /\ Conflicts \in BOOLEAN /\ Expiry \in BOOLEAN /\ Refusals \in BOOLEAN

\* Items are numbered in the order of (createdAt, seq).
Id == 1 .. Cardinality(Call)

VARIABLES
    store,     \* the ids of the items in IndexedDB
    key,       \* item.idempotencyKey; the payload goes with it
    attempts,  \* item.attempts of a stored item
    due,       \* stored items with nextAttemptAt <= now
    created,   \* items made so far
    stage,     \* where a call of enqueue stands
    item,      \* the item a call made, 0 before that
    doomed,    \* what an enforceLimits in progress has decided to delete
    taken,     \* the items a flush has still to deal with
    copy,      \* the attempts in a flush's copies of them
    verdict,   \* what a flush is about to do with the item it sent
    session,   \* the stored AuthSession
    settled,   \* messages the backend has committed, or rejected for good
    failures,  \* history: failed dispatches of an item, capped at MaxAttempts
    given_up,  \* history: items dropped with attempts exhausted
    evicted,   \* history: items enforceLimits deleted
    revived,   \* history: stored items that a reschedule put back after they were gone
    faults

queueVars == <<store, key, attempts, due, created>>
callVars  == <<stage, item, doomed>>
flushVars == <<taken, copy, verdict>>
history   == <<failures, given_up, evicted, revived>>
vars == <<store, key, attempts, due, created, stage, item, doomed, taken, copy, verdict,
          session, settled, failures, given_up, evicted, revived, faults>>

Init ==
    /\ store = {} /\ due = {} /\ created = 0
    /\ key = [i \in Id |-> NoKey]
    /\ attempts = [i \in Id |-> 0]
    /\ stage = [c \in Call \cup {boot} |-> IF c = boot THEN "enforce" ELSE "new"]
    /\ item = [c \in Call |-> 0]
    /\ doomed = [c \in Call \cup {boot} |-> {}]
    /\ taken = [f \in Flusher |-> {}]
    /\ copy = [f \in Flusher |-> [i \in Id |-> 0]]
    /\ verdict = [f \in Flusher |-> "none"]
    /\ session = "valid"
    /\ settled = {}
    /\ failures = [i \in Id |-> 0] /\ given_up = {} /\ evicted = {} /\ revived = {}
    /\ faults = 0

-----------------------------------------------------------------------------
(* OfflineQueue.enqueue *)

\* Too large, or the key is queued already: enqueue returns null.  Otherwise the
\* item is made, with its createdAt and seq, and the readwrite transaction opened.
CheckKey(c) ==
    /\ stage[c] = "new"
    /\ IF \/ ByteSize[KeyOf[c]] > MaxBytes
          \/ \E i \in store : key[i] = KeyOf[c]
       THEN /\ stage' = [stage EXCEPT ![c] = "done"]
            /\ UNCHANGED <<created, key, item>>
       ELSE /\ created' = created + 1
            /\ key' = [key EXCEPT ![created + 1] = KeyOf[c]]
            /\ item' = [item EXCEPT ![c] = created + 1]
            /\ stage' = [stage EXCEPT ![c] = "add"]
    /\ UNCHANGED <<store, attempts, due, doomed, flushVars, session, settled,
                   history, faults>>

AddItem(c) ==
    /\ stage[c] = "add"
    /\ store' = store \cup {item[c]}
    /\ due' = due \cup {item[c]}
    /\ stage' = [stage EXCEPT ![c] = "enforce"]
    /\ UNCHANGED <<key, attempts, created, item, doomed, flushVars, session, settled, history, faults>>

\* The items in S leave the object store.
Delete(S) ==
    /\ store' = store \ S
    /\ due' = due \ S
    /\ attempts' = [i \in Id |-> IF i \in S THEN 0 ELSE attempts[i]]
    /\ revived' = revived \ S

\* The sum of the items' byteSize, as the number of their bytes.
Bytes(S) == Cardinality(UNION {{i} \X (1 .. ByteSize[key[i]]) : i \in S})

\* Mutant: items of exactly the cap are let through.
WithinLimits_OneMore(S) == Cardinality(S) <= MaxItems + 1 /\ Bytes(S) <= MaxBytes

WithinLimits(S) == Cardinality(S) <= MaxItems /\ Bytes(S) <= MaxBytes

\* The items younger than cut.
Younger(cut) == {i \in store : i > cut}

\* enforceLimits, the decision: everything up to some age goes if it is over
\* age (overAge = 0: nothing is), then oldest first until both caps hold.
EnforceRead(c, overAge) ==
    /\ stage[c] = "enforce"
    /\ overAge = 0 \/ faults < MaxFaults
    /\ LET cuts == {n \in overAge .. Cardinality(Call) : WithinLimits(Younger(n))}
           gone == store \ Younger(Min(cuts))
       IN  /\ doomed' = [doomed EXCEPT ![c] = gone]
           /\ stage' = [stage EXCEPT ![c] = IF gone = {} THEN "done" ELSE "delete"]
    /\ faults' = IF overAge = 0 THEN faults ELSE faults + 1
    /\ UNCHANGED <<queueVars, item, flushVars, session, settled, history>>

\* enforceLimits, the deletion, in a transaction of its own.
EnforceDelete(c) ==
    /\ stage[c] = "delete"
    /\ Delete(doomed[c])
    /\ evicted' = evicted \cup doomed[c]
    /\ doomed' = [doomed EXCEPT ![c] = {}]
    /\ stage' = [stage EXCEPT ![c] = "done"]
    /\ UNCHANGED <<key, created, item, flushVars, session, settled, failures, given_up, faults>>

-----------------------------------------------------------------------------
(* SyncEngine.flush *)

\* takeDue: copies of the oldest due items.
TakeDue(f) ==
    /\ taken[f] = {}
    /\ due # {}
    /\ LET S == {i \in due : Cardinality({k \in due : k < i}) < FlushLimit}
       IN  /\ taken' = [taken EXCEPT ![f] = S]
           /\ copy' = [copy EXCEPT ![f] = [i \in Id |-> IF i \in S THEN attempts[i] ELSE 0]]
    /\ UNCHANGED <<queueVars, callVars, verdict, session, settled, history, faults>>

\* Items are sent oldest first.
Sending(f, i) ==
    /\ i = Min(taken[f])
    /\ verdict[f] = "none"

Answer(f, v) == verdict' = [verdict EXCEPT ![f] = v]

\* accessToken() and refreshSession(): the sessions a request may find.  A
\* refresh that fails for ANY reason, the network included, clears the session.
SessionFor(s) == IF s = "expired" THEN {"valid", "signed_out"} ELSE {s}

\* Mutant: a network error is not an ApiError marked retryable.
Classify_StatusOnly(class) == IF class = "retryable_status" THEN "retry" ELSE "remove"

\* The ApiError of request() and what the catch block of flush() makes of it.
Classify(class) ==
    IF class \in {"network_error", "retryable_status"} THEN "retry" ELSE "remove"

\* request() without a token throws "Not signed in".
SendUnauthenticated(f, i) ==
    /\ Sending(f, i)
    /\ "signed_out" \in SessionFor(session)
    /\ session' = "signed_out"
    /\ Answer(f, Classify("unauthenticated"))
    /\ UNCHANGED <<queueVars, callVars, taken, copy, settled, history, faults>>

\* The request is sent with a token.
SendWithToken(f, i) ==
    /\ Sending(f, i)
    /\ session' \in SessionFor(session) \ {"signed_out"}
    /\ UNCHANGED <<queueVars, callVars, taken, copy, history, faults>>

\* It does not get through, or is answered with a status in RETRYABLE_STATUSES.
SendFails(f, i, class) ==
    /\ SendWithToken(f, i)
    /\ Answer(f, Classify(class))
    /\ UNCHANGED settled

\* 401: the token is refused.  onUnauthorized only shows it in the popup.
SendUnauthorized(f, i) ==
    /\ Refusals
    /\ SendWithToken(f, i)
    /\ Answer(f, Classify("unauthenticated"))
    /\ UNCHANGED settled

\* Another status: the backend refuses the batch as a whole.
SendRefused(f, i) ==
    /\ SendWithToken(f, i)
    /\ settled' = settled \cup MessagesOf[key[i]]
    /\ Answer(f, Classify("other_status"))

\* ingest_message_batch commits or rejects each message and answers "retryable"
\* for those in Q.  The status is 200 and the results are not looked into; or
\* the answer is lost on its way.
SendIngested(f, i, Q, lost) ==
    /\ SendWithToken(f, i)
    /\ Q # {} => Conflicts
    /\ settled' = settled \cup (MessagesOf[key[i]] \ Q)
    /\ Answer(f, IF lost THEN Classify("network_error") ELSE "remove")

\* The flush is through with item i.
Proceed(f, i) ==
    /\ taken' = [taken EXCEPT ![f] = @ \ {i}]
    /\ copy' = [copy EXCEPT ![f] = [@ EXCEPT ![i] = 0]]
    /\ verdict' = [verdict EXCEPT ![f] = "none"]

\* queue.remove after a success or a terminal rejection.
Remove(f, i) ==
    /\ i = Min(taken[f])
    /\ verdict[f] = "remove"
    /\ Delete({i})
    /\ Proceed(f, i)
    /\ UNCHANGED <<key, created, callVars, session, settled, failures, given_up, evicted, faults>>

\* Mutant: the copy is put back with the attempts it had.
Bumped_Not(n) == n

\* The attempts of an item after one more failure.
Bumped(n) == n + 1

\* Mutant: the item is dropped one failure early.
Exhausted_Early(n) == n + 1 >= MaxAttempts

Exhausted(n) == n >= MaxAttempts

CountFailure(i) ==
    failures' = [failures EXCEPT ![i] = IF @ < MaxAttempts THEN @ + 1 ELSE @]

\* queue.reschedule: drop an exhausted item, else put the copy back with one
\* more attempt and a backoff.  put also inserts an item that is gone by now.
Reschedule(f, i) ==
    /\ i = Min(taken[f])
    /\ verdict[f] = "retry"
    /\ IF Exhausted(Bumped(copy[f][i]))
       THEN /\ Delete({i})
            /\ given_up' = given_up \cup {i}
       ELSE /\ store' = store \cup {i}
            /\ due' = due \ {i}
            /\ attempts' = [attempts EXCEPT ![i] = Bumped(copy[f][i])]
            /\ revived' = IF i \in store THEN revived ELSE revived \cup {i}
            /\ UNCHANGED given_up
    /\ CountFailure(i)
    /\ Proceed(f, i)
    /\ UNCHANGED <<key, created, callVars, session, settled, evicted, faults>>

-----------------------------------------------------------------------------
(* The environment *)

BackoffElapses(i) ==
    /\ i \in store \ due
    /\ due' = due \cup {i}
    /\ UNCHANGED <<store, key, attempts, created, callVars, flushVars, session, settled, history, faults>>

\* Chrome ends the service worker; it boots again on the next event.
WorkerDies ==
    /\ faults < MaxFaults
    /\ faults' = faults + 1
    /\ stage' = [c \in Call \cup {boot} |->
                    CASE c = boot -> "enforce"
                      [] c # boot /\ stage[c] \in {"enforce", "delete"} -> "done"
                      [] c # boot /\ stage[c] = "add" -> "lost"
                      [] OTHER -> stage[c]]
    /\ doomed' = [c \in Call \cup {boot} |-> {}]
    /\ taken' = [f \in Flusher |-> {}]
    /\ copy' = [f \in Flusher |-> [i \in Id |-> 0]]
    /\ verdict' = [f \in Flusher |-> "none"]
    /\ UNCHANGED <<queueVars, item, session, settled, history>>

TokenExpires ==
    /\ Expiry
    /\ session = "valid" /\ session' = "expired"
    /\ UNCHANGED <<queueVars, callVars, flushVars, settled, history, faults>>

SignIn ==
    /\ session = "signed_out" /\ session' = "valid"
    /\ UNCHANGED <<queueVars, callVars, flushVars, settled, history, faults>>

-----------------------------------------------------------------------------
FlushStep(f) ==
    \/ TakeDue(f)
    \/ \E i \in taken[f] :
          \/ SendUnauthenticated(f, i) \/ SendUnauthorized(f, i) \/ SendRefused(f, i)
          \/ \E class \in {"network_error", "retryable_status"} : SendFails(f, i, class)
          \/ \E Q \in SUBSET MessagesOf[key[i]], lost \in BOOLEAN : SendIngested(f, i, Q, lost)
          \/ Remove(f, i) \/ Reschedule(f, i)

EnqueueStep(c) ==
    \/ c \in Call /\ (CheckKey(c) \/ AddItem(c))
    \/ \E n \in 0 .. created : EnforceRead(c, n)
    \/ EnforceDelete(c)

Next ==
    \/ \E c \in Call \cup {boot} : EnqueueStep(c)
    \/ \E f \in Flusher : FlushStep(f)
    \/ \E i \in Id : BackoffElapses(i)
    \/ WorkerDies \/ TokenExpires \/ SignIn

Spec == Init /\ [][Next]_vars

\* Calls in progress run on, the alarm keeps starting flushes, backoffs elapse.
Fairness ==
    /\ \A c \in Call : WF_vars(AddItem(c))
    /\ \A f \in Flusher : WF_vars(FlushStep(f))
    /\ \A i \in Id : WF_vars(BackoffElapses(i))

FairSpec == Spec /\ Fairness

-----------------------------------------------------------------------------
(* Properties *)

TypeOK ==
    /\ store \subseteq Id /\ due \subseteq store
    /\ key \in [Id -> Key \cup {NoKey}]
    /\ attempts \in [Id -> 0 .. MaxAttempts - 1]
    /\ created \in 0 .. Cardinality(Call)
    /\ stage \in [Call \cup {boot} -> {"new", "add", "enforce", "delete", "done", "lost"}]
    /\ item \in [Call -> 0 .. Cardinality(Call)]
    /\ doomed \in [Call \cup {boot} -> SUBSET Id]
    /\ taken \in [Flusher -> SUBSET Id]
    /\ copy \in [Flusher -> [Id -> 0 .. MaxAttempts - 1]]
    /\ verdict \in [Flusher -> {"none", "remove", "retry"}]
    /\ session \in {"valid", "expired", "signed_out"}
    /\ settled \subseteq Message
    /\ failures \in [Id -> 0 .. MaxAttempts]
    /\ given_up \subseteq Id /\ evicted \subseteq Id /\ revived \subseteq store
    /\ faults \in 0 .. MaxFaults

\* Items are numbered as they are made, and a call knows its own.
Numbered ==
    /\ created = Cardinality({c \in Call : item[c] # 0})
    /\ \A c \in Call :
          /\ item[c] \in 0 .. created
          /\ stage[c] = "new" => item[c] = 0
          /\ stage[c] = "add" => item[c] # 0
          /\ item[c] # 0 => key[item[c]] = KeyOf[c]
    /\ \A i \in 1 .. created : key[i] \in Key
    /\ store \subseteq 1 .. created
    /\ \A f \in Flusher : taken[f] \subseteq 1 .. created

\* No copy of an item counts more attempts than it has failed.
AttemptsEarned ==
    \A i \in Id : attempts[i] <= failures[i] /\ \A f \in Flusher : copy[f][i] <= failures[i]

\* Unless an enforceLimits is still to read the store, those under way delete
\* all that is too much.
LimitsAhead ==
    /\ \A c \in Call \cup {boot} : doomed[c] # {} => stage[c] = "delete"
    /\ (\A c \in Call \cup {boot} : stage[c] # "enforce") =>
        WithinLimits((store \ revived) \ UNION {doomed[c] : c \in Call \cup {boot}})

\* Without expiry, refusals and conflicts a flush is about to remove only what the
\* backend has settled.
RemovesSettled ==
    /\ session = "valid"
    /\ \A f \in Flusher : verdict[f] = "remove" =>
          \E i \in taken[f] : i = Min(taken[f]) /\ MessagesOf[key[i]] \subseteq settled

\* Once no enforceLimits is pending, the queue keeps its item and byte caps,
\* however enqueues, evictions and flushes overlapped and wherever the worker
\* died; only an item that a reschedule put back after it was removed or evicted
\* may exceed them (offline-queue.ts:9, enqueue and enforceLimits).
QueueBounded ==
    (\A c \in Call \cup {boot} : stage[c] \notin {"enforce", "delete"}) =>
        /\ Cardinality(store \ revived) <= MaxItems
        /\ Bytes(store \ revived) <= MaxBytes

\* An item is given up only after max attempts failed dispatches: overlapping
\* flushes may forget a failure, and never invent one (offline-queue.ts:162).
GivenUpAfterTries == \A i \in given_up : failures[i] = MaxAttempts

\* The messages of items that were added to the store.
Queued == UNION {MessagesOf[key[i]] : i \in store}
Added  == {c \in Call : item[c] # 0 /\ stage[c] \notin {"add", "lost"}}

\* An added item is in the store until it is settled or given up.
Kept ==
    \A c \in Added : \/ item[c] \in store \cup given_up \cup evicted
                      \/ MessagesOf[KeyOf[c]] \subseteq settled

\* "Nothing is lost if the network or the service worker dies here"
\* (docs/ARCHITECTURE.md:115): a message that reached IndexedDB is still there,
\* or the backend has it or refused it, or the queue's own bounds gave it up.
Durable ==
    \A c \in Added :
        \/ item[c] \in given_up \cup evicted
        \/ MessagesOf[KeyOf[c]] \subseteq Queued \cup settled

\* Every item that is in the store is eventually delivered, refused or given up.
Delivered ==
    \A i \in Id : i \in store ~> \/ i \in given_up \cup evicted
                                 \/ i <= created /\ MessagesOf[key[i]] \subseteq settled

=============================================================================
