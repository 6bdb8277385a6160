----------------------------- MODULE AuthSession -----------------------------
(***************************************************************************)
(* One browser profile's session: the devices row on the backend           *)
(* (services/accounts.py, api/v1/auth.py, api/deps.py) and the tokens the   *)
(* extension keeps (background/service-worker.ts, modules/auth-client.ts). *)
(*                                                                         *)
(* Sessions are numbered as they are issued; session n stands for its      *)
(* session_id, its access token and its refresh token, 0 for NULL or none. *)
(* A request loads the devices row without a lock and writes at commit the *)
(* columns it changed.  Calls of accessToken() in the service worker, from *)
(* alarms and from captures, run side by side; nothing makes them share a  *)
(* refresh.                                                                *)
(***************************************************************************)
EXTENDS Integers, FiniteSets

CONSTANTS
    Caller,        \* concurrent users of accessToken()
    User,          \* the employee at the sign-in button
    MaxSessions,   \* bound: sessions issued
    MaxFaults      \* bound: lost answers, worker restarts

ASSUME AuthAssumption ==
    /\ Caller \cap User = {}
    /\ MaxSessions \in Nat /\ MaxFaults \in Nat

VARIABLES
    device,      \* devices: session_id, refresh_token_hash, revoked_at
    issued,      \* sessions issued so far
    age,         \* of a session: 1 access token expired, 2 refresh token too
    spent,       \* refresh tokens whose rotation is committed
    stored,      \* the session in chrome.storage.session
    proc,        \* what each caller, and the user, is doing
    revoking,    \* the administrator's request: "none", "loaded", "done"
    disturbed,   \* history: two exchanges overlapped, a service worker stopped in
                 \* one, or the answer to a sign-in was lost
    outlived,    \* history: a call was granted after the revocation
    faults

vars == <<device, issued, age, spent, stored, proc, revoking, disturbed, outlived, faults>>

Proc    == Caller \cup User
Session == 1..MaxSessions

Stage == {"idle", "call", "refresh", "sent", "loaded", "login", "answered", "refused"}

Idle == [pc |-> "idle", session |-> 0, worker |-> "running"]

Init ==
    /\ device = [session_id |-> 0, refresh |-> 0, revoked_at |-> 0]
    /\ issued = 0 /\ spent = {} /\ stored = 0
    /\ age = [n \in Session |-> 0]
    /\ proc = [p \in Proc |-> Idle]
    /\ revoking = "none" /\ disturbed = FALSE /\ outlived = FALSE /\ faults = 0

\* revoked_at is set (1); 0 is NULL.
DeviceRevoked == device.revoked_at # 0

Fault == faults < MaxFaults /\ faults' = faults + 1

\* A process with an /auth/exchange on its way.
Exchanging(p) == proc[p].pc \in {"sent", "loaded", "login", "answered", "refused"}

\* p begins an exchange.
Overlap(p) == disturbed' = (disturbed \/ \E q \in Proc \ {p} : Exchanging(q))

\* Sessions that open requests will issue, for the bound.
Reserved == Cardinality({p \in Proc : proc[p].pc \in {"loaded", "login"}})

-----------------------------------------------------------------------------
(* The extension *)

\* auth.sessionValid and auth.refreshUsable of the stored session.
SessionValid  == stored # 0 /\ age[stored] = 0
RefreshUsable == stored # 0 /\ age[stored] < 2

\* Mutant: an expired access token is not refreshed.
AccessToken_NoRefresh(p) ==
    /\ proc[p].pc = "idle" /\ SessionValid
    /\ proc' = [proc EXCEPT ![p] = [Idle EXCEPT !.pc = "call", !.session = stored]]
    /\ UNCHANGED <<device, issued, age, spent, stored, revoking, disturbed, faults, outlived>>

\* accessToken() reads the session: valid, to be refreshed, or none.
AccessToken(p) ==
    /\ proc[p].pc = "idle"
    /\ SessionValid \/ RefreshUsable
    /\ proc' = [proc EXCEPT ![p] =
          IF SessionValid THEN [Idle EXCEPT !.pc = "call", !.session = stored]
                          ELSE [Idle EXCEPT !.pc = "refresh"]]
    /\ UNCHANGED <<device, issued, age, spent, stored, revoking, disturbed, faults, outlived>>

\* refreshSession() reads it again and sends the refresh token it finds.
RefreshSession(p) ==
    /\ proc[p].pc = "refresh"
    /\ IF RefreshUsable
       THEN /\ proc' = [proc EXCEPT ![p].pc = "sent", ![p].session = stored]
            /\ Overlap(p)
       ELSE proc' = [proc EXCEPT ![p] = Idle] /\ UNCHANGED disturbed
    /\ UNCHANGED <<device, issued, age, spent, stored, revoking, faults, outlived>>

\* persistTokens; an answer that finds its service worker gone is dropped.
PersistTokens(p) ==
    /\ proc[p].pc = "answered"
    /\ IF proc[p].worker = "stopped"
       THEN proc' = [proc EXCEPT ![p] = Idle] /\ UNCHANGED stored
       ELSE /\ stored' = proc[p].session
            /\ proc' = [proc EXCEPT ![p] = IF p \in User THEN Idle ELSE [@ EXCEPT !.pc = "call"]]
    /\ UNCHANGED <<device, issued, age, spent, revoking, disturbed, faults, outlived>>

\* Mutant: a failed refresh leaves the session where it is.
ExchangeFailed_KeepsSession(p) ==
    /\ proc[p].pc = "refused"
    /\ proc' = [proc EXCEPT ![p] = Idle]
    /\ UNCHANGED <<device, issued, age, spent, stored, revoking, disturbed, faults, outlived>>

\* A failed refresh clears whatever session is stored by now; a failed
\* sign-in only says so.
ExchangeFailed(p) ==
    /\ proc[p].pc = "refused"
    /\ stored' = IF p \in User \/ proc[p].worker = "stopped" THEN stored ELSE 0
    /\ proc' = [proc EXCEPT ![p] = Idle]
    /\ UNCHANGED <<device, issued, age, spent, revoking, disturbed, faults, outlived>>

\* get_or_create_device by the fingerprint, and the check of issue_session.
LoginRefused == DeviceRevoked

\* signIn, with the code exchanged and the request in its transaction.
SignIn(p) ==
    /\ p \in User /\ proc[p].pc = "idle"
    /\ issued + Reserved < MaxSessions
    /\ proc' = [proc EXCEPT ![p].pc = IF LoginRefused THEN "refused" ELSE "login"]
    /\ Overlap(p)
    /\ UNCHANGED <<device, issued, age, spent, stored, revoking, faults, outlived>>

SignOut ==
    /\ stored # 0
    /\ stored' = 0
    /\ disturbed' = (disturbed \/ \E p \in Proc : Exchanging(p))
    /\ UNCHANGED <<device, issued, age, spent, proc, revoking, faults, outlived>>

\* Chrome stops the service worker: its pending calls are gone, the session
\* storage is not, and the backend goes on with what it was sent.
WorkerStops ==
    /\ Fault
    /\ proc' = [p \in Proc |-> IF Exchanging(p) THEN [proc[p] EXCEPT !.worker = "stopped"] ELSE Idle]
    /\ disturbed' = (disturbed \/ \E p \in Proc : Exchanging(p))
    /\ UNCHANGED <<device, issued, age, spent, stored, revoking, outlived>>

\* The request or its answer is lost: for the client the exchange has failed.
AnswerLost(p) ==
    /\ proc[p].pc \in {"sent", "answered"}
    /\ Fault
    /\ proc' = [proc EXCEPT ![p].pc = "refused"]
    /\ disturbed' = (disturbed \/ p \in User)
    /\ UNCHANGED <<device, issued, age, spent, stored, revoking, outlived>>

-----------------------------------------------------------------------------
(* The backend *)

\* rotate_refresh_token: the device is found by the token's hash.  At the
\* bound the rate limiter (rate_limit_anonymous) refuses.
RotateRefreshToken(p) ==
    /\ proc[p].pc = "sent"
    /\ LET t  == proc[p].session
           ok == device.refresh = t /\ ~DeviceRevoked /\ age[t] < 2
       IN  proc' = [proc EXCEPT ![p].pc =
              IF ok /\ issued + Reserved < MaxSessions THEN "loaded" ELSE "refused"]
    /\ UNCHANGED <<device, issued, age, spent, stored, revoking, disturbed, faults, outlived>>

\* Mutant: the whole row is written, as it was loaded before a revocation.
Issue_WholeRow(row, n) == [session_id |-> n, refresh |-> n, revoked_at |-> 0]

\* The columns of issue_session: a new session and refresh token.
Issue(row, n) == [row EXCEPT !.session_id = n, !.refresh = n]

\* Mutant: a rotation keeps the refresh token it was asked with.
IssueSession_KeepsToken(p) ==
    /\ proc[p].pc \in {"loaded", "login"}
    /\ issued' = issued + 1
    /\ device' = IF proc[p].pc = "loaded" THEN [device EXCEPT !.session_id = issued + 1]
                 ELSE Issue(device, issued + 1)
    /\ spent' = IF proc[p].pc = "loaded" THEN spent \cup {proc[p].session} ELSE spent
    /\ proc' = [proc EXCEPT ![p].pc = "answered", ![p].session = issued + 1]
    /\ UNCHANGED <<age, stored, revoking, disturbed, faults, outlived>>

\* issue_session and the commit of /auth/exchange.
IssueSession(p) ==
    /\ proc[p].pc \in {"loaded", "login"}
    /\ issued' = issued + 1
    /\ device' = Issue(device, issued + 1)
    /\ spent' = IF proc[p].pc = "loaded" THEN spent \cup {proc[p].session} ELSE spent
    /\ proc' = [proc EXCEPT ![p].pc = "answered", ![p].session = issued + 1]
    /\ UNCHANGED <<age, stored, revoking, disturbed, faults, outlived>>

\* decode_access_token: signed by us and not expired.
Decoded(n) == age[n] = 0

\* get_principal of an API request with access token n.
Principal(n) ==
    /\ Decoded(n)
    /\ ~DeviceRevoked
    /\ device.session_id # 0 => device.session_id = n

Call(p) ==
    /\ proc[p].pc = "call"
    /\ proc' = [proc EXCEPT ![p] = Idle]
    /\ outlived' = (outlived \/ (revoking = "done" /\ Principal(proc[p].session)))
    /\ UNCHANGED <<device, issued, age, spent, stored, revoking, disturbed, faults>>

\* The administrator revokes a device that has signed in: session.get, then
\* the commit.
RevokeLoad ==
    /\ revoking = "none" /\ device.session_id # 0
    /\ revoking' = "loaded"
    /\ UNCHANGED <<device, issued, age, spent, stored, proc, disturbed, faults, outlived>>

Revoked(row) == [row EXCEPT !.session_id = 0, !.refresh = 0, !.revoked_at = 1]

RevokeCommit ==
    /\ revoking = "loaded"
    /\ revoking' = "done"
    /\ device' = Revoked(device)
    /\ UNCHANGED <<issued, age, spent, stored, proc, disturbed, faults, outlived>>

\* The clock passes the expiry of session n's access, then refresh token;
\* expiry of a session nobody has any more makes no difference.
Expire(n) ==
    /\ n \in {stored, device.refresh} \cup {proc[p].session : p \in Proc}
    /\ age[n] < 2
    /\ age' = [age EXCEPT ![n] = @ + 1]
    /\ UNCHANGED <<device, issued, spent, stored, proc, revoking, disturbed, faults, outlived>>

-----------------------------------------------------------------------------
ExtensionNext(p) ==
    AccessToken(p) \/ RefreshSession(p) \/ PersistTokens(p) \/ ExchangeFailed(p)

BackendNext(p) == RotateRefreshToken(p) \/ IssueSession(p) \/ Call(p)

Next ==
    \/ \E p \in Caller : ExtensionNext(p) \/ BackendNext(p) \/ AnswerLost(p)
    \/ \E p \in User :
          \/ SignIn(p)
          \/ IssueSession(p)
          \/ PersistTokens(p)
          \/ ExchangeFailed(p)
          \/ AnswerLost(p)
    \/ SignOut
    \/ WorkerStops
    \/ RevokeLoad
    \/ RevokeCommit
    \/ \E n \in Session : Expire(n)

Spec == Init /\ [][Next]_vars

\* Alarms keep calling accessToken(), the backend answers, and access tokens
\* expire; of refresh tokens nothing is assumed.
FairSpec ==
    /\ Spec
    /\ \A p \in Caller : WF_vars(ExtensionNext(p) \/ BackendNext(p))
    /\ \A n \in Session : WF_vars(age[n] = 0 /\ Expire(n))

-----------------------------------------------------------------------------
(* Properties *)

\* Every session named in a row, a token or a call was issued.
TypeOK ==
    /\ issued \in Nat
    /\ device \in [session_id : 0..issued, refresh : 0..issued, revoked_at : 0..1]
    /\ spent \subseteq 1..issued /\ stored \in 0..issued
    /\ age \in [Session -> 0..2]
    /\ proc \in [Proc -> [pc : Stage, session : 0..issued, worker : {"running", "stopped"}]]
    /\ revoking \in {"none", "loaded", "done"}
    /\ disturbed \in BOOLEAN /\ outlived \in BOOLEAN

\* The refresh token of a request under way is one that was issued.
Presented == \A p \in Proc : proc[p].pc \in {"sent", "loaded"} => proc[p].session # 0

\* Only an exchange has lost its service worker.
Listening == \A p \in Proc : proc[p].pc \in {"idle", "call", "refresh"} => proc[p].worker = "running"

\* The row names one session by its id and by its refresh token.
OneSession == device.session_id = device.refresh

\* One exchange at a time, with its service worker there to hear the answer,
\* which is about the session in the row.
Alone == \A p, q \in Proc : Exchanging(p) /\ Exchanging(q) => p = q
Heard ==
    \A p \in Proc :
        /\ Exchanging(p) => proc[p].worker = "running"
        /\ proc[p].pc = "answered" => proc[p].session = device.refresh
        /\ p \in User => proc[p].pc # "refused"

\* The stored session is the one in the row, except between the end of an
\* exchange on the backend and in the extension.
Known ==
    stored # 0 /\ (\A p \in Proc : proc[p].pc \notin {"answered", "refused"}) =>
        device.refresh = stored

\* While nothing was disturbed, one exchange at a time takes the stored session
\* from one that the backend knows to the next.
InStep == ~disturbed /\ ~DeviceRevoked => Alone /\ Heard /\ Known

\* Revocation is final: sign-ins and refreshes that loaded the row before it
\* may commit after it, and still no API call is granted and the row stays
\* revoked (models/identity.py: "lets an administrator kill a session
\* immediately").
RevocationFinal == revoking = "done" => DeviceRevoked /\ ~outlived

\* A refresh token that was used is never valid again, even when two requests
\* with it, a sign-in and a revocation finish in any order.
SpentStaysSpent == device.refresh \notin spent

\* As long as exchanges do not overlap, the service worker outlives them and
\* sign-ins are answered, the session the extension keeps is the one the
\* backend accepts: a lost refresh, a new sign-in, a sign-out or an expiry
\* leaves no session that only looks alive.
StoredUsable ==
    (stored # 0 /\ ~disturbed /\ ~DeviceRevoked /\ \A p \in Proc : ~Exchanging(p)) =>
        device.session_id = stored /\ device.refresh = stored

\* A stored session the backend no longer knows does not stay: the next
\* refresh after its access token expired clears or replaces it, unless its
\* refresh token expires first.
DeadSessionLeaves ==
    \A n \in Session :
        (stored = n /\ device.refresh # n) ~> (stored # n \/ age[n] = 2)

=============================================================================
