--------------------------- MODULE ExtensionProofs ---------------------------
(***************************************************************************)
(* Proofs about two parts of the extension: AuthSession, for any number of *)
(* callers, users, sessions and faults, and Capture, for any conversations,*)
(* messages and moves of the employee.                                     *)
(***************************************************************************)
EXTENDS AuthSession, Capture, TLAPS

-----------------------------------------------------------------------------
(* AuthSession *)

\* The type invariant: no exchange, sign-out, revocation or restart names a
\* session that was not issued.
THEOREM SessionTypes == Spec => []TypeOK
<1>1. Init => TypeOK
  <2> SUFFICES ASSUME Init PROVE TypeOK
    OBVIOUS
  <2>1. disturbed \in BOOLEAN /\ outlived \in BOOLEAN
    BY Zenon DEF Init
  <2> QED BY <2>1 DEF Init, TypeOK, Idle, Stage
<1>2. TypeOK /\ [Next]_vars => TypeOK'
  <2> SUFFICES ASSUME TypeOK, [Next]_vars PROVE TypeOK'
    OBVIOUS
  <2> USE DEF TypeOK, Stage
  <2>1. disturbed' \in BOOLEAN /\ outlived' \in BOOLEAN
    BY Zenon DEF Next, vars, ExtensionNext, BackendNext, AccessToken, RefreshSession,
       PersistTokens, ExchangeFailed, RotateRefreshToken, IssueSession, Call, AnswerLost,
       SignIn, SignOut, WorkerStops, RevokeLoad, RevokeCommit, Expire, Overlap
  <2>2. ASSUME NEW p \in Proc, AccessToken(p) \/ RefreshSession(p) \/ PersistTokens(p)
                               \/ ExchangeFailed(p) \/ SignIn(p) \/ AnswerLost(p)
                               \/ RotateRefreshToken(p) \/ Call(p)
        PROVE  TypeOK'
    <3>1. CASE AccessToken(p)
      <4> DEFINE next == IF SessionValid THEN [Idle EXCEPT !.pc = "call", !.session = stored]
                                         ELSE [Idle EXCEPT !.pc = "refresh"]
      <4>1. next \in [pc : Stage, session : 0..issued, worker : {"running", "stopped"}]
        <5>1. CASE SessionValid BY <5>1 DEF Idle, SessionValid
        <5>2. CASE ~SessionValid BY <5>2 DEF Idle, SessionValid
        <5> QED BY <5>1, <5>2
      <4>2. /\ proc' = [proc EXCEPT ![p] = next]
            /\ UNCHANGED <<device, issued, age, spent, stored, revoking>>
        BY <3>1, Zenon DEF AccessToken
      <4> HIDE DEF next
      <4> QED BY <2>1, <4>1, <4>2
    <3>2. CASE RefreshSession(p)
      <4>1. CASE RefreshUsable
        BY <2>1, <3>2, <4>1 DEF RefreshSession
      <4>2. CASE ~RefreshUsable
        BY <2>1, <3>2, <4>2 DEF RefreshSession, Idle
      <4> QED BY <4>1, <4>2
    <3>3. CASE PersistTokens(p)
      <4>1. CASE proc[p].worker = "stopped"
        BY <2>1, <3>3, <4>1 DEF PersistTokens, Idle
      <4>2. CASE proc[p].worker # "stopped"
        <5>1. stored' = proc[p].session /\ UNCHANGED <<device, issued, age, spent, revoking>>
          BY <3>3, <4>2 DEF PersistTokens
        <5>2. CASE p \in User
          BY <2>1, <3>3, <4>2, <5>1, <5>2 DEF PersistTokens, Idle
        <5>3. CASE p \notin User
          <6>1. proc' = [proc EXCEPT ![p].pc = "call"]
            BY <3>3, <4>2, <5>3 DEF PersistTokens
          <6> QED BY <2>1, <5>1, <6>1
        <5> QED BY <5>2, <5>3
      <4> QED BY <4>1, <4>2
    <3>4. CASE ExchangeFailed(p) BY <2>1, <3>4 DEF ExchangeFailed, Idle
    <3>5. CASE SignIn(p) BY <2>1, <3>5 DEF SignIn
    <3>6. CASE AnswerLost(p) BY <2>1, <3>6 DEF AnswerLost, Fault
    <3>7. CASE RotateRefreshToken(p) BY <2>1, <3>7 DEF RotateRefreshToken
    <3>8. CASE Call(p) BY <2>1, <3>8 DEF Call, Idle
    <3> QED BY <2>2, <3>1, <3>2, <3>3, <3>4, <3>5, <3>6, <3>7, <3>8
  <2>3. ASSUME NEW p \in Proc, IssueSession(p) PROVE TypeOK'
    <3>1. proc[p].session \in 1..(issued + 1) \/ proc[p].session = 0
      OBVIOUS
    <3>2. device' = [device EXCEPT !.session_id = issued + 1, !.refresh = issued + 1]
      BY <2>3 DEF IssueSession, Issue
    <3> QED BY <2>1, <2>3, <3>1, <3>2 DEF IssueSession
  <2>4. CASE SignOut BY <2>1, <2>4 DEF SignOut
  <2>5. CASE WorkerStops BY <2>1, <2>5 DEF WorkerStops, Fault, Idle
  <2>6. CASE RevokeLoad BY <2>1, <2>6 DEF RevokeLoad
  <2>7. CASE RevokeCommit
    <3>1. device' = [session_id |-> 0, refresh |-> 0, revoked_at |-> 1]
      BY <2>7 DEF RevokeCommit, Revoked
    <3> QED BY <2>1, <2>7, <3>1 DEF RevokeCommit
  <2>8. ASSUME NEW n \in Session, Expire(n) PROVE TypeOK'
    BY <2>1, <2>8 DEF Expire
  <2>9. CASE UNCHANGED vars BY <2>9 DEF vars
  <2> QED BY <2>2, <2>3, <2>4, <2>5, <2>6, <2>7, <2>8, <2>9
          DEF Next, ExtensionNext, BackendNext, Proc
<1> QED BY <1>1, <1>2, PTL DEF Spec

-----------------------------------------------------------------------------

\* A step of the specification is an action of one process or one of these.
LEMMA StepCases ==
    ASSUME [Next]_vars
    PROVE  \/ \E p \in Caller : \/ AccessToken(p) \/ RefreshSession(p) \/ PersistTokens(p)
                               \/ ExchangeFailed(p) \/ RotateRefreshToken(p) \/ IssueSession(p)
                               \/ Call(p) \/ AnswerLost(p)
           \/ \E p \in User : \/ SignIn(p) \/ IssueSession(p) \/ PersistTokens(p)
                             \/ ExchangeFailed(p) \/ AnswerLost(p)
           \/ SignOut \/ WorkerStops \/ RevokeLoad \/ RevokeCommit
           \/ \E n \in Session : Expire(n)
           \/ UNCHANGED vars
BY Zenon DEF Next, ExtensionNext, BackendNext

\* accessToken() leaves its caller with a call to make or a refresh to ask for.
LEMMA AccessTokenEffect ==
    ASSUME TypeOK, NEW p \in Proc, AccessToken(p)
    PROVE  /\ \A q \in Proc \ {p} : proc'[q] = proc[q]
           /\ proc'[p].pc \in {"call", "refresh"} /\ proc'[p].worker = "running"
<1>1. CASE SessionValid
  BY <1>1 DEF AccessToken, TypeOK, Idle, SessionValid
<1>2. CASE ~SessionValid
  BY <1>2 DEF AccessToken, TypeOK, Idle, SessionValid
<1> QED BY <1>1, <1>2

\* persistTokens ends the exchange, and stores the session unless its service
\* worker has stopped.
LEMMA PersistTokensEffect ==
    ASSUME TypeOK, NEW p \in Proc, PersistTokens(p)
    PROVE  /\ \A q \in Proc \ {p} : proc'[q] = proc[q]
           /\ proc'[p].pc \in {"idle", "call"} /\ proc'[p].worker = "running"
           /\ proc[p].worker = "running" => stored' = proc[p].session
<1>1. CASE proc[p].worker = "stopped"
  BY <1>1 DEF PersistTokens, TypeOK, Idle
<1>2. CASE proc[p].worker = "running" /\ p \in User
  BY <1>2 DEF PersistTokens, TypeOK, Idle
<1>3. CASE proc[p].worker = "running" /\ p \notin User
  <2>1. proc' = [proc EXCEPT ![p].pc = "call"] /\ stored' = proc[p].session
    BY <1>3 DEF PersistTokens
  <2> QED BY <1>3, <2>1 DEF TypeOK
<1> QED BY <1>1, <1>2, <1>3 DEF TypeOK

\* Revocation is final: no exchange writes revoked_at, and no call is granted
\* while it is set.  Inductively, no call was granted too late before either.
THEOREM RevocationWins == Spec => []RevocationFinal
<1> DEFINE Inv == ~outlived /\ (revoking = "done" => DeviceRevoked)
<1>1. Init => Inv
  BY Zenon DEF Init
<1>2. TypeOK /\ Inv /\ [Next]_vars => Inv'
  <2> SUFFICES ASSUME TypeOK, Inv, [Next]_vars PROVE Inv'
    OBVIOUS
  <2>1. ASSUME NEW p \in Proc, IssueSession(p) PROVE Inv'
    <3>1. device'.revoked_at = device.revoked_at
      BY <2>1 DEF IssueSession, Issue, TypeOK
    <3>2. UNCHANGED <<revoking, outlived>>
      BY <2>1, Zenon DEF IssueSession
    <3> QED BY <3>1, <3>2, Zenon DEF DeviceRevoked
  <2>2. ASSUME NEW p \in Proc, Call(p) PROVE Inv'
    <3>1. device' = device /\ revoking' = revoking
      BY <2>2, Zenon DEF Call
    <3>2. revoking = "done" => ~Principal(proc[p].session)
      BY Zenon DEF Principal
    <3> QED BY <2>2, <3>1, <3>2, Zenon DEF Call, DeviceRevoked
  <2>3. CASE RevokeCommit
    <3>1. device'.revoked_at = 1
      BY <2>3 DEF RevokeCommit, Revoked, TypeOK
    <3>2. ~outlived'
      BY <2>3, Zenon DEF RevokeCommit
    <3> QED BY <3>1, <3>2 DEF DeviceRevoked
  <2>4. CASE UNCHANGED <<device, outlived>> /\ (revoking' = "done" => revoking = "done")
    BY <2>4, Zenon DEF DeviceRevoked
  <2> QED BY <2>1, <2>2, <2>3, <2>4, StepCases
          DEF Proc, AccessToken, RefreshSession, PersistTokens, ExchangeFailed,
              RotateRefreshToken, AnswerLost, SignIn, SignOut, WorkerStops, RevokeLoad, Expire, vars
<1>3. Inv => RevocationFinal
  BY Zenon DEF RevocationFinal
<1> QED BY <1>1, <1>2, <1>3, SessionTypes, PTL DEF Spec

\* A used refresh token stays used: what a rotation stores is newer than every
\* token presented, and what a revocation stores is none.
THEOREM RotationFinal == Spec => []SpentStaysSpent
<1>1. Init => Presented /\ SpentStaysSpent
  BY DEF Init, Presented, SpentStaysSpent, Idle
<1>2. TypeOK /\ Presented /\ SpentStaysSpent /\ [Next]_vars => (Presented /\ SpentStaysSpent)'
  <2> SUFFICES ASSUME TypeOK, Presented, SpentStaysSpent, [Next]_vars
               PROVE  Presented' /\ SpentStaysSpent'
    OBVIOUS
  <2>1. Presented'
    <3> USE DEF TypeOK, Presented
    <3>1. ASSUME NEW p \in Proc, RefreshSession(p) PROVE Presented'
      <4>1. CASE RefreshUsable
        BY <3>1, <4>1 DEF RefreshSession, RefreshUsable
      <4>2. CASE ~RefreshUsable
        BY <3>1, <4>2 DEF RefreshSession, Idle
      <4> QED BY <4>1, <4>2
    <3>2. ASSUME NEW p \in Proc,
                 \/ AccessToken(p) \/ PersistTokens(p) \/ ExchangeFailed(p) \/ IssueSession(p)
                 \/ Call(p) \/ AnswerLost(p) \/ SignIn(p) \/ RotateRefreshToken(p)
          PROVE  Presented'
      <4>1. \A q \in Proc \ {p} : proc'[q] = proc[q]
        BY <3>2 DEF AccessToken, PersistTokens, ExchangeFailed, IssueSession, Call, AnswerLost,
                    SignIn, RotateRefreshToken
      <4>2. proc'[p].pc \in {"sent", "loaded"} =>
               proc[p].pc = "sent" /\ proc'[p].session = proc[p].session
        <5>1. CASE AccessToken(p)
          BY <5>1, AccessTokenEffect
        <5>2. CASE PersistTokens(p)
          BY <5>2, PersistTokensEffect
        <5>3. CASE ExchangeFailed(p) \/ Call(p) \/ AnswerLost(p)
          BY <5>3 DEF ExchangeFailed, Call, AnswerLost, Idle
        <5>4. CASE IssueSession(p) \/ SignIn(p) \/ RotateRefreshToken(p)
          BY <5>4 DEF IssueSession, SignIn, RotateRefreshToken
        <5> QED BY <3>2, <5>1, <5>2, <5>3, <5>4
      <4> QED BY <4>1, <4>2
    <3>3. CASE WorkerStops BY <3>3 DEF WorkerStops, Idle
    <3>4. CASE UNCHANGED proc BY <3>4
    <3> QED BY <3>1, <3>2, <3>3, <3>4, StepCases
            DEF Proc, SignOut, RevokeLoad, RevokeCommit, Expire, vars
  <2>2. SpentStaysSpent'
    <3> USE DEF TypeOK, SpentStaysSpent
    <3>1. ASSUME NEW p \in Proc, IssueSession(p) PROVE SpentStaysSpent'
      <4>1. device'.refresh = issued + 1 /\ spent' \subseteq spent \cup {proc[p].session}
        BY <3>1 DEF IssueSession, Issue
      <4> QED BY <4>1
    <3>2. CASE RevokeCommit BY <3>2 DEF RevokeCommit, Revoked
    <3>3. CASE UNCHANGED <<device, spent>> BY <3>3
    <3> QED BY <3>1, <3>2, <3>3, StepCases
            DEF Proc, AccessToken, RefreshSession, PersistTokens, ExchangeFailed, RotateRefreshToken,
                Call, AnswerLost, SignIn, SignOut, WorkerStops, RevokeLoad, Expire, vars
  <2> QED BY <2>1, <2>2
<1> QED BY <1>1, <1>2, SessionTypes, PTL DEF Spec

\* Histories and revocations are never taken back.
LEMMA Lasting ==
    ASSUME TypeOK, [Next]_vars, ~disturbed', ~DeviceRevoked'
    PROVE  ~disturbed /\ ~DeviceRevoked
<1>1. ~disturbed
  BY StepCases, Zenon
     DEF vars, AccessToken, RefreshSession, PersistTokens, ExchangeFailed, RotateRefreshToken,
         IssueSession, Call, AnswerLost, SignIn, SignOut, WorkerStops, RevokeLoad, RevokeCommit,
         Expire, Overlap
<1>2. ~DeviceRevoked
  <2>1. ASSUME NEW p \in Proc, IssueSession(p) PROVE device'.revoked_at = device.revoked_at
    BY <2>1 DEF IssueSession, Issue, TypeOK
  <2>2. RevokeCommit => device'.revoked_at = 1
    BY DEF RevokeCommit, Revoked, TypeOK
  <2>3. UNCHANGED device \/ RevokeCommit \/ \E p \in Proc : IssueSession(p)
    BY StepCases DEF Proc, vars, AccessToken, RefreshSession, PersistTokens, ExchangeFailed,
       RotateRefreshToken, Call, AnswerLost, SignIn, SignOut, WorkerStops, RevokeLoad, Expire
  <2>4. device'.revoked_at = device.revoked_at \/ device'.revoked_at = 1
    BY <2>1, <2>2, <2>3
  <2> QED BY <2>4 DEF DeviceRevoked
<1> QED BY <1>1, <1>2

\* Row and stored session stay in step through every action.
LEMMA InStepKept ==
    ASSUME TypeOK, Listening, InStep, [Next]_vars
    PROVE  InStep'
<1> SUFFICES ASSUME ~disturbed', ~DeviceRevoked'
             PROVE  Alone' /\ Heard' /\ Known'
  BY Zenon DEF InStep
<1>0. Alone /\ Heard /\ Known
  BY Lasting, Zenon DEF InStep
<1> USE <1>0 DEF TypeOK, Alone, Heard, Known, Exchanging
<1>1. ASSUME NEW p \in Proc, AccessToken(p) PROVE Alone' /\ Heard' /\ Known'
  <2>1. UNCHANGED <<device, stored>> /\ proc[p].pc = "idle"
    BY <1>1 DEF AccessToken
  <2> QED BY <1>1, <2>1, AccessTokenEffect
<1>2. ASSUME NEW p \in Caller, RefreshSession(p) PROVE Alone' /\ Heard' /\ Known'
  <2>0. UNCHANGED <<device, stored>> /\ proc[p].pc = "refresh" /\ proc[p].worker = "running"
    BY <1>2 DEF RefreshSession, Listening, Proc
  <2>1. CASE RefreshUsable
    <3>1. \A q \in Proc \ {p} : ~Exchanging(q)
      BY <1>2, <2>1, Zenon DEF RefreshSession, Overlap
    <3>2. proc' = [proc EXCEPT ![p].pc = "sent", ![p].session = stored]
      BY <1>2, <2>1, Zenon DEF RefreshSession
    <3> QED BY <2>0, <3>1, <3>2, AuthAssumption DEF Proc
  <2>2. CASE ~RefreshUsable
    <3>1. proc' = [proc EXCEPT ![p] = Idle]
      BY <1>2, <2>2, Zenon DEF RefreshSession
    <3> QED BY <2>0, <3>1 DEF Idle, Proc
  <2> QED BY <2>1, <2>2
<1>3. ASSUME NEW p \in Proc, PersistTokens(p) PROVE Alone' /\ Heard' /\ Known'
  <2>1. UNCHANGED device /\ proc[p].pc = "answered"
    BY <1>3 DEF PersistTokens
  <2> QED BY <1>3, <2>1, PersistTokensEffect
<1>4. ASSUME NEW p \in Proc, ExchangeFailed(p) PROVE Alone' /\ Heard' /\ Known'
  BY <1>4 DEF ExchangeFailed, Idle
<1>5. ASSUME NEW p \in Caller, RotateRefreshToken(p) PROVE Alone' /\ Heard' /\ Known'
  BY <1>5, AuthAssumption DEF RotateRefreshToken, Proc
<1>6. ASSUME NEW p \in Proc, IssueSession(p) PROVE Alone' /\ Heard' /\ Known'
  <2>1. device'.refresh = issued + 1
    BY <1>6 DEF IssueSession, Issue
  <2>2. /\ proc' = [proc EXCEPT ![p].pc = "answered", ![p].session = issued + 1]
        /\ proc[p].pc \in {"loaded", "login"}
    BY <1>6, Zenon DEF IssueSession
  <2> QED BY <2>1, <2>2
<1>7. ASSUME NEW p \in Proc, Call(p) PROVE Alone' /\ Heard' /\ Known'
  BY <1>7 DEF Call, Idle
<1>8. ASSUME NEW p \in Caller, AnswerLost(p) PROVE Alone' /\ Heard' /\ Known'
  BY <1>8, AuthAssumption DEF AnswerLost, Proc
<1>9. ASSUME NEW p \in User PROVE ~AnswerLost(p)
  BY Zenon DEF AnswerLost
<1>10. ASSUME NEW p \in User, SignIn(p) PROVE Alone' /\ Heard' /\ Known'
  <2>1. \A q \in Proc \ {p} : ~Exchanging(q)
    BY <1>10, Zenon DEF SignIn, Overlap
  <2>2. ~LoginRefused
    BY Lasting, Zenon DEF LoginRefused
  <2>3. proc' = [proc EXCEPT ![p].pc = "login"]
    BY <1>10, <2>2 DEF SignIn
  <2> QED BY <1>10, <2>1, <2>3 DEF SignIn, Listening, Proc
<1>11. CASE SignOut BY <1>11 DEF SignOut
<1>12. CASE WorkerStops
  <2>1. \A p \in Proc : ~Exchanging(p)
    BY <1>12, Zenon DEF WorkerStops
  <2>2. proc' = [p \in Proc |-> Idle] /\ UNCHANGED <<device, stored>>
    BY <1>12, <2>1 DEF WorkerStops
  <2> QED BY <2>1, <2>2 DEF Idle
<1>13. CASE RevokeCommit
  BY <1>13 DEF RevokeCommit, Revoked, DeviceRevoked
<1>14. CASE UNCHANGED <<device, stored, proc>> BY <1>14
<1> QED BY <1>1, <1>2, <1>3, <1>4, <1>5, <1>6, <1>7, <1>8, <1>9, <1>10, <1>11, <1>12, <1>13, <1>14,
           StepCases
        DEF Proc, RevokeLoad, Expire, vars

\* The service worker of a process that exchanges nothing is running.
LEMMA ListeningKept ==
    ASSUME TypeOK, Listening, [Next]_vars
    PROVE  Listening'
<1> USE DEF TypeOK, Listening
<1>1. ASSUME NEW p \in Proc, AccessToken(p) \/ PersistTokens(p) PROVE Listening'
  BY <1>1, AccessTokenEffect, PersistTokensEffect
<1>2. ASSUME NEW p \in Proc, RefreshSession(p) PROVE Listening'
  <2>1. CASE RefreshUsable BY <1>2, <2>1 DEF RefreshSession
  <2>2. CASE ~RefreshUsable BY <1>2, <2>2 DEF RefreshSession, Idle
  <2> QED BY <2>1, <2>2
<1>3. ASSUME NEW p \in Proc, ExchangeFailed(p) \/ Call(p) \/ AnswerLost(p) PROVE Listening'
  BY <1>3 DEF ExchangeFailed, Call, AnswerLost, Idle
<1>4. ASSUME NEW p \in Proc, IssueSession(p) \/ SignIn(p) \/ RotateRefreshToken(p)
      PROVE  Listening'
  BY <1>4 DEF IssueSession, SignIn, RotateRefreshToken
<1>5. CASE WorkerStops BY <1>5 DEF WorkerStops, Exchanging, Idle
<1>6. CASE UNCHANGED proc BY <1>6
<1> QED BY <1>1, <1>2, <1>3, <1>4, <1>5, <1>6, StepCases
        DEF Proc, SignOut, RevokeLoad, RevokeCommit, Expire, vars

\* Both columns of the row are written together.
LEMMA OneSessionKept ==
    ASSUME TypeOK, OneSession, [Next]_vars
    PROVE  OneSession'
<1> USE DEF TypeOK, OneSession
<1>1. ASSUME NEW p \in Proc, IssueSession(p) PROVE OneSession'
  BY <1>1 DEF IssueSession, Issue
<1>2. CASE RevokeCommit BY <1>2 DEF RevokeCommit, Revoked
<1>3. CASE UNCHANGED device BY <1>3
<1> QED BY <1>1, <1>2, <1>3, StepCases
        DEF Proc, vars, AccessToken, RefreshSession, PersistTokens, ExchangeFailed,
            RotateRefreshToken, Call, AnswerLost, SignIn, SignOut, WorkerStops, RevokeLoad, Expire

\* Unless exchanges overlapped, a service worker stopped in one or a sign-in was
\* not answered, the session the extension keeps between exchanges is the one
\* the backend accepts, through lost refreshes, new sign-ins, sign-outs and
\* expiries.
THEOREM StoredSessionUsable == Spec => []StoredUsable
<1>1. Init => Listening /\ OneSession /\ InStep
  BY DEF Init, Listening, OneSession, InStep, Alone, Heard, Known, Exchanging, Idle
<1>2. TypeOK /\ Listening /\ OneSession /\ InStep /\ [Next]_vars =>
         (Listening /\ OneSession /\ InStep)'
  BY ListeningKept, OneSessionKept, InStepKept
<1>3. TypeOK /\ OneSession /\ InStep => StoredUsable
  <2> SUFFICES ASSUME OneSession, InStep, stored # 0, ~disturbed, ~DeviceRevoked,
                      \A p \in Proc : ~Exchanging(p)
               PROVE  device.session_id = stored /\ device.refresh = stored
    BY Zenon DEF StoredUsable
  <2>1. Known
    BY Zenon DEF InStep
  <2> QED BY <2>1 DEF Known, OneSession, Exchanging
<1> QED BY <1>1, <1>2, <1>3, SessionTypes, PTL DEF Spec

-----------------------------------------------------------------------------
(* Capture *)

\* m was said in c, or read under c before the page had rendered it.
Own(c, m) == Home[m] = c \/ <<c, m>> \in misread

\* What the live observer tracks is its conversation's own, in that sense.
ObserverInv ==
    /\ obs = [id |-> obs.id, tracked |-> obs.tracked, armed |-> obs.armed]
    /\ obs.id # NoConv => \A m \in DOMAIN obs.tracked : Own(obs.id, m)

TabInv == ObserverInv /\ LiveOwnConversation

\* Every live report of q is own.
LiveOwn(q) == \A r \in q : r.via = "live" => Own(r.conv, r.msg)

\* A report of the live observer, about messages of its own conversation.
LEMMA ReportSound ==
    ASSUME NEW ms, NEW ok, obs.id # NoConv => \A m \in ms : Own(obs.id, m)
    PROVE  LiveOwn(Report(obs.id, ms, ok))
BY DEF Report, LiveOwn

\* What a backfill extracts is not reported as live.
LEMMA ExtractedSound ==
    ASSUME NEW ok
    PROVE  \A r \in Extracted(ok) : r.via # "live"
BY DEF Extracted

\* What is own stays own: misread only grows.
LEMMA TakenSound ==
    ASSUME NEW q, LiveOwn(q), taken' = q, misread \subseteq misread'
    PROVE  LiveOwnConversation'
BY DEF LiveOwn, Own, LiveOwnConversation

\* A backfill, begun or continued, adds what it extracts and nothing else.
LEMMA BackfillSound ==
    ASSUME NEW q, NEW t, NEW ok, NEW j, NEW c, NEW from, NEW n, LiveOwn(q),
           Done(j, c, from, q, t, ok) \/ Loop(j, c, from, n, q, t, ok),
           misread' = misread
    PROVE  LiveOwnConversation'
<1>1. taken' = q \cup Extracted(ok) \/ taken' = q
  BY DEF Done, Loop, Scroll
<1>2. LiveOwn(q \cup Extracted(ok)) BY ExtractedSound DEF LiveOwn
<1> QED BY <1>1, <1>2, TakenSound

\* A conversation is opened: the observer starts afresh.
LEMMA OpenedSound ==
    ASSUME NEW q, NEW t, NEW ok, LiveOwn(q),
           OnConversationChanged(q, t, ok), misread' = misread
    PROVE  TabInv'
<1>1. obs' = [id |-> url, tracked |-> << >>, armed |-> TRUE] BY DEF OnConversationChanged
<1>2. ObserverInv' BY <1>1 DEF ObserverInv
<1>3. CASE ArchiveCurrentConversation(q, t, ok)
  BY <1>2, <1>3, BackfillSound DEF ArchiveCurrentConversation, TabInv
<1>4. CASE taken' = q BY <1>2, <1>4, TakenSound DEF TabInv
<1> QED BY <1>3, <1>4 DEF OnConversationChanged

\* The observer's timer is started or stopped, and nothing else of it changes.
LEMMA ArmedSound ==
    ASSUME TabInv, NEW b, obs' = [obs EXCEPT !.armed = b], taken' = {}, misread' = misread
    PROVE  TabInv'
<1>1. obs' = [id |-> obs.id, tracked |-> obs.tracked, armed |-> b] BY DEF TabInv, ObserverInv
<1> QED BY <1>1 DEF TabInv, ObserverInv, Own, LiveOwnConversation

\* The timer fires: the address is the observer's, and what is rendered is the
\* conversation of the address or recorded in misread.
LEMMA EmitSound ==
    ASSUME TabInv, NEW ok, EmitStable(ok)
    PROVE  TabInv'
<1>1. CASE ~OnRoute BY <1>1, ArmedSound DEF EmitStable
<1>2. CASE OnRoute
  <2> DEFINE T == Track
             b == Rearm(Track)
  <2>1. /\ obs' = [obs EXCEPT !.tracked = T, !.armed = b]
        /\ taken' = Report(obs.id, Stable, ok)
        /\ misread' = misread \cup Misread
    BY <1>2 DEF EmitStable
  <2>2. obs.id # NoConv =>
            \A m \in Rendered : Home[m] = obs.id \/ <<obs.id, m>> \in misread'
    BY <1>2, <2>1 DEF OnRoute, Rendered, Misread
  <2>3. DOMAIN T = DOMAIN obs.tracked \cup Rendered BY DEF Track
  <2> HIDE DEF T, b
  <2>4. obs' = [id |-> obs.id, tracked |-> T, armed |-> b] BY <2>1 DEF TabInv, ObserverInv
  <2>5. ObserverInv' BY <2>1, <2>2, <2>3, <2>4 DEF TabInv, ObserverInv, Own
  <2>6. Stable \subseteq Rendered BY DEF Stable
  <2>7. \A r \in Report(obs.id, Stable, ok) :
            Home[r.msg] = r.conv \/ <<r.conv, r.msg>> \in misread'
    BY <2>2, <2>6 DEF Report
  <2> QED BY <2>1, <2>5, <2>7 DEF TabInv, LiveOwnConversation
<1> QED BY <1>1, <1>2

\* What the observer has not emitted goes out when the tab is left.
LEMMA FlushSound ==
    ASSUME TabInv, NEW ok
    PROVE  LiveOwn(Report(obs.id, Unemitted, ok))
<1>1. Unemitted \subseteq DOMAIN obs.tracked BY DEF Unemitted
<1> QED BY <1>1, ReportSound DEF TabInv, ObserverInv

\* The tab is hidden.
LEMMA HideSound ==
    ASSUME TabInv, NEW ok, Hide(ok)
    PROVE  TabInv'
<1>0. misread' = misread BY DEF Hide
<1>1. CASE tab.active
  <2> DEFINE T == [m \in DOMAIN obs.tracked |-> [obs.tracked[m] EXCEPT !.emitted = TRUE]]
  <2>1. obs' = [obs EXCEPT !.armed = FALSE, !.tracked = T]
        /\ taken' = Report(obs.id, Unemitted, ok)
    BY <1>1 DEF Hide, Flushed
  <2>2. DOMAIN T = DOMAIN obs.tracked OBVIOUS
  <2> HIDE DEF T
  <2>3. obs' = [id |-> obs.id, tracked |-> T, armed |-> FALSE] BY <2>1 DEF TabInv, ObserverInv
  <2>4. ObserverInv' BY <1>0, <2>2, <2>3 DEF TabInv, ObserverInv, Own
  <2> QED BY <1>0, <2>1, <2>4, FlushSound, TakenSound DEF TabInv
<1>2. CASE ~tab.active
  <2>1. obs' = obs /\ taken' = {} BY <1>2 DEF Hide
  <2> QED BY <1>0, <2>1 DEF TabInv, ObserverInv, Own, LiveOwnConversation
<1> QED BY <1>1, <1>2

\* Every step of the page, the tab and the worker keeps it.
LEMMA TabStep == TabInv /\ [TabNext]_tabVars => TabInv'
<1> SUFFICES ASSUME TabInv, [TabNext]_tabVars PROVE TabInv' OBVIOUS
<1>0. ASSUME obs' = obs, taken' = {} \/ taken' = taken, misread' = misread PROVE TabInv'
  BY <1>0 DEF TabInv, ObserverInv, Own, LiveOwnConversation
<1>q. LiveOwn({}) BY DEF LiveOwn
<1>1. CASE UNCHANGED tabVars BY <1>0, <1>1 DEF tabVars
<1>2. ASSUME NEW m \in Msg, NEW s \in BOOLEAN, Change(m, s) \/ StreamEnds(m) PROVE TabInv'
  BY <1>2, ArmedSound DEF Change, StreamEnds, Mutation
<1>3. CASE Render \/ Mount BY <1>3, ArmedSound DEF Render, Mount, Mutation
<1>4. ASSUME NEW c, Navigate(c) PROVE TabInv' BY <1>0, <1>4 DEF Navigate
<1>5. CASE Show \/ LoseConfig \/ LoadConfig \/ SetPolicy
  BY <1>0, <1>5 DEF Show, LoseConfig, LoadConfig, SetPolicy
<1>6. ASSUME NEW ok, RouteCheck(ok) PROVE TabInv'
  <2> DEFINE q == Report(obs.id, Unemitted, ok)
             t == [tab EXCEPT !.route = url]
  <2>1. OnConversationChanged(q, t, ok) /\ misread' = misread BY <1>6 DEF RouteCheck
  <2>2. LiveOwn(q) BY FlushSound
  <2> HIDE DEF q, t
  <2> QED BY <2>1, <2>2, OpenedSound
<1>7. ASSUME NEW ok, ReceiveConfig(ok) PROVE TabInv'
  <2> DEFINE t == [tab EXCEPT !.config = cached]
             u == [t EXCEPT !.active = TRUE, !.route = url]
  <2>1. TryActivate(t, ok) /\ misread' = misread BY <1>7 DEF ReceiveConfig
  <2>2. OnConversationChanged({}, u, ok) \/ (obs' = obs /\ taken' = {})
    BY <2>1 DEF TryActivate
  <2> HIDE DEF u
  <2> QED BY <1>0, <1>q, <2>1, <2>2, OpenedSound
<1>8. ASSUME NEW ok, ArchiveNow(ok) PROVE TabInv'
  <2>1. ArchiveCurrentConversation({}, tab, ok) /\ UNCHANGED <<obs, misread>>
    BY <1>8 DEF ArchiveNow
  <2>2. LiveOwnConversation' BY <1>q, <2>1, BackfillSound DEF ArchiveCurrentConversation
  <2> QED BY <2>1, <2>2 DEF TabInv, ObserverInv, Own
<1>9. ASSUME NEW j \in Job, NEW ok, BackfillStep(j, ok) PROVE TabInv'
  <2>1. UNCHANGED <<obs, misread>> BY <1>9 DEF BackfillStep
  <2>2. LiveOwnConversation' BY <1>9, <1>q, <2>1, BackfillSound DEF BackfillStep
  <2> QED BY <2>1, <2>2 DEF TabInv, ObserverInv, Own
<1> QED BY <1>1, <1>2, <1>3, <1>4, <1>5, <1>6, <1>7, <1>8, <1>9, EmitSound, HideSound DEF TabNext

\* However late the route observer notices that another conversation was opened, and
\* whatever is flushed on the way, a live report goes under the conversation its
\* message was said in (emitStable's route guard, flushPartial, onConversationChanged).
\* The one exception is a message emitStable itself read while the address was already
\* the observer's and the page still showed the conversation left.
THEOREM LiveReportsAreOwn == TabSpec => []LiveOwnConversation
<1>1. TabInit => TabInv
  <2> SUFFICES ASSUME TabInit PROVE TabInv OBVIOUS
  <2>1. obs = [id |-> NoConv, tracked |-> << >>, armed |-> FALSE] /\ taken = {}
    BY DEF TabInit, Untouched
  <2> QED BY <2>1 DEF TabInv, ObserverInv, LiveOwnConversation
<1>2. TabInv => LiveOwnConversation BY DEF TabInv
<1> QED BY <1>1, <1>2, TabStep, PTL DEF TabSpec

-----------------------------------------------------------------------------
(* Capture: types *)

Jobs == [busy : BOOLEAN, conv : Open, from : 0..Top, scrolls : 0..MaxScrolls]

Tabs == [active : BOOLEAN, config : Config, route : Open, backfilled : SUBSET Conv]

\* TabTypeOK with the shapes of the records, and that a backfill under way has a
\* conversation: what it will count as backfilled.
TabShapes ==
    /\ TabTypeOK
    /\ tab \in Tabs
    /\ obs = [id |-> obs.id, tracked |-> obs.tracked, armed |-> obs.armed]
    /\ job \in [Job -> Jobs]
    /\ \A j \in Job : job[j].busy => job[j].conv \in Conv

\* What a report or an extract adds is typed.
LEMMA ReportTyped ==
    ASSUME TabShapes, NEW ms \in SUBSET Msg, NEW ok
    PROVE  Report(obs.id, ms, ok) \subseteq Reports /\ Extracted(ok) \subseteq Reports
<1>1. obs.id \in Open /\ url \in Open BY DEF TabShapes, TabTypeOK
<1>2. Rendered \subseteq Msg BY DEF Rendered
<1> QED BY <1>1, <1>2 DEF Report, Extracted, Reports, Open

\* Both ways a backfill's task can end keep the types, for a conversation c.
LEMMA BackfillTyped ==
    ASSUME TabShapes, NEW q \in SUBSET Reports, NEW t \in Tabs, NEW ok,
           NEW j \in Job, NEW c \in Conv, NEW from \in 0..Top, NEW n \in 0..MaxScrolls,
           Done(j, c, from, q, t, ok) \/ Loop(j, c, from, n, q, t, ok)
    PROVE  /\ pos' \in 0..Top /\ taken' \in SUBSET Reports /\ tab' \in Tabs
           /\ job' \in [Job -> Jobs]
           /\ \A i \in Job : job'[i].busy => job'[i].conv \in Conv
<1> USE CaptureAssumption DEF TabShapes
<1>0. IdleJob \in Jobs /\ ~IdleJob.busy BY DEF IdleJob, Jobs, Open
<1>1. CASE Done(j, c, from, q, t, ok)
  <2>1. taken' \in SUBSET Reports
    <3>1. Extracted(ok) \subseteq Reports BY ReportTyped
    <3> QED BY <1>1, <3>1 DEF Done
  <2>2. tab' \in Tabs
    <3>1. t.backfilled \subseteq Conv BY DEF Tabs
    <3>2. PICK b \in SUBSET Conv : tab' = [t EXCEPT !.backfilled = b]
      <4>1. tab' = [t EXCEPT !.backfilled = t.backfilled \cup {c}]
            \/ tab' = [t EXCEPT !.backfilled = t.backfilled]
        BY <1>1 DEF Done
      <4> QED BY <3>1, <4>1
    <3> QED BY <3>2 DEF Tabs
  <2>3. job' = [job EXCEPT ![j] = IdleJob] /\ pos' = from BY <1>1 DEF Done
  <2> QED BY <1>0, <2>1, <2>2, <2>3
<1>2. CASE pos > 0 /\ ~LimitReached(n) /\ Scroll(j, c, from, n, q, t)
  <2> DEFINE b == [busy |-> TRUE, conv |-> c, from |-> from, scrolls |-> n + 1]
  <2>1. n + 1 \in 0..MaxScrolls BY <1>2 DEF LimitReached
  <2>2. b \in Jobs BY <2>1 DEF Jobs, Open
  <2>3. /\ pos' = pos - 1 /\ taken' = q /\ tab' = t
        /\ job' = [job EXCEPT ![j] = b]
    BY <1>2 DEF Scroll
  <2>4. pos' \in 0..Top BY <1>2, <2>3 DEF TabTypeOK
  <2>5. b.conv = c OBVIOUS
  <2> HIDE DEF b
  <2> QED BY <2>2, <2>3, <2>4, <2>5
<1> QED BY <1>1, <1>2 DEF Loop

\* What these actions leave together makes the invariant of the next state.
LEMMA ShapesOf ==
    ASSUME tab' \in Tabs, job' \in [Job -> Jobs],
           \A j \in Job : job'[j].busy => job'[j].conv \in Conv,
           NEW T, DOMAIN T \subseteq Msg, NEW i \in Open, NEW b \in BOOLEAN,
           obs' = [id |-> i, tracked |-> T, armed |-> b],
           url' \in Open, shown' \in Open, visible' \in BOOLEAN,
           turn' \in [Msg -> [text : 0..MaxText, streaming : BOOLEAN]],
           pos' \in 0..Top, cached' \in Config, policy' \in Config,
           taken' \in SUBSET Reports, misread' \in SUBSET (Conv \X Msg),
           moves' \in 0..MaxMoves, flips' \in 0..MaxFlips
    PROVE  TabShapes'
<1>1. /\ tab'.active \in BOOLEAN /\ tab'.config \in Config /\ tab'.route \in Open
      /\ tab'.backfilled \subseteq Conv
  BY DEF Tabs
<1>2. /\ obs'.id \in Open /\ obs'.armed \in BOOLEAN /\ DOMAIN obs'.tracked \subseteq Msg
      /\ obs' = [id |-> obs'.id, tracked |-> obs'.tracked, armed |-> obs'.armed]
  OBVIOUS
<1>3. TabTypeOK' BY <1>1, <1>2 DEF TabTypeOK, Jobs
<1> QED BY <1>2, <1>3 DEF TabShapes, Tabs, Jobs, Open

\* A backfill of the conversation at the address starts.
LEMMA ArchiveTyped ==
    ASSUME TabShapes, NEW q \in SUBSET Reports, NEW t \in Tabs, NEW ok,
           ArchiveCurrentConversation(q, t, ok)
    PROVE  /\ pos' \in 0..Top /\ taken' \in SUBSET Reports /\ tab' \in Tabs
           /\ job' \in [Job -> Jobs]
           /\ \A i \in Job : job'[i].busy => job'[i].conv \in Conv
<1> DEFINE j == CHOOSE j \in IdleJobs : TRUE
<1>1. j \in Job BY DEF ArchiveCurrentConversation, IdleJobs
<1>2. url \in Conv BY DEF ArchiveCurrentConversation, TabShapes, TabTypeOK, Open
<1>3. pos \in 0..Top /\ 0 \in 0..MaxScrolls BY CaptureAssumption DEF TabShapes, TabTypeOK
<1>4. Done(j, url, pos, q, t, ok) \/ Loop(j, url, pos, 0, q, t, ok)
  BY DEF ArchiveCurrentConversation
<1> HIDE DEF j
<1> QED BY <1>1, <1>2, <1>3, <1>4, BackfillTyped

\* The observer's next value, for every action that changes only its timer.
LEMMA ObserverTyped ==
    ASSUME TabShapes, NEW b \in BOOLEAN, obs' = obs \/ obs' = [obs EXCEPT !.armed = b]
    PROVE  \E a \in BOOLEAN : obs' = [id |-> obs.id, tracked |-> obs.tracked, armed |-> a]
<1> QED BY DEF TabShapes, TabTypeOK

\* Opening a conversation keeps the types, whether or not a backfill starts.
LEMMA OpenedTyped ==
    ASSUME TabShapes, NEW q \in SUBSET Reports, NEW t \in Tabs, NEW ok,
           OnConversationChanged(q, t, ok), UNCHANGED <<page, worker, moves, misread>>
    PROVE  TabShapes'
<1> USE CaptureAssumption
<1>1. obs' = [id |-> url, tracked |-> << >>, armed |-> TRUE] BY DEF OnConversationChanged
<1>2. /\ pos' \in 0..Top /\ taken' \in SUBSET Reports /\ tab' \in Tabs
      /\ job' \in [Job -> Jobs] /\ \A i \in Job : job'[i].busy => job'[i].conv \in Conv
  <2>1. CASE ArchiveCurrentConversation(q, t, ok) BY <2>1, ArchiveTyped
  <2>2. CASE tab' = t /\ taken' = q /\ UNCHANGED <<job, pos>>
    BY <2>2 DEF TabShapes, TabTypeOK
  <2> QED BY <2>1, <2>2 DEF OnConversationChanged
<1>3. DOMAIN << >> \subseteq Msg OBVIOUS
<1> QED BY <1>1, <1>2, <1>3, ShapesOf DEF TabShapes, TabTypeOK, page, worker

\* The variables of the tab and its observers keep their shapes, and no backfill
\* scrolls further than MaxScrolls, whatever tasks fall between its steps.
THEOREM CaptureTypes == TabSpec => []TabTypeOK
<1> USE CaptureAssumption
<1>1. TabInit => TabShapes
  <2> SUFFICES ASSUME TabInit PROVE TabShapes OBVIOUS
  <2>1. IdleJob \in Jobs /\ ~IdleJob.busy BY DEF IdleJob, Jobs, Open
  <2>2. tab \in Tabs BY DEF TabInit, Tabs, Config, Open
  <2>3. TabTypeOK
    BY <2>1, <2>2 DEF TabInit, TabTypeOK, Untouched, Tabs, Jobs, Open, Config
  <2> QED BY <2>1, <2>2, <2>3 DEF TabInit, TabShapes, Untouched
<1>2. TabShapes /\ [TabNext]_tabVars => TabShapes'
  <2> SUFFICES ASSUME TabShapes, [TabNext]_tabVars PROVE TabShapes' OBVIOUS
  <2> USE DEF TabShapes, TabTypeOK
  <2>a. tab.active \in BOOLEAN OBVIOUS
  <2>1. CASE UNCHANGED tabVars BY <2>1 DEF tabVars, page, worker
  <2>2. ASSUME NEW m \in Msg, NEW s \in BOOLEAN, Change(m, s) \/ StreamEnds(m) PROVE TabShapes'
    <3>1. turn' \in [Msg -> [text : 0..MaxText, streaming : BOOLEAN]]
      <4>1. CASE Change(m, s)
        <5> DEFINE e == [text |-> turn[m].text + 1, streaming |-> s]
        <5>1. e \in [text : 0..MaxText, streaming : BOOLEAN] BY <4>1 DEF Change
        <5>2. turn' = [turn EXCEPT ![m] = e] BY <4>1 DEF Change
        <5> HIDE DEF e
        <5> QED BY <5>1, <5>2
      <4>2. CASE StreamEnds(m)
        <5> DEFINE e == [turn[m] EXCEPT !.streaming = FALSE]
        <5>1. e \in [text : 0..MaxText, streaming : BOOLEAN] OBVIOUS
        <5>2. turn' = [turn EXCEPT ![m] = e] BY <4>2 DEF StreamEnds
        <5> HIDE DEF e
        <5> QED BY <5>1, <5>2
      <4> QED BY <2>2, <4>1, <4>2
    <3>2. PICK a \in BOOLEAN : obs' = [id |-> obs.id, tracked |-> obs.tracked, armed |-> a]
      BY <2>2, <2>a, ObserverTyped DEF Change, StreamEnds, Mutation
    <3>3. taken' = {} /\ UNCHANGED <<url, shown, visible, pos, tab, job, worker, moves, misread>>
      BY <2>2 DEF Change, StreamEnds
    <3> QED BY <3>1, <3>2, <3>3, ShapesOf DEF worker
  <2>3. CASE Render \/ Mount
    <3>1. pos' \in 0..Top BY <2>3 DEF Render, Mount
    <3>2. PICK a \in BOOLEAN : obs' = [id |-> obs.id, tracked |-> obs.tracked, armed |-> a]
      BY <2>3, <2>a, ObserverTyped DEF Render, Mount, Mutation
    <3>3. /\ UNCHANGED <<url, turn, visible, tab, job, worker, moves, misread>>
          /\ shown' \in Open /\ taken' = {}
      BY <2>3 DEF Render, Mount, page
    <3> QED BY <3>1, <3>2, <3>3, ShapesOf DEF worker
  <2>4. ASSUME NEW c \in Open, Navigate(c) PROVE TabShapes' BY <2>4 DEF Navigate, worker
  <2>5. CASE Show BY <2>5 DEF Show, worker
  <2>6. CASE LoadConfig \/ SetPolicy BY <2>6 DEF LoadConfig, SetPolicy, page, Config
  <2>13. CASE LoseConfig
    <3>1. tab' \in Tabs BY <2>13 DEF LoseConfig, Tabs, Config
    <3>2. /\ taken' = {} /\ flips' \in 0..MaxFlips
          /\ UNCHANGED <<page, pos, obs, job, policy, cached, misread, moves>>
      BY <2>13 DEF LoseConfig
    <3>3. PICK a \in BOOLEAN : obs' = [id |-> obs.id, tracked |-> obs.tracked, armed |-> a]
      BY <3>2, <2>a, ObserverTyped
    <3> QED BY <3>1, <3>2, <3>3, ShapesOf DEF page
  <2>7. ASSUME NEW ok \in BOOLEAN, EmitStable(ok) PROVE TabShapes'
    <3>1. DOMAIN Track \subseteq Msg /\ Stable \subseteq Msg BY DEF Track, Stable, Rendered
    <3>2. taken' \in SUBSET Reports
      <4>1. taken' = Report(obs.id, Stable, ok) \/ taken' = {} BY <2>7 DEF EmitStable
      <4>2. Report(obs.id, Stable, ok) \subseteq Reports BY <3>1, ReportTyped
      <4> QED BY <4>1, <4>2
    <3>3. /\ DOMAIN obs'.tracked \subseteq Msg /\ obs'.armed \in BOOLEAN
          /\ obs' = [id |-> obs.id, tracked |-> obs'.tracked, armed |-> obs'.armed]
      <4>1. CASE OnRoute
        <5> DEFINE T == Track
                   a == Rearm(Track)
        <5>1. a \in BOOLEAN BY Zenon DEF Rearm
        <5>2. obs' = [obs EXCEPT !.tracked = T, !.armed = a] BY <2>7, <4>1 DEF EmitStable
        <5>3. DOMAIN T \subseteq Msg BY <3>1
        <5> HIDE DEF T, a
        <5> QED BY <5>1, <5>2, <5>3
      <4>2. CASE ~OnRoute
        <5>1. obs' = [obs EXCEPT !.armed = FALSE] BY <2>7, <4>2 DEF EmitStable
        <5> QED BY <5>1
      <4> QED BY <4>1, <4>2
    <3>4. UNCHANGED <<page, pos, tab, job, worker, moves>> BY <2>7 DEF EmitStable
    <3>5. misread' \in SUBSET (Conv \X Msg)
      <4>1. Misread \subseteq Conv \X Msg BY DEF Misread, Rendered, Open
      <4> QED BY <2>7, <4>1 DEF EmitStable
    <3> QED BY <3>2, <3>3, <3>4, <3>5, ShapesOf DEF page, worker
  <2>8. ASSUME NEW ok \in BOOLEAN, Hide(ok) PROVE TabShapes'
    <3>1. taken' \in SUBSET Reports
      <4>1. Unemitted \subseteq Msg BY DEF Unemitted
      <4>2. taken' = Report(obs.id, Unemitted, ok) \/ taken' = {} BY <2>8 DEF Hide
      <4>3. Report(obs.id, Unemitted, ok) \subseteq Reports BY <4>1, ReportTyped
      <4> QED BY <4>2, <4>3
    <3>2. /\ DOMAIN obs'.tracked \subseteq Msg /\ obs'.armed \in BOOLEAN
          /\ obs' = [id |-> obs.id, tracked |-> obs'.tracked, armed |-> obs'.armed]
      <4>1. CASE tab.active
        <5> DEFINE T == [m \in DOMAIN obs.tracked |-> [obs.tracked[m] EXCEPT !.emitted = TRUE]]
        <5>1. obs' = [id |-> obs.id, tracked |-> T, armed |-> FALSE]
          BY <2>8, <4>1 DEF Hide, Flushed
        <5>2. DOMAIN T \subseteq Msg OBVIOUS
        <5> HIDE DEF T
        <5> QED BY <5>1, <5>2
      <4>2. CASE ~tab.active
        <5>1. obs' = obs BY <2>8, <4>2 DEF Hide
        <5> QED BY <5>1
      <4> QED BY <4>1, <4>2
    <3>3. /\ UNCHANGED <<url, shown, turn, pos, tab, job, worker, misread>>
          /\ visible' = FALSE /\ moves' \in 0..MaxMoves
      BY <2>8 DEF Hide
    <3> QED BY <3>1, <3>2, <3>3, ShapesOf DEF worker
  <2>9. ASSUME NEW ok \in BOOLEAN, RouteCheck(ok) PROVE TabShapes'
    <3> DEFINE q == Report(obs.id, Unemitted, ok)
               t == [tab EXCEPT !.route = url]
    <3>1. Unemitted \subseteq Msg BY DEF Unemitted
    <3>2. q \in SUBSET Reports BY <3>1, ReportTyped
    <3>3. t \in Tabs BY DEF Tabs
    <3>4. OnConversationChanged(q, t, ok) /\ UNCHANGED <<page, worker, moves, misread>>
      BY <2>9 DEF RouteCheck
    <3> HIDE DEF q, t
    <3> QED BY <3>2, <3>3, <3>4, OpenedTyped
  <2>10. ASSUME NEW ok \in BOOLEAN, ReceiveConfig(ok) PROVE TabShapes'
    <3> DEFINE t == [tab EXCEPT !.config = cached]
               u == [t EXCEPT !.active = TRUE, !.route = url]
    <3>1. t \in Tabs BY DEF Tabs
    <3>2. u \in Tabs BY <3>1 DEF Tabs
    <3>3. TryActivate(t, ok) /\ UNCHANGED <<page, worker, moves, misread>>
      BY <2>10 DEF ReceiveConfig
    <3>4. \/ OnConversationChanged({}, u, ok)
          \/ tab' = t /\ taken' = {} /\ UNCHANGED <<obs, job, pos>>
      BY <3>3 DEF TryActivate
    <3> HIDE DEF t, u
    <3>5. CASE OnConversationChanged({}, u, ok) BY <3>2, <3>3, <3>5, OpenedTyped
    <3>6. CASE tab' = t /\ taken' = {} /\ UNCHANGED <<obs, job, pos>>
      <4>1. PICK a \in BOOLEAN : obs' = [id |-> obs.id, tracked |-> obs.tracked, armed |-> a]
        BY <3>6, <2>a, ObserverTyped
      <4> QED BY <3>1, <3>3, <3>6, <4>1, ShapesOf DEF page, worker
    <3> QED BY <3>4, <3>5, <3>6
  <2>11. ASSUME NEW ok \in BOOLEAN, ArchiveNow(ok) PROVE TabShapes'
    <3>1. /\ pos' \in 0..Top /\ taken' \in SUBSET Reports /\ tab' \in Tabs
          /\ job' \in [Job -> Jobs] /\ \A i \in Job : job'[i].busy => job'[i].conv \in Conv
      BY <2>11, ArchiveTyped DEF ArchiveNow
    <3>2. moves' \in 0..MaxMoves /\ UNCHANGED <<page, obs, worker, misread>> BY <2>11 DEF ArchiveNow
    <3>3. PICK a \in BOOLEAN : obs' = [id |-> obs.id, tracked |-> obs.tracked, armed |-> a]
      BY <3>2, <2>a, ObserverTyped
    <3> QED BY <3>1, <3>2, <3>3, ShapesOf DEF page, worker
  <2>12. ASSUME NEW j \in Job, NEW ok \in BOOLEAN, BackfillStep(j, ok) PROVE TabShapes'
    <3> DEFINE b == job[j]
    <3>1. b.conv \in Conv /\ b.from \in 0..Top /\ b.scrolls \in 0..MaxScrolls
      BY <2>12 DEF BackfillStep, Jobs
    <3>2. \/ Done(j, b.conv, b.from, {}, tab, ok)
          \/ Loop(j, b.conv, b.from, b.scrolls, {}, tab, ok)
      BY <2>12 DEF BackfillStep
    <3>3. UNCHANGED <<page, obs, worker, moves, misread>> BY <2>12 DEF BackfillStep
    <3>4. /\ pos' \in 0..Top /\ taken' \in SUBSET Reports /\ tab' \in Tabs
          /\ job' \in [Job -> Jobs] /\ \A i \in Job : job'[i].busy => job'[i].conv \in Conv
      BY <3>1, <3>2, BackfillTyped
    <3>5. PICK a \in BOOLEAN : obs' = [id |-> obs.id, tracked |-> obs.tracked, armed |-> a]
      BY <3>3, <2>a, ObserverTyped
    <3> QED BY <3>3, <3>4, <3>5, ShapesOf DEF page, worker
  <2> QED BY <2>1, <2>2, <2>3, <2>4, <2>5, <2>6, <2>7, <2>8, <2>9, <2>10,
         <2>11, <2>12, <2>13
      DEF TabNext
<1>3. TabShapes => TabTypeOK BY DEF TabShapes
<1> QED BY <1>1, <1>2, <1>3, PTL DEF TabSpec

=============================================================================
