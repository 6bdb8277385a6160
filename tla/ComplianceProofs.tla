--------------------------- MODULE ComplianceProofs ---------------------------
(***************************************************************************)
(* Proofs about ComplianceSync, for any log, page size, page limit, clock  *)
(* and number of faults.                                                   *)
(***************************************************************************)
EXTENDS ComplianceSync, FiniteSetTheorems, WellFoundedInduction, TLAPS

\* A nonempty finite set of naturals has a greatest element.
LEMMA GreatestNatural ==
    ASSUME NEW S \in SUBSET Nat, S # {}, IsFiniteSet(S)
    PROVE  Max(S) \in S /\ \A n \in S : n <= Max(S)
<1> DEFINE Above(n) == {m \in S : n < m}
           T == {Above(n) : n \in S}
<1>1. ASSUME NEW n \in S PROVE Above(n) \in FiniteSubsetsOf(Nat)
  <2>1. IsFiniteSet(Above(n)) BY FS_Subset
  <2> QED BY <2>1 DEF FiniteSubsetsOf
<1>2. T \subseteq FiniteSubsetsOf(Nat) /\ T # {} BY <1>1
<1>3. PICK B \in T : \A C \in T : <<C, B>> \notin StrictSubsetOrdering(Nat)
  BY <1>2, WFMin, FS_StrictSubsetOrderingWellFounded
<1>4. PICK n \in S : B = Above(n) OBVIOUS
<1>5. ASSUME NEW m \in S, n < m PROVE FALSE
  <2>1. \A k \in S : m < k => n < k BY <1>5
  <2>2. m \in Above(n) /\ m \notin Above(m) BY <1>5
  <2>3. Above(m) \subseteq Above(n) BY <2>1
  <2>4. <<Above(m), Above(n)>> \in StrictSubsetOrdering(Nat)
    BY <2>2, <2>3 DEF StrictSubsetOrdering
  <2> QED BY <1>3, <1>4, <2>4
<1>6. \A m \in S : n >= m BY <1>5
<1>7. Max(S) \in S /\ \A m \in S : Max(S) >= m BY <1>6 DEF Max
<1> QED BY <1>7

-----------------------------------------------------------------------------
(* The state of a cycle *)

Sound == TypeOK /\ ClaimsKept /\ CycleSound

\* The page that is fetched next.
NewPage == {e \in Answer : Cardinality({f \in Answer : f < e}) < PageSize}

\* A page is a piece of the log's answer from its beginning.
LEMMA PageIsPrefix ==
    ASSUME TypeOK, NewPage # {}
    PROVE  /\ Max(NewPage) \in NewPage
           /\ \A e \in NewPage : e <= Max(NewPage)
           /\ \A e \in Answer : e <= Max(NewPage) => e \in NewPage
<1>0. NumEvents \in Nat /\ visible \in 0 .. NumEvents /\ PageSize \in Nat
  BY ComplianceAssumption DEF TypeOK
<1>1. Answer \in SUBSET Nat /\ Answer \in SUBSET (1 .. visible) BY <1>0 DEF Answer
<1>2. IsFiniteSet(1 .. visible) BY <1>0, FS_Interval
<1>3. IsFiniteSet(Answer) /\ IsFiniteSet(NewPage) BY <1>1, <1>2, FS_Subset DEF NewPage
<1>4. Max(NewPage) \in NewPage /\ \A e \in NewPage : e <= Max(NewPage)
  BY <1>1, <1>3, GreatestNatural DEF NewPage
<1>5. ASSUME NEW e \in Answer, NEW m \in NewPage, e <= m PROVE e \in NewPage
  <2> DEFINE A == {f \in Answer : f < e}
             B == {f \in Answer : f < m}
  <2>0. m \in Nat /\ e \in Nat BY <1>1 DEF NewPage
  <2>a. \A f \in Answer : f < e => f < m BY <1>1, <1>5, <2>0
  <2>1. A \subseteq B BY <2>a
  <2>2. IsFiniteSet(B) BY <1>3, FS_Subset
  <2>3. Cardinality(A) <= Cardinality(B) /\ IsFiniteSet(A) BY <2>1, <2>2, FS_Subset
  <2>4. Cardinality(A) \in Nat /\ Cardinality(B) \in Nat BY <2>2, <2>3, FS_CardinalityType
  <2>5. Cardinality(B) < PageSize BY DEF NewPage
  <2>6. Cardinality(A) < PageSize BY <1>0, <2>3, <2>4, <2>5
  <2> QED BY <2>6 DEF NewPage
<1> QED BY <1>4, <1>5

\* Nothing is collected yet.
LEMMA InitSound == Init => Sound
<1> SUFFICES ASSUME Init PROVE Sound OBVIOUS
<1>0. /\ 0 \in 0 .. MaxTime /\ 0 \in 0 .. NumEvents /\ 0 \in 0 .. MaxPages /\ 0 \in 0 .. MaxFaults
      /\ Backlog \in 0 .. NumEvents /\ Backlog \in Nat
  BY ComplianceAssumption
<1>1. TypeOK BY <1>0 DEF Init, TypeOK, Pending
<1>2. ClaimsKept BY DEF Init, ClaimsKept
<1>3. \A e \in 1 .. visible : ~(e <= cursor) BY <1>0 DEF Init
<1>4. CycleSound BY <1>0, <1>3 DEF Init, CycleSound
<1> QED BY <1>1, <1>2, <1>4 DEF Sound

\* The constants are numbers.
LEMMA Numbers ==
    /\ NumEvents \in Nat /\ Overlap \in Nat /\ Lateness \in Nat /\ MaxTime \in Nat
    /\ MaxPages \in Nat /\ MaxPages > 0 /\ MaxFaults \in Nat
BY ComplianceAssumption

\* So are the clock and the checkpoint.
LEMMA StateNumbers ==
    ASSUME TypeOK
    PROVE  /\ now \in Nat /\ visible \in Nat /\ windowStart \in Nat /\ cursor \in Nat
           /\ until \in Nat /\ position \in Nat /\ pages \in Nat /\ known \in Nat /\ faults \in Nat
           /\ \A e \in 1 .. visible : e \in Event /\ eventTime[e] \in Nat
<1>1. /\ now \in Nat /\ visible \in Nat /\ windowStart \in Nat /\ cursor \in Nat
      /\ until \in Nat /\ position \in Nat /\ pages \in Nat /\ known \in Nat /\ faults \in Nat
      /\ visible <= NumEvents
  BY Numbers DEF TypeOK
<1>2. ASSUME NEW e \in 1 .. visible PROVE e \in Event /\ eventTime[e] \in Nat
  <2>1. e \in Event BY <1>1, Numbers DEF Event
  <2>2. eventTime[e] \in 0 .. MaxTime BY <2>1 DEF TypeOK
  <2> QED BY <2>1, <2>2, Numbers
<1> QED BY <1>1, <1>2

\* The clock, and new events upstream.
LEMMA UpstreamSound ==
    ASSUME Sound, Tick \/ \E t \in 0 .. now : Appear(t)
    PROVE  Sound'
<1> USE DEF Sound, upstream, storeVars, jobVars, cycleVars, history
<1>1. CASE Tick
  <2>1. now' \in 0 .. MaxTime /\ now <= now' BY <1>1, Numbers DEF Tick, TypeOK
  <2>2. /\ now' = now + 1
        /\ UNCHANGED <<visible, eventTime, windowStart, cursor, keys, rows, processed, objects, job, pc,
          until, position, more, pages, page, newKeys, newRows, known, reading, sponsored,
          damaged, left, overtaken, conversations, tombstones, faults>>
    BY <1>1 DEF Tick
  <2>3. TypeOK' BY <2>1, <2>2 DEF TypeOK, Pending
  <2>4. ClaimsKept' BY <2>2 DEF ClaimsKept
  <2>5. (windowStart <= now => windowStart <= now') /\ (until <= now => until <= now')
    BY <2>1, <2>2, StateNumbers
  <2>6. CycleSound' BY <2>2, <2>5 DEF CycleSound, Accounted, Since
  <2> QED BY <2>3, <2>4, <2>6
<1>2. ASSUME NEW t \in 0 .. now, Appear(t) PROVE Sound'
  <2>0. /\ visible \in Nat /\ visible < NumEvents /\ visible' = visible + 1
        /\ eventTime' = [eventTime EXCEPT ![visible + 1] = t] /\ t >= now - Lateness
        /\ UNCHANGED <<now, windowStart, cursor, keys, rows, processed, objects, job, pc,
          until, position, more, pages, page, newKeys, newRows, known, reading, sponsored,
          damaged, left, overtaken, conversations, tombstones, faults>>
    BY <1>2, StateNumbers DEF Appear
  <2>1. visible' \in 0 .. NumEvents /\ visible + 1 \in Event BY <2>0, Numbers DEF Event
  <2>2. t \in 0 .. MaxTime BY Numbers DEF TypeOK
  <2>3. eventTime' \in [Event -> 0 .. MaxTime] BY <2>0, <2>2 DEF TypeOK
  <2>4. TypeOK' BY <2>0, <2>1, <2>3 DEF TypeOK, Pending
  <2>5. ClaimsKept' BY <2>0 DEF ClaimsKept
  <2>6. \A e \in 1 .. visible : e \in 1 .. visible' /\ eventTime'[e] = eventTime[e] /\ e # visible + 1
    BY <2>0, StateNumbers DEF TypeOK
  <2>7. eventTime'[visible + 1] = t BY <2>0, <2>1 DEF TypeOK
  <2>8. \A e \in 1 .. visible' : e \in 1 .. visible \/ e = visible + 1 BY <2>0
  <2>9. ASSUME NEW e \in 1 .. visible', e <= cursor PROVE e \in keys \cup left
    <3>1. e \in 1 .. visible BY <2>0, <2>8, <2>9, StateNumbers DEF CycleSound
    <3> QED BY <2>9, <3>1 DEF CycleSound
  <2>10. ASSUME pc # "idle"
         PROVE  /\ \A e \in 1 .. visible' : e > known => eventTime'[e] >= until - Lateness
                /\ \A e \in 1 .. visible' : e <= position /\ eventTime'[e] \in Since .. until
                                              => Accounted(e) \/ e \in page
    <3>1. until <= now /\ position <= visible BY <2>10 DEF CycleSound
    <3>2. t >= until - Lateness BY <2>0, <3>1, StateNumbers, Numbers
    <3>3. ASSUME NEW e \in 1 .. visible', e > known PROVE eventTime'[e] >= until - Lateness
      BY <2>10, <2>6, <2>7, <2>8, <3>2, <3>3 DEF CycleSound
    <3>4. ASSUME NEW e \in 1 .. visible', e <= position, eventTime'[e] \in Since .. until
          PROVE  Accounted(e) \/ e \in page
      <4>1. e \in 1 .. visible BY <2>0, <2>8, <3>1, <3>4, StateNumbers
      <4> QED BY <2>10, <2>6, <3>4, <4>1 DEF CycleSound
    <3> QED BY <3>3, <3>4
  <2>11. ASSUME pc = "persisting", ~more, NEW e \in 1 .. known, eventTime'[e] \in Since .. until
         PROVE  e <= position
    <3>1. e \in 1 .. visible BY <2>11, StateNumbers DEF CycleSound
    <3> QED BY <2>6, <2>11, <3>1 DEF CycleSound
  <2>12. cursor <= visible' /\ (pc # "idle" => known <= visible' /\ position <= visible')
    BY <2>0, StateNumbers DEF CycleSound
  <2>13. CycleSound'
    BY <2>0, <2>9, <2>10, <2>11, <2>12 DEF CycleSound, Accounted, Since
  <2> QED BY <2>4, <2>5, <2>13
<1> QED BY <1>1, <1>2

\* A cycle starts, and fetches its pages.
LEMMA FetchSound ==
    ASSUME Sound, StartCycle \/ FetchPage \/ NextPage
    PROVE  Sound'
<1> USE DEF Sound, upstream, storeVars, jobVars, history
<1>1. CASE StartCycle
  <2>0. /\ pc = "idle" /\ pc' = "fetching" /\ until' = now /\ position' = cursor /\ more' = FALSE
        /\ pages' = 0 /\ known' = visible
        /\ UNCHANGED <<now, visible, eventTime, windowStart, cursor, keys, rows, processed, objects,
          job, page, newKeys, newRows, reading, sponsored, damaged, left, overtaken, conversations, tombstones,
          faults>>
    BY <1>1 DEF StartCycle
  <2>1. 0 \in 0 .. MaxPages BY Numbers
  <2>2. TypeOK' BY <2>0, <2>1 DEF TypeOK, Pending
  <2>3. ClaimsKept' BY <2>0 DEF ClaimsKept
  <2>4. \A e \in 1 .. visible : ~(e > visible) BY StateNumbers
  <2>5. now <= now /\ visible <= visible /\ 0 < MaxPages BY StateNumbers, Numbers
  <2>6. CycleSound' BY <2>0, <2>4, <2>5 DEF CycleSound, ClaimsKept, Accounted
  <2> QED BY <2>2, <2>3, <2>6
<1>2. CASE FetchPage
  <2>0. /\ pc = "fetching" /\ pc' = "persisting" /\ page' = NewPage /\ more' = (NewPage # Answer)
        /\ position' = (IF NewPage = {} THEN position ELSE Max(NewPage)) /\ pages' = pages + 1
        /\ UNCHANGED <<now, visible, eventTime, windowStart, cursor, keys, rows, processed, objects,
          job, until, newKeys, newRows, known, reading, sponsored, damaged, left, overtaken, conversations,
          tombstones, faults>>
    BY <1>2 DEF FetchPage, NewPage, HasMore
  <2>1. NewPage \in SUBSET Answer /\ Answer \in SUBSET (1 .. visible)
        /\ Answer \in SUBSET Event
    BY StateNumbers DEF NewPage, Answer
  <2>2. position' \in 0 .. NumEvents /\ position' <= visible /\ position <= position'
    <3>1. CASE NewPage = {} BY <2>0, <3>1, StateNumbers DEF TypeOK, CycleSound
    <3>2. CASE NewPage # {}
      <4>1. Max(NewPage) \in Answer BY <2>1, <3>2, PageIsPrefix
      <4>2. position' = Max(NewPage) BY <2>0, <3>2
      <4>3. position < position' /\ position' \in 1 .. visible BY <4>1, <4>2 DEF Answer
      <4>4. visible \in 0 .. NumEvents BY DEF TypeOK
      <4> QED BY <4>3, <4>4, StateNumbers, Numbers
    <3> QED BY <3>1, <3>2
  <2>3. pages' \in 0 .. MaxPages BY <2>0, StateNumbers, Numbers DEF CycleSound
  <2>4. TypeOK' BY <2>0, <2>1, <2>2, <2>3 DEF TypeOK, Pending
  <2>5. ClaimsKept' BY <2>0 DEF ClaimsKept
  <2>6. ASSUME NEW e \in 1 .. visible, e <= position', eventTime[e] \in Since .. until
        PROVE  Accounted(e) \/ e \in NewPage
    <3>1. CASE e <= position
      <4>1. Accounted(e) \/ e \in page BY <2>0, <2>6, <3>1 DEF CycleSound
      <4>2. page = {} BY <2>0 DEF CycleSound
      <4> QED BY <4>1, <4>2
    <3>2. CASE ~(e <= position)
      <4>1. e \in Answer BY <2>6, <3>2, StateNumbers DEF Answer
      <4>2. NewPage # {} /\ position' = Max(NewPage) BY <2>0, <2>6, <3>2
      <4> QED BY <2>6, <4>1, <4>2, PageIsPrefix
    <3> QED BY <3>1, <3>2
  <2>7. ASSUME NewPage = Answer, NEW e \in 1 .. known, eventTime[e] \in Since .. until
        PROVE  e <= position'
    <3>1. e \in 1 .. visible BY <2>0, StateNumbers DEF CycleSound
    <3>2. CASE e <= position
      <4>1. e \in Nat /\ position \in Nat /\ position' \in Nat BY <2>2, <3>1, StateNumbers, Numbers
      <4> QED BY <2>2, <3>2, <4>1
    <3>3. CASE ~(e <= position)
      <4>1. e \in NewPage BY <2>7, <3>1, <3>3, StateNumbers DEF Answer
      <4> QED BY <2>0, <4>1, PageIsPrefix
    <3> QED BY <3>2, <3>3
  <2>8. CycleSound' BY <2>0, <2>2, <2>6, <2>7 DEF CycleSound, Accounted, Since
  <2> QED BY <2>4, <2>5, <2>8
<1>3. CASE NextPage
  <2>0. /\ pc = "persisting" /\ ~LastPage /\ pc' = "fetching"
        /\ UNCHANGED <<now, visible, eventTime, windowStart, cursor, keys, rows, processed, objects,
          job, until, position, more, pages, page, newKeys, newRows, known, reading, sponsored,
          damaged, left, overtaken, conversations, tombstones, faults>>
    BY <1>3 DEF NextPage
  <2>1. pages < MaxPages /\ page = {}
    BY <1>3, <2>0, StateNumbers, Numbers DEF LastPage, NextPage
  <2>2. TypeOK' BY <2>0 DEF TypeOK, Pending
  <2>3. ClaimsKept' BY <2>0 DEF ClaimsKept
  <2>4. CycleSound' BY <2>0, <2>1 DEF CycleSound, Accounted, Since
  <2> QED BY <2>2, <2>3, <2>4
<1> QED BY <1>1, <1>2, <1>3

\* An event of the page is stored, or has been imported before.
LEMMA PersistSound ==
    ASSUME Sound, NEW e \in page, PersistEvent(e)
    PROVE  Sound'
<1> USE DEF Sound, upstream, storeVars, jobVars, history
<1>0. /\ pc = "persisting" /\ page' = page \ {e} /\ e \in Event
      /\ UNCHANGED <<now, visible, eventTime, windowStart, cursor, keys, rows, processed, job, pc,
          until, position, more, pages, known, reading, sponsored, damaged, left, overtaken, conversations,
          tombstones, faults>>
  BY DEF PersistEvent, TypeOK
<1>1. CASE AlreadyImported(e)
  <2>1. UNCHANGED <<newKeys, newRows, objects>> BY <1>1 DEF PersistEvent
  <2>2. TypeOK' BY <1>0, <2>1 DEF TypeOK, Pending
  <2>3. ClaimsKept' BY <1>0, <2>1 DEF ClaimsKept
  <2>4. CycleSound' BY <1>0, <1>1, <2>1 DEF CycleSound, Accounted, Since, AlreadyImported
  <2> QED BY <2>2, <2>3, <2>4
<1>2. CASE ~AlreadyImported(e)
  <2>1. /\ newKeys' = newKeys \cup {e} /\ newRows' = newRows \cup {e}
        /\ objects' = objects \cup {e} /\ e \notin keys
    BY <1>2 DEF PersistEvent, AlreadyImported
  <2>2. TypeOK' BY <1>0, <2>1 DEF TypeOK, Pending
  <2>3. ClaimsKept' BY <1>0, <2>1 DEF ClaimsKept
  <2>4. CycleSound' BY <1>0, <2>1 DEF CycleSound, Accounted, Since
  <2> QED BY <2>2, <2>3, <2>4
<1> QED BY <1>1, <1>2

\* The cycle ends: what it leaves in the checkpoint has to be accounted for.
LEMMA EndSound ==
    ASSUME Sound, EndCycle, UNCHANGED <<now, visible, eventTime, processed, conversations, tombstones>>,
           keys' \subseteq Event, rows' \subseteq keys', damaged' \subseteq keys' \ rows',
           keys' = rows' \cup damaged', rows' \subseteq objects', objects' \subseteq Event,
           processed \subseteq rows', sponsored' \subseteq rows', left' \subseteq Event,
           overtaken' \subseteq rows',
           reading' \subseteq rows' \ processed, job' \in {"none", "pending", "running"},
           faults' \in 0 .. MaxFaults,
           windowStart' \in {windowStart, until}, pc # "idle",
           cursor' \in 0 .. NumEvents /\ cursor' <= visible,
           \A e \in 1 .. visible : e <= cursor' => e \in keys' \cup left'
    PROVE  Sound'
<1>1. 0 \in 0 .. MaxTime /\ 0 \in 0 .. NumEvents /\ 0 \in 0 .. MaxPages BY Numbers
<1>2. /\ pc' = "idle" /\ page' = {} /\ newKeys' = {} /\ newRows' = {}
      /\ until' = 0 /\ position' = 0 /\ more' = FALSE /\ pages' = 0 /\ known' = 0
  BY DEF EndCycle
<1>3. windowStart' \in 0 .. MaxTime /\ windowStart' <= now BY DEF Sound, TypeOK, CycleSound
<1>4. TypeOK' BY <1>1, <1>2, <1>3 DEF Sound, TypeOK, Pending
<1>5. ClaimsKept' BY <1>2 DEF ClaimsKept
<1>6. CycleSound' BY <1>2, <1>3 DEF CycleSound
<1> QED BY <1>4, <1>5, <1>6 DEF Sound

\* The checkpoint advances, and the transaction commits.
LEMMA AdvanceSound == ASSUME Sound, Advance PROVE Sound'
<1> USE DEF Sound, upstream, storeVars, jobVars
<1>1. /\ pc = "persisting" /\ EndCycle /\ windowStart' = until
      /\ keys' = keys \cup newKeys /\ rows' = rows \cup newRows
      /\ cursor' = (IF more THEN position ELSE 0)
      /\ left' = (IF more THEN left \cup Unclaimed ELSE left)
      /\ job' \in {job, "pending"} /\ sponsored' \in {sponsored, sponsored \cup newRows}
      /\ UNCHANGED <<now, visible, eventTime, objects, reading, processed, conversations, tombstones,
                     damaged, overtaken, faults>>
  BY DEF Advance
<1>2. Unclaimed \subseteq Event BY StateNumbers DEF Unclaimed
<1>3. cursor' \in 0 .. NumEvents /\ cursor' <= visible
  BY <1>1, StateNumbers, Numbers DEF TypeOK, CycleSound
<1>4. ASSUME NEW e \in 1 .. visible, e <= cursor' PROVE e \in keys' \cup left'
  <2>1. more /\ e <= position BY <1>1, <1>4
  <2>2. e \in keys \cup newKeys \/ e \in Unclaimed BY <2>1 DEF Unclaimed
  <2> QED BY <1>1, <2>1, <2>2
<1>5. /\ keys' \subseteq Event /\ rows' \subseteq keys' /\ damaged' \subseteq keys' \ rows'
      /\ keys' = rows' \cup damaged' /\ rows' \subseteq objects' /\ sponsored' \subseteq rows'
      /\ processed \subseteq rows' /\ overtaken' \subseteq rows' /\ left' \subseteq Event /\ objects' \subseteq Event
      /\ reading' \subseteq rows' \ processed
  BY <1>1, <1>2 DEF TypeOK, ClaimsKept, Pending
<1>6. job' \in {"none", "pending", "running"} /\ faults' \in 0 .. MaxFaults BY <1>1 DEF TypeOK
<1> QED BY <1>1, <1>3, <1>4, <1>5, <1>6, EndSound

\* A cycle fails: what it has inserted so far is committed, its claims included.
LEMMA FailSound ==
    ASSUME Sound, NEW K \in SUBSET Event, FailCycle(K), pc # "idle", K \cap (keys \cup newKeys) = {},
           objects \subseteq objects', objects' \subseteq Event
    PROVE  Sound'
<1> USE DEF Sound, upstream, storeVars, jobVars
<1>1. /\ EndCycle /\ windowStart' = windowStart
      /\ keys' = keys \cup newKeys \cup K /\ rows' = rows \cup newRows /\ damaged' = damaged \cup K
      /\ UNCHANGED <<now, visible, eventTime, cursor, job, reading, processed, conversations,
                     tombstones, sponsored, left, overtaken>>
  BY DEF FailCycle, WindowAfterFailure
<1>2. faults' \in 0 .. MaxFaults BY StateNumbers, Numbers DEF FailCycle, Fault
<1>3. /\ keys' \subseteq Event /\ rows' \subseteq keys' /\ damaged' \subseteq keys' \ rows'
      /\ keys' = rows' \cup damaged' /\ rows' \subseteq objects' /\ sponsored' \subseteq rows'
      /\ processed \subseteq rows' /\ overtaken' \subseteq rows' /\ left' \subseteq Event
      /\ reading' \subseteq rows' \ processed
  BY <1>1 DEF TypeOK, ClaimsKept, Pending
<1>4. job' \in {"none", "pending", "running"} /\ cursor' \in 0 .. NumEvents /\ cursor' <= visible
  BY <1>1 DEF TypeOK, CycleSound
<1>5. \A e \in 1 .. visible : e <= cursor' => e \in keys' \cup left' BY <1>1 DEF CycleSound
<1> QED BY <1>1, <1>2, <1>3, <1>4, <1>5, EndSound

\* The poller fails or dies.
LEMMA FaultSound ==
    ASSUME Sound, FetchFails \/ PollerDies \/ \E e \in page : StorageError(e)
    PROVE  Sound'
<1>1. CASE FetchFails
  <2>1. FailCycle({}) /\ pc # "idle" /\ objects' = objects BY <1>1 DEF FetchFails
  <2> QED BY <2>1, FailSound DEF Sound, TypeOK
<1>2. CASE PollerDies
  <2>1. /\ EndCycle /\ pc # "idle"
        /\ UNCHANGED <<now, visible, eventTime, windowStart, cursor, keys, rows, objects, job, reading,
                       processed, conversations, tombstones, sponsored, damaged, left, overtaken>>
    BY <1>2 DEF PollerDies, upstream, storeVars, jobVars, history
  <2>2. faults' \in 0 .. MaxFaults BY <1>2, StateNumbers, Numbers DEF PollerDies, Fault, Sound
  <2>3. /\ keys' \subseteq Event /\ rows' \subseteq keys' /\ damaged' \subseteq keys' \ rows'
        /\ keys' = rows' \cup damaged' /\ rows' \subseteq objects' /\ sponsored' \subseteq rows'
        /\ processed \subseteq rows' /\ overtaken' \subseteq rows' /\ left' \subseteq Event /\ objects' \subseteq Event
        /\ reading' \subseteq rows' \ processed /\ job' \in {"none", "pending", "running"}
    BY <2>1 DEF Sound, TypeOK, ClaimsKept, Pending
  <2>4. cursor' \in 0 .. NumEvents /\ cursor' <= visible BY <2>1 DEF Sound, TypeOK, CycleSound
  <2>5. \A e \in 1 .. visible : e <= cursor' => e \in keys' \cup left' BY <2>1 DEF Sound, CycleSound
  <2> QED BY <2>1, <2>2, <2>3, <2>4, <2>5, EndSound
<1>3. ASSUME NEW e \in page, StorageError(e) PROVE Sound'
  <2>1. e \in Event /\ FailCycle({e}) /\ pc # "idle" /\ e \notin keys \cup newKeys
    BY <1>3 DEF StorageError, AlreadyImported, Sound, TypeOK
  <2>2. objects' \in {objects, objects \cup {e}} BY <1>3 DEF StorageError
  <2>3. objects \subseteq objects' /\ objects' \subseteq Event BY <2>1, <2>2 DEF Sound, TypeOK
  <2> QED BY <2>1, <2>3, FailSound
<1> QED BY <1>1, <1>2, <1>3

\* The import only marks rows and adds conversations.
LEMMA ImportSound ==
    ASSUME Sound, ImportStep \/ ImportFails \/ UNCHANGED vars
    PROVE  Sound'
<1> USE DEF Sound, upstream, storeVars, cycleVars, history
<1>1. /\ UNCHANGED <<now, visible, eventTime, windowStart, cursor, keys, rows, objects, pc, until,
            position, more, pages, page, newKeys, newRows, known, sponsored, damaged, left>>
  BY DEF ImportStep, ReadPending, CommitImport, ImportConflicts, ImportFails, RollBack, vars
<1>2. ClaimsKept' BY <1>1 DEF ClaimsKept
<1>3. CycleSound' BY <1>1 DEF CycleSound, Accounted, Since
<1>4. /\ processed' \subseteq rows /\ reading' \subseteq rows \ processed'
      /\ job' \in {"none", "pending", "running"}
      /\ conversations' \subseteq Conversation /\ tombstones' \subseteq conversations'
      /\ overtaken' \subseteq rows /\ faults' \in 0 .. MaxFaults
  <2>1. CASE ReadPending BY <2>1 DEF ReadPending, TypeOK, Pending, Oldest
  <2>2. CASE CommitImport
    <3>1. \A e \in reading : ConversationOf[e] \in Conversation
      BY ComplianceAssumption DEF TypeOK, Pending
    <3>2. Overtaken \subseteq rows
      BY DEF Overtaken, Pending
    <3>3. faults' = faults
      BY <2>2 DEF CommitImport
    <3> QED BY <2>2, <3>1, <3>2, <3>3 DEF CommitImport, TypeOK, Pending, Tombstoned
  <2>3. CASE ImportConflicts BY <2>3 DEF ImportConflicts, RollBack, TypeOK, Pending
  <2>4. CASE ImportFails
    <3>1. faults' \in 0 .. MaxFaults BY <2>4, StateNumbers, Numbers DEF ImportFails, Fault
    <3> QED BY <2>4, <3>1 DEF ImportFails, RollBack, TypeOK, Pending
  <2>5. CASE UNCHANGED vars BY <2>5 DEF vars, TypeOK, Pending
  <2> QED BY <2>1, <2>2, <2>3, <2>4, <2>5 DEF ImportStep
<1>5. TypeOK' BY <1>1, <1>4 DEF TypeOK, Pending
<1> QED BY <1>2, <1>3, <1>5

\* Every step keeps the state of the feed sound.
LEMMA NextSound == Sound /\ [Next]_vars => Sound'
BY UpstreamSound, FetchSound, PersistSound, AdvanceSound, FaultSound, ImportSound
   DEF Next, CycleStep

\* The feed's tables, checkpoint and cycle keep their types; keys claimed are rows
\* or damaged, and the cycle's position accounts for the log before it.
LEMMA AlwaysSound == Spec => []Sound
BY InitSound, NextSound, PTL DEF Spec

-----------------------------------------------------------------------------
(* Nothing is skipped *)

\* Whatever fails and wherever the poller dies, rows, claimed keys and processed
\* rows keep their types and stay nested (source_events, source_event_keys).
THEOREM FeedTypes == Spec => []TypeOK
BY AlwaysSound, PTL DEF Sound

\* A cycle that advances has stored its window, what it found of it in the log.
LEMMA WindowIsStored ==
    ASSUME Sound, Advance, NEW e \in 1 .. known, eventTime[e] \in Since .. until,
           e \notin damaged \cup left'
    PROVE  Stored(e)'
<1>1. /\ pc = "persisting" /\ page = {} /\ rows' = rows \cup newRows /\ UNCHANGED objects
      /\ left' = (IF more THEN left \cup Unclaimed ELSE left)
  BY DEF Advance
<1>2. e \in 1 .. visible /\ eventTime[e] <= until
  BY <1>1, StateNumbers DEF Sound, CycleSound, Since
<1>3. e \in keys \cup newKeys
  <2>1. CASE more
    <3>1. e \notin Unclaimed BY <1>1, <2>1
    <3> QED BY <1>2, <3>1 DEF Unclaimed
  <2>2. CASE ~more
    <3>1. e <= position BY <1>1, <2>2 DEF Sound, CycleSound
    <3>2. Accounted(e) BY <1>1, <1>2, <3>1 DEF Sound, CycleSound
    <3>3. e \notin left BY <1>1, <2>2
    <3> QED BY <3>2, <3>3 DEF Accounted
  <2> QED BY <2>1, <2>2
<1>4. e \in rows' /\ e \in objects' BY <1>1, <1>3 DEF Sound, ClaimsKept
<1> QED BY <1>4 DEF Stored

\* Only Advance moves the window, the log keeps what it has, rows and objects stay.
LEMMA WindowSteps ==
    ASSUME Sound, [Next]_vars
    PROVE  /\ Advance \/ windowStart' = windowStart
           /\ rows \subseteq rows' /\ objects \subseteq objects'
           /\ damaged \subseteq damaged' /\ left \subseteq left'
           /\ (\E t \in 0 .. now : Appear(t)) \/ UNCHANGED <<visible, eventTime>>
<1> USE DEF upstream, storeVars, jobVars, cycleVars, history
<1>1. CASE Tick BY <1>1 DEF Tick
<1>2. ASSUME NEW t \in 0 .. now, Appear(t)
      PROVE  UNCHANGED <<windowStart, rows, objects, damaged, left>>
  BY <1>2 DEF Appear
<1>3. CASE StartCycle \/ FetchPage \/ NextPage BY <1>3 DEF StartCycle, FetchPage, NextPage
<1>4. CASE Advance BY <1>4 DEF Advance
<1>5. ASSUME NEW e \in page, PersistEvent(e)
      PROVE  objects \subseteq objects' /\ UNCHANGED <<visible, eventTime, windowStart, rows, damaged, left>>
  BY <1>5 DEF PersistEvent
<1>6. ASSUME NEW K, FailCycle(K)
      PROVE  /\ UNCHANGED <<visible, eventTime, windowStart, left>>
             /\ rows \subseteq rows' /\ damaged \subseteq damaged'
  BY <1>6 DEF FailCycle, WindowAfterFailure
<1>7. CASE FetchFails BY <1>6, <1>7 DEF FetchFails
<1>8. ASSUME NEW e \in page, StorageError(e)
      PROVE  /\ UNCHANGED <<visible, eventTime, windowStart, left>>
             /\ rows \subseteq rows' /\ damaged \subseteq damaged' /\ objects \subseteq objects'
  BY <1>6, <1>8 DEF StorageError
<1>9. CASE PollerDies BY <1>9 DEF PollerDies
<1>10. CASE ImportStep \/ ImportFails \/ UNCHANGED vars
  BY <1>10 DEF ImportStep, ReadPending, CommitImport, ImportConflicts, ImportFails, RollBack, vars
<1> QED BY <1>1, <1>2, <1>3, <1>4, <1>5, <1>7, <1>8, <1>9, <1>10 DEF Next, CycleStep

\* window_start moves only when every event of the window that the cycle found in
\* the log is in PostgreSQL and S3, storage errors and the page limit aside
\* (advance_checkpoint).
THEOREM WindowIsComplete == Spec => WindowStored
<1>1. Sound /\ [Next]_vars =>
         [windowStart' # windowStart =>
            \A e \in (1 .. known) \ (damaged \cup left') :
               eventTime[e] \in Since .. until => Stored(e)']_vars
  BY WindowSteps, WindowIsStored
<1> QED BY <1>1, AlwaysSound, PTL DEF Spec, WindowStored

\* A step skips nothing, if what appears late is still within the overlap.
LEMMA SkippedNext ==
    ASSUME Lateness <= Overlap, Sound, NothingSkipped, [Next]_vars
    PROVE  NothingSkipped'
<1> SUFFICES ASSUME NEW e \in 1 .. visible', e \notin damaged' \cup left',
                    eventTime'[e] < windowStart' - Overlap
             PROVE  Stored(e)'
  BY DEF NothingSkipped
<1> USE DEF Sound
<1>0. Lateness \in Nat /\ Overlap \in Nat BY Numbers
<1>1. e \notin damaged \cup left /\ (Stored(e) => Stored(e)') BY WindowSteps DEF Stored
<1>2. CASE UNCHANGED <<visible, eventTime, windowStart>> BY <1>1, <1>2 DEF NothingSkipped
<1>3. CASE \E t \in 0 .. now : Appear(t)
  <2>1. PICK t \in 0 .. now : Appear(t) BY <1>3
  <2>2. /\ visible' = visible + 1 /\ eventTime' = [eventTime EXCEPT ![visible + 1] = t]
        /\ t >= now - Lateness /\ windowStart' = windowStart /\ visible < NumEvents
    BY <2>1 DEF Appear
  <2>3. visible + 1 \in Event BY <2>2, StateNumbers, Numbers DEF Event
  <2>4. CASE e = visible + 1
    <3>1. eventTime'[e] = t BY <2>2, <2>3, <2>4 DEF TypeOK
    <3>2. windowStart <= now BY DEF CycleSound
    <3> QED BY <1>0, <2>2, <3>1, <3>2, StateNumbers
  <2>5. CASE e # visible + 1
    <3>1. e \in 1 .. visible BY <2>2, <2>5, StateNumbers
    <3>2. eventTime'[e] = eventTime[e] BY <2>2, <2>5, <3>1, StateNumbers DEF TypeOK
    <3> QED BY <1>1, <2>2, <3>1, <3>2 DEF NothingSkipped
  <2> QED BY <2>4, <2>5
<1>4. CASE Advance
  <2>1. /\ windowStart' = until /\ UNCHANGED <<visible, eventTime, damaged>> /\ pc = "persisting"
    BY <1>4 DEF Advance, upstream
  <2>2. e \in 1 .. visible /\ eventTime[e] < until - Overlap BY <2>1
  <2>3. CASE eventTime[e] < windowStart - Overlap BY <1>1, <2>2, <2>3 DEF NothingSkipped
  <2>4. CASE ~(eventTime[e] < windowStart - Overlap)
    <3>1. eventTime[e] \in Nat /\ until \in Nat /\ windowStart \in Nat /\ known \in Nat
          /\ e \in Nat /\ e >= 1
      BY <2>2, StateNumbers
    <3>2. eventTime[e] \in Since .. until BY <1>0, <2>2, <2>4, <3>1 DEF Since
    <3>3. ~(e > known)
      <4>1. e > known => eventTime[e] >= until - Lateness BY <2>1, <2>2 DEF CycleSound
      <4> QED BY <1>0, <2>2, <3>1, <4>1
    <3>4. e \in 1 .. known BY <3>1, <3>3
    <3> QED BY <1>1, <1>4, <3>2, <3>4, WindowIsStored
  <2> QED BY <2>3, <2>4
<1> QED BY <1>2, <1>3, <1>4, WindowSteps

\* "A crash causes reprocessing, never loss", and a late event is still collected
\* (docs/COMPLIANCE_ADAPTER.md:64-67), for every log and every number of crashes,
\* if no event appears later than the overlap of the windows.
THEOREM FeedSkipsNothing ==
    ASSUME Lateness <= Overlap
    PROVE  Spec => []NothingSkipped
<1>1. Init => NothingSkipped
  <2>1. SUFFICES ASSUME Init, NEW e \in 1 .. visible, eventTime[e] < windowStart - Overlap PROVE FALSE
    BY DEF NothingSkipped
  <2>2. TypeOK BY <2>1, InitSound DEF Sound
  <2>3. e \in Event /\ eventTime[e] \in Nat BY <2>1, <2>2, StateNumbers
  <2>4. windowStart = 0 BY <2>1 DEF Init
  <2> QED BY <2>1, <2>3, <2>4, Numbers
<1>2. Sound /\ NothingSkipped /\ [Next]_vars => NothingSkipped' BY SkippedNext
<1> QED BY <1>1, <1>2, AlwaysSound, PTL DEF Spec

=============================================================================
