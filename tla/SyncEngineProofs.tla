--------------------------- MODULE SyncEngineProofs ---------------------------
(***************************************************************************)
(* Proofs about SyncEngine, for any calls, batches, flushes, limits and    *)
(* faults.                                                                 *)
(***************************************************************************)
EXTENDS SyncEngine, FiniteSetTheorems, WellFoundedInduction, TLAPS

\* A nonempty set of naturals has a least element.
LEMMA LeastNatural ==
    ASSUME NEW S \in SUBSET Nat, S # {}
    PROVE  Min(S) \in S /\ \A n \in S : Min(S) <= n
<1> DEFINE Below(n) == {m \in S : m < n}
           T == {Below(n) : n \in S}
<1>1. ASSUME NEW n \in S PROVE Below(n) \in FiniteSubsetsOf(Nat)
  <2>1. IsFiniteSet(Below(n)) BY FS_BoundedSetOfNaturals
  <2> QED BY <2>1 DEF FiniteSubsetsOf
<1>2. T \subseteq FiniteSubsetsOf(Nat) /\ T # {} BY <1>1
<1>3. PICK B \in T : \A C \in T : <<C, B>> \notin StrictSubsetOrdering(Nat)
  BY <1>2, WFMin, FS_StrictSubsetOrderingWellFounded
<1>4. PICK n \in S : B = Below(n) OBVIOUS
<1>5. ASSUME NEW m \in S, m < n PROVE FALSE
  <2>1. Below(m) \subseteq Below(n) /\ m \in Below(n) /\ m \notin Below(m)
    <3>1. \A k \in S : k < m => k < n BY <1>5
    <3>2. ~(m < m) OBVIOUS
    <3> QED BY <1>5, <3>1, <3>2
  <2>2. <<Below(m), Below(n)>> \in StrictSubsetOrdering(Nat)
    BY <2>1 DEF StrictSubsetOrdering
  <2> QED BY <1>3, <1>4, <2>2
<1>6. \A m \in S : n <= m BY <1>5
<1> QED BY <1>6 DEF Min

\* The items are finitely many.
LEMMA IdFinite == /\ Cardinality(Call) \in Nat /\ Id \in SUBSET Nat
                  /\ \A S \in SUBSET Id : IsFiniteSet(S)
<1>1. Cardinality(Call) \in Nat BY SyncAssumption, FS_CardinalityType
<1>2. IsFiniteSet(Id) BY <1>1, FS_Interval DEF Id
<1>3. Id \in SUBSET Nat BY <1>1 DEF Id
<1> QED BY <1>1, <1>2, <1>3, FS_Subset

\* The bytes of the items of S, one by one.
ByteSet(S) == UNION {{i} \X (1 .. ByteSize[key[i]]) : i \in S}

\* They are finitely many.
LEMMA BytesFinite ==
    ASSUME NEW S \in SUBSET Id, \A i \in S : key[i] \in Key
    PROVE  IsFiniteSet(ByteSet(S))
<1> DEFINE f == [i \in S |-> {i} \X (1 .. ByteSize[key[i]])]
           T == {f[i] : i \in S}
<1>1. f \in Surjection(S, T) BY DEF Surjection
<1>2. IsFiniteSet(T) BY <1>1, IdFinite, FS_Surjection
<1>3. ASSUME NEW i \in S PROVE IsFiniteSet(f[i])
  <2>1. ByteSize[key[i]] \in Nat BY SyncAssumption
  <2>2. IsFiniteSet(1 .. ByteSize[key[i]]) BY <2>1, FS_Interval
  <2>3. IsFiniteSet({i}) BY FS_Singleton
  <2> QED BY <2>2, <2>3, FS_Product
<1>4. IsFiniteSet(UNION T) BY <1>2, <1>3, FS_UNION
<1>5. UNION T = ByteSet(S) BY DEF ByteSet
<1> QED BY <1>4, <1>5

\* The limits hold of a part of what they hold of.
LEMMA LimitsOfPart ==
    ASSUME NEW S \in SUBSET Id, NEW T \in SUBSET S, \A i \in S : key[i] \in Key,
           WithinLimits(S)
    PROVE  WithinLimits(T)
<1>1. IsFiniteSet(S) /\ IsFiniteSet(T) BY IdFinite
<1>2. Cardinality(T) <= Cardinality(S) /\ Cardinality(T) \in Nat /\ Cardinality(S) \in Nat
  BY <1>1, FS_Subset, FS_CardinalityType
<1>3. IsFiniteSet(ByteSet(S)) BY BytesFinite
<1>4. ByteSet(T) \in SUBSET ByteSet(S) BY DEF ByteSet
<1>5. /\ Cardinality(ByteSet(T)) <= Cardinality(ByteSet(S))
      /\ Cardinality(ByteSet(T)) \in Nat /\ Cardinality(ByteSet(S)) \in Nat
  BY <1>3, <1>4, FS_Subset, FS_CardinalityType
<1>6. Bytes(S) = Cardinality(ByteSet(S)) /\ Bytes(T) = Cardinality(ByteSet(T))
  BY DEF Bytes, ByteSet
<1> QED BY <1>2, <1>5, <1>6, SyncAssumption DEF WithinLimits

\* An empty queue is within the limits.
LEMMA EmptyWithin == WithinLimits({})
<1>1. Bytes({}) = Cardinality({}) BY DEF Bytes
<1> QED BY <1>1, FS_EmptySet, SyncAssumption DEF WithinLimits

\* What enforceLimits leaves is within the limits.
LEMMA LimitsEnforced ==
    ASSUME NEW n \in 0 .. Cardinality(Call), store \in SUBSET Id
    PROVE  LET cuts == {m \in n .. Cardinality(Call) : WithinLimits(Younger(m))}
           IN  WithinLimits(Younger(Min(cuts)))
<1> DEFINE cuts == {m \in n .. Cardinality(Call) : WithinLimits(Younger(m))}
<1>0. Cardinality(Call) \in Nat BY IdFinite
<1>1. Younger(Cardinality(Call)) = {}
  <2>1. \A i \in store : ~(i > Cardinality(Call)) BY <1>0 DEF Id
  <2> QED BY <2>1 DEF Younger
<1>2. Cardinality(Call) \in cuts BY <1>1, EmptyWithin, IdFinite
<1>3. cuts \in SUBSET Nat BY IdFinite
<1>4. Min(cuts) \in cuts BY <1>2, <1>3, LeastNatural
<1> QED BY <1>4

-----------------------------------------------------------------------------
(* Types, and the numbers of items *)

Sound == TypeOK /\ Numbered

\* A request that is sent, whatever comes back, only decides about its item.
SendStep(f, i) ==
    /\ i \in taken[f] /\ i = Min(taken[f])
    /\ verdict' \in {[verdict EXCEPT ![f] = "remove"], [verdict EXCEPT ![f] = "retry"]}
    /\ session' \in {"valid", "expired", "signed_out"}
    /\ settled' \in {settled \cup M : M \in SUBSET MessagesOf[key[i]]}
    /\ UNCHANGED <<store, key, attempts, due, created, stage, item, doomed, taken, copy,
                   failures, given_up, evicted, revived, faults>>

\* The steps of a flush.
LEMMA FlushCases ==
    ASSUME TypeOK, NEW f \in Flusher, FlushStep(f)
    PROVE  \/ TakeDue(f)
           \/ \E i \in taken[f] : SendStep(f, i) \/ Remove(f, i) \/ Reschedule(f, i)
<1>1. SUFFICES ASSUME NEW i \in taken[f],
               \/ SendUnauthenticated(f, i) \/ SendUnauthorized(f, i) \/ SendRefused(f, i)
               \/ \E class \in {"network_error", "retryable_status"} : SendFails(f, i, class)
               \/ \E Q \in SUBSET MessagesOf[key[i]], lost \in BOOLEAN :
                     SendIngested(f, i, Q, lost)
               PROVE SendStep(f, i)
  BY DEF FlushStep
<1> USE DEF Answer, Classify, Sending, queueVars, callVars, history, SendStep
<1>a. settled = settled \cup {} OBVIOUS
<1>b. SessionFor(session) \subseteq {"valid", "expired", "signed_out"} BY DEF SessionFor, TypeOK
<1>2. CASE SendUnauthenticated(f, i) BY <1>a, <1>2 DEF SendUnauthenticated
<1>3. CASE SendUnauthorized(f, i) BY <1>a, <1>b, <1>3 DEF SendUnauthorized, SendWithToken
<1>4. CASE SendRefused(f, i) BY <1>b, <1>4 DEF SendRefused, SendWithToken
<1>5. ASSUME NEW class \in {"network_error", "retryable_status"}, SendFails(f, i, class)
      PROVE  SendStep(f, i)
  BY <1>a, <1>b, <1>5 DEF SendFails, SendWithToken
<1>6. ASSUME NEW Q \in SUBSET MessagesOf[key[i]], NEW lost \in BOOLEAN, SendIngested(f, i, Q, lost)
      PROVE  SendStep(f, i)
  <2>1. MessagesOf[key[i]] \ Q \in SUBSET MessagesOf[key[i]] OBVIOUS
  <2> QED BY <1>b, <1>6, <2>1 DEF SendIngested, SendWithToken
<1> QED BY <1>1, <1>2, <1>3, <1>4, <1>5, <1>6

\* The numbers in use are those of items.
LEMMA NumbersAreIds ==
    ASSUME Sound
    PROVE  1 .. created \subseteq Id /\ created \in Nat /\ \A n \in 1 .. created : n \in Id
BY IdFinite DEF Sound, TypeOK, Id

\* A call that is new will find a number for its item.
LEMMA NumberLeft ==
    ASSUME Sound, NEW c \in Call, stage[c] = "new"
    PROVE  /\ created + 1 \in Id
           /\ created + 1 = Cardinality({x \in Call : item[x] # 0} \cup {c})
<1> DEFINE S == {x \in Call : item[x] # 0}
<1>1. c \notin S /\ S \cup {c} \in SUBSET Call BY DEF Sound, Numbered
<1>2. IsFiniteSet(S) BY FS_Subset, SyncAssumption
<1>3. created = Cardinality(S) BY DEF Sound, Numbered
<1>4. Cardinality(S \cup {c}) = created + 1 BY <1>1, <1>2, <1>3, FS_AddElement
<1>5. Cardinality(S \cup {c}) <= Cardinality(Call) BY <1>1, FS_Subset, SyncAssumption
<1>6. created \in Nat /\ Cardinality(Call) \in Nat BY IdFinite DEF Sound, TypeOK
<1> QED BY <1>4, <1>5, <1>6 DEF Id

\* A new item leaves the keys of those made before.
LEMMA KeysKept ==
    ASSUME Sound, NEW c \in Call, CheckKey(c)
    PROVE  \A i \in 1 .. created : key'[i] = key[i]
<1>1. key' = key \/ key' = [key EXCEPT ![created + 1] = KeyOf[c]] BY DEF CheckKey
<1>2. key \in [Id -> Key \cup {NoKey}] BY DEF Sound, TypeOK
<1>3. ASSUME NEW i \in 1 .. created PROVE i \in Id /\ i # created + 1 BY NumbersAreIds
<1> QED BY <1>1, <1>2, <1>3

\* Items leave the store.
LEMMA DeleteTyped ==
    ASSUME TypeOK, NEW S, Delete(S)
    PROVE  /\ store' \subseteq store /\ due' \subseteq store'
           /\ attempts' \in [Id -> 0 .. MaxAttempts - 1] /\ revived' \subseteq store'
BY SyncAssumption DEF TypeOK, Delete

\* Initially nothing is queued.
LEMMA InitSound == Init => Sound
<1> SUFFICES ASSUME Init PROVE Sound OBVIOUS
<1>0. 0 \in 0 .. MaxAttempts - 1 /\ 0 \in 0 .. MaxAttempts /\ 0 \in 0 .. MaxFaults
      /\ 0 \in 0 .. Cardinality(Call)
  BY IdFinite, SyncAssumption
<1>1. TypeOK
  <2>1. copy \in [Flusher -> [Id -> 0 .. MaxAttempts - 1]] BY <1>0 DEF Init
  <2>2. attempts \in [Id -> 0 .. MaxAttempts - 1] /\ failures \in [Id -> 0 .. MaxAttempts]
    BY <1>0 DEF Init
  <2>3. item \in [Call -> 0 .. Cardinality(Call)] BY <1>0 DEF Init
  <2> QED BY <1>0, <2>1, <2>2, <2>3 DEF Init, TypeOK
<1>2. {c \in Call : item[c] # 0} = {} BY DEF Init
<1>3. Numbered
  <2>1. created = Cardinality({c \in Call : item[c] # 0}) BY <1>2, FS_EmptySet DEF Init
  <2>2. 1 .. created = {} BY DEF Init
  <2>3. \A c \in Call : stage[c] = "new" /\ item[c] = 0 /\ 0 \in 0 .. created
    BY SyncAssumption DEF Init
  <2> QED BY <2>1, <2>2, <2>3 DEF Init, Numbered
<1> QED BY <1>1, <1>3 DEF Sound

\* The steps of enqueue and enforceLimits.
LEMMA EnqueueSound ==
    ASSUME Sound, NEW c \in Call \cup {boot}, EnqueueStep(c)
    PROVE  Sound'
<1> USE DEF Sound, flushVars, history, queueVars
<1>0. 1 .. created \subseteq Id /\ created \in Nat /\ Cardinality(Call) \in Nat
  BY NumbersAreIds, IdFinite
<1>1. CASE c \in Call /\ CheckKey(c)
  <2>0. stage[c] = "new" /\ item[c] = 0 BY <1>1 DEF CheckKey, Numbered
  <2>1. CASE UNCHANGED <<created, key, item>>
    <3>1. stage' = [stage EXCEPT ![c] = "done"] /\ UNCHANGED <<store, attempts, due, doomed,
             taken, copy, verdict, session, settled, failures, given_up, evicted, revived, faults>>
      BY <1>0, <1>1, <2>1 DEF CheckKey
    <3>2. TypeOK' BY <2>1, <3>1 DEF TypeOK
    <3>3. Numbered' BY <2>1, <3>1 DEF Numbered, TypeOK
    <3> QED BY <3>2, <3>3
  <2>2. CASE ~ UNCHANGED <<created, key, item>>
    <3>1. /\ created' = created + 1
          /\ key' = [key EXCEPT ![created + 1] = KeyOf[c]]
          /\ item' = [item EXCEPT ![c] = created + 1]
          /\ stage' = [stage EXCEPT ![c] = "add"]
          /\ UNCHANGED <<store, attempts, due, doomed, taken, copy, verdict, session, settled,
                         failures, given_up, evicted, revived, faults>>
      BY <1>1, <2>2 DEF CheckKey
    <3>2. /\ created + 1 \in Id /\ created + 1 \in 0 .. Cardinality(Call)
          /\ created + 1 = Cardinality({x \in Call : item[x] # 0} \cup {c})
      BY <1>0, <1>1, <2>0, NumberLeft DEF Id
    <3>3. KeyOf[c] \in Key BY <1>1, SyncAssumption
    <3>4. TypeOK' BY <3>1, <3>2, <3>3 DEF TypeOK
    <3>5. {x \in Call : item'[x] # 0} = {x \in Call : item[x] # 0} \cup {c}
      BY <1>0, <1>1, <3>1 DEF TypeOK
    <3>6. created' = Cardinality({x \in Call : item'[x] # 0}) BY <3>1, <3>2, <3>5
    <3>7. 1 .. created \subseteq 1 .. created' /\ \A i \in 1 .. created : key'[i] = key[i]
      BY <1>0, <1>1, <3>1, KeysKept
    <3>8. key'[created + 1] = KeyOf[c] BY <3>1, <3>2 DEF TypeOK
    <3>9. \A i \in 1 .. created' : key'[i] \in Key
      BY <1>0, <3>1, <3>3, <3>7, <3>8 DEF Numbered
    <3>10. ASSUME NEW x \in Call
           PROVE  /\ item'[x] \in 0 .. created'
                  /\ stage'[x] = "new" => item'[x] = 0
                  /\ stage'[x] = "add" => item'[x] # 0
                  /\ item'[x] # 0 => key'[item'[x]] = KeyOf[x]
      <4>1. CASE x = c BY <1>0, <3>1, <3>8, <4>1 DEF TypeOK
      <4>2. CASE x # c
        <5>1. item'[x] = item[x] /\ stage'[x] = stage[x] BY <3>1, <4>2 DEF TypeOK
        <5>2. item[x] \in 0 .. created BY DEF Numbered
        <5> QED BY <1>0, <3>1, <3>7, <5>1, <5>2 DEF Numbered
      <4> QED BY <4>1, <4>2
    <3>11. Numbered' BY <3>1, <3>6, <3>7, <3>9, <3>10 DEF Numbered
    <3> QED BY <3>4, <3>11
  <2> QED BY <2>1, <2>2
<1>2. CASE c \in Call /\ AddItem(c)
  <2>1. item[c] \in 1 .. created BY <1>0, <1>2 DEF AddItem, Numbered
  <2>2. TypeOK' BY <1>0, <1>2, <2>1 DEF AddItem, TypeOK
  <2>3. Numbered' BY <1>0, <1>2, <2>1 DEF AddItem, Numbered, TypeOK
  <2> QED BY <2>2, <2>3
<1>3. ASSUME NEW n \in 0 .. created, EnforceRead(c, n) PROVE Sound'
  <2>1. PICK gone : /\ doomed' = [doomed EXCEPT ![c] = gone] /\ gone \subseteq store
                    /\ stage' = [stage EXCEPT ![c] = IF gone = {} THEN "done" ELSE "delete"]
    BY <1>3 DEF EnforceRead
  <2>2. faults' \in 0 .. MaxFaults BY <1>3, SyncAssumption DEF EnforceRead, TypeOK
  <2>3. stage[c] = "enforce" /\ UNCHANGED <<store, key, attempts, due, created, item, taken, copy, verdict, session, settled,
                                            failures, given_up, evicted, revived>>
    BY <1>3 DEF EnforceRead
  <2>4. TypeOK' BY <2>1, <2>2, <2>3 DEF TypeOK
  <2>5. Numbered' BY <2>1, <2>3 DEF Numbered, TypeOK
  <2> QED BY <2>4, <2>5
<1>4. CASE EnforceDelete(c)
  <2>1. Delete(doomed[c]) BY <1>4 DEF EnforceDelete
  <2>2. TypeOK' BY <1>4, <2>1, DeleteTyped DEF EnforceDelete, TypeOK
  <2>3. Numbered' BY <1>4, <2>1, DeleteTyped DEF EnforceDelete, Numbered, TypeOK
  <2> QED BY <2>2, <2>3
<1> QED BY <1>1, <1>2, <1>3, <1>4 DEF EnqueueStep

\* The steps of a flush.
LEMMA FlushSound ==
    ASSUME Sound, NEW f \in Flusher, FlushStep(f)
    PROVE  Sound'
<1> USE DEF Sound, flushVars, history, queueVars, callVars
<1>0. 1 .. created \subseteq Id /\ created \in Nat BY NumbersAreIds
<1>1. CASE TakeDue(f)
  <2>1. PICK S \in SUBSET due :
          /\ taken' = [taken EXCEPT ![f] = S]
          /\ copy' = [copy EXCEPT ![f] = [i \in Id |-> IF i \in S THEN attempts[i] ELSE 0]]
    BY <1>1 DEF TakeDue
  <2>2. [i \in Id |-> IF i \in S THEN attempts[i] ELSE 0] \in [Id -> 0 .. MaxAttempts - 1]
    BY SyncAssumption DEF TypeOK
  <2>3. UNCHANGED <<store, key, attempts, due, created, stage, item, doomed, verdict, session,
                    settled, failures, given_up, evicted, revived, faults>>
    BY <1>1 DEF TakeDue
  <2>4. TypeOK' BY <2>1, <2>2, <2>3 DEF TypeOK
  <2>5. Numbered' BY <2>1, <2>3 DEF Numbered, TypeOK
  <2> QED BY <2>4, <2>5
<1>2. ASSUME NEW i \in taken[f], SendStep(f, i) PROVE Sound'
  <2>1. key[i] \in Key BY DEF Numbered
  <2>2. MessagesOf[key[i]] \subseteq Message BY <2>1, SyncAssumption
  <2>3. settled' \subseteq Message BY <1>2, <2>2 DEF SendStep, TypeOK
  <2>4. verdict' \in [Flusher -> {"none", "remove", "retry"}] BY <1>2 DEF SendStep, TypeOK
  <2>5. TypeOK' BY <1>2, <2>3, <2>4 DEF SendStep, TypeOK
  <2>6. Numbered' BY <1>2 DEF SendStep, Numbered
  <2> QED BY <2>5, <2>6
<1>3. ASSUME NEW i \in taken[f], Proceed(f, i)
      PROVE  /\ taken' \in [Flusher -> SUBSET Id]
             /\ copy' \in [Flusher -> [Id -> 0 .. MaxAttempts - 1]]
             /\ verdict' \in [Flusher -> {"none", "remove", "retry"}]
             /\ \A x \in Flusher : taken'[x] \subseteq taken[x]
  <2>1. copy[f] \in [Id -> 0 .. MaxAttempts - 1] BY DEF TypeOK
  <2>z. 0 \in 0 .. MaxAttempts - 1 BY SyncAssumption
  <2>2. [copy[f] EXCEPT ![i] = 0] \in [Id -> 0 .. MaxAttempts - 1] BY <2>1, <2>z
  <2>3. copy' = [copy EXCEPT ![f] = [copy[f] EXCEPT ![i] = 0]] BY <1>3 DEF Proceed, TypeOK
  <2>4. copy' \in [Flusher -> [Id -> 0 .. MaxAttempts - 1]] BY <2>2, <2>3 DEF TypeOK
  <2>5. taken' = [taken EXCEPT ![f] = taken[f] \ {i}] BY <1>3 DEF Proceed, TypeOK
  <2>6. taken' \in [Flusher -> SUBSET Id] /\ \A x \in Flusher : taken'[x] \subseteq taken[x]
    BY <2>5 DEF TypeOK
  <2>7. verdict' \in [Flusher -> {"none", "remove", "retry"}] BY <1>3 DEF Proceed, TypeOK
  <2> QED BY <2>4, <2>6, <2>7
<1>4. ASSUME NEW i \in taken[f], Remove(f, i) PROVE Sound'
  <2>1. Delete({i}) /\ Proceed(f, i) /\ UNCHANGED <<key, created, stage, item, doomed, session,
           settled, failures, given_up, evicted, faults>>
    BY <1>4 DEF Remove
  <2>2. TypeOK' BY <1>3, <2>1, DeleteTyped DEF TypeOK
  <2>3. Numbered' BY <1>3, <2>1, DeleteTyped DEF Numbered
  <2> QED BY <2>2, <2>3
<1>5. ASSUME NEW i \in taken[f], Reschedule(f, i) PROVE Sound'
  <2>0. i \in 1 .. created /\ i \in Id BY <1>0 DEF Numbered
  <2>1. Proceed(f, i) /\ CountFailure(i) /\ UNCHANGED <<key, created, stage, item, doomed, session,
           settled, evicted, faults>>
    BY <1>5 DEF Reschedule
  <2>2. failures' \in [Id -> 0 .. MaxAttempts]
    <3>1. failures[i] \in 0 .. MaxAttempts BY <2>0 DEF TypeOK
    <3>2. (IF failures[i] < MaxAttempts THEN failures[i] + 1 ELSE failures[i]) \in 0 .. MaxAttempts
      BY <3>1, SyncAssumption
    <3>3. failures' = [failures EXCEPT ![i] =
                         IF failures[i] < MaxAttempts THEN failures[i] + 1 ELSE failures[i]]
      BY <2>0, <2>1 DEF CountFailure, TypeOK
    <3> QED BY <3>2, <3>3 DEF TypeOK
  <2>3. CASE Exhausted(Bumped(copy[f][i]))
    <3>1. Delete({i}) /\ given_up' = given_up \cup {i} BY <1>5, <2>3 DEF Reschedule
    <3>2. TypeOK' BY <1>3, <2>0, <2>1, <2>2, <3>1, DeleteTyped DEF TypeOK
    <3>3. Numbered' BY <1>3, <2>1, <3>1, DeleteTyped DEF Numbered
    <3> QED BY <3>2, <3>3
  <2>4. CASE ~ Exhausted(Bumped(copy[f][i]))
    <3>1. /\ store' = store \cup {i} /\ due' = due \ {i}
          /\ attempts' = [attempts EXCEPT ![i] = Bumped(copy[f][i])]
          /\ revived' = (IF i \in store THEN revived ELSE revived \cup {i})
          /\ given_up' = given_up
      BY <1>5, <2>4 DEF Reschedule
    <3>2. copy[f][i] \in 0 .. MaxAttempts - 1 BY <2>0 DEF TypeOK
    <3>3. Bumped(copy[f][i]) \in 0 .. MaxAttempts - 1
      BY <2>4, <3>2, SyncAssumption DEF Bumped, Exhausted
    <3>4. attempts' \in [Id -> 0 .. MaxAttempts - 1] BY <3>1, <3>3 DEF TypeOK
    <3>5. store' \subseteq Id /\ due' \subseteq store' /\ revived' \subseteq store'
      BY <2>0, <3>1 DEF TypeOK
    <3>6. TypeOK' BY <1>3, <2>1, <2>2, <3>1, <3>4, <3>5 DEF TypeOK
    <3>7. Numbered' BY <1>3, <2>0, <2>1, <3>1 DEF Numbered
    <3> QED BY <3>6, <3>7
  <2> QED BY <2>3, <2>4
<1> QED BY <1>1, <1>2, <1>4, <1>5, FlushCases

\* The worker's death and the rest of the environment.
LEMMA OtherSound ==
    ASSUME Sound,
           (\E i \in Id : BackoffElapses(i)) \/ WorkerDies \/ TokenExpires \/ SignIn \/ UNCHANGED vars
    PROVE  Sound'
<1> USE DEF Sound, flushVars, history, queueVars, callVars
<1>1. ASSUME NEW i \in Id, BackoffElapses(i) PROVE Sound'
  BY <1>1 DEF BackoffElapses, TypeOK, Numbered
<1>2. CASE WorkerDies
  <2>0. 0 \in 0 .. MaxAttempts - 1 BY SyncAssumption
  <2>1. /\ copy' \in [Flusher -> [Id -> 0 .. MaxAttempts - 1]]
        /\ taken' \in [Flusher -> SUBSET Id]
        /\ verdict' \in [Flusher -> {"none", "remove", "retry"}]
        /\ doomed' \in [Call \cup {boot} -> SUBSET Id]
    BY <1>2, <2>0 DEF WorkerDies
  <2>2. stage' \in [Call \cup {boot} -> {"new", "add", "enforce", "delete", "done", "lost"}]
    BY <1>2 DEF WorkerDies, TypeOK
  <2>3. faults' \in 0 .. MaxFaults BY <1>2, SyncAssumption DEF WorkerDies, TypeOK
  <2>4. UNCHANGED <<store, key, attempts, due, created, item, session, settled, failures,
                    given_up, evicted, revived>>
    BY <1>2 DEF WorkerDies
  <2>5. TypeOK' BY <2>1, <2>2, <2>3, <2>4 DEF TypeOK
  <2>6. \A c \in Call : (stage'[c] = "new" => stage[c] = "new") /\ stage'[c] # "add"
    BY <1>2, SyncAssumption DEF WorkerDies, TypeOK
  <2>7. \A f \in Flusher : taken'[f] = {} BY <1>2 DEF WorkerDies
  <2>8. Numbered' BY <2>4, <2>6, <2>7 DEF Numbered
  <2> QED BY <2>5, <2>8
<1>3. CASE TokenExpires BY <1>3 DEF TokenExpires, TypeOK, Numbered
<1>4. CASE SignIn BY <1>4 DEF SignIn, TypeOK, Numbered
<1>5. CASE UNCHANGED vars BY <1>5 DEF vars, TypeOK, Numbered
<1> QED BY <1>1, <1>2, <1>3, <1>4, <1>5

\* The queue, the calls and the flushes keep their types and items their numbers.
LEMMA AlwaysSound == Spec => []Sound
<1>1. Init => Sound BY InitSound
<1>2. Sound /\ [Next]_vars => Sound' BY EnqueueSound, FlushSound, OtherSound DEF Next
<1> QED BY <1>1, <1>2, PTL DEF Spec

\* Every stored item, copy and call keeps its type through overlapping enqueues,
\* evictions and flushes: no item gets a number twice, and no put or delete
\* touches what is not an item.
THEOREM SyncTypes == Spec => []TypeOK
BY AlwaysSound, PTL DEF Sound

-----------------------------------------------------------------------------
(* Attempts *)

Earned == AttemptsEarned /\ GivenUpAfterTries

\* Failures that are only added to cover what a step leaves of attempts and copies.
LEMMA EarnedKept ==
    ASSUME Sound, Earned, failures' \in [Id -> 0 .. MaxAttempts],
           \A i \in Id : failures[i] <= failures'[i],
           \A i \in Id : /\ attempts'[i] \in Nat
                         /\ attempts'[i] <= attempts[i] \/ attempts'[i] <= failures'[i],
           \A f \in Flusher, i \in Id :
               /\ copy'[f][i] \in Nat
               /\ \/ copy'[f][i] <= copy[f][i] \/ copy'[f][i] <= attempts[i]
                  \/ copy'[f][i] <= failures'[i],
           \A i \in given_up' \ given_up : i \in Id /\ failures'[i] = MaxAttempts
    PROVE  Earned'
<1>1. MaxAttempts \in Nat BY SyncAssumption
<1>2. ASSUME NEW i \in Id
      PROVE  /\ failures[i] \in Nat /\ failures'[i] \in Nat /\ failures'[i] <= MaxAttempts
             /\ attempts[i] \in Nat /\ attempts[i] <= failures[i]
  BY <1>1 DEF Sound, TypeOK, Earned, AttemptsEarned
<1>3. ASSUME NEW i \in Id PROVE attempts'[i] <= failures'[i] BY <1>2
<1>4. ASSUME NEW f \in Flusher, NEW i \in Id PROVE copy'[f][i] <= failures'[i]
  <2>1. copy[f] \in [Id -> 0 .. MaxAttempts - 1] BY DEF Sound, TypeOK
  <2>2. copy[f][i] \in Nat BY <1>1, <2>1
  <2>3. copy[f][i] <= failures[i] BY DEF Earned, AttemptsEarned
  <2> QED BY <1>2, <2>2, <2>3
<1>5. ASSUME NEW i \in given_up' PROVE failures'[i] = MaxAttempts
  <2>1. CASE i \in given_up
    <3>1. i \in Id /\ failures[i] = MaxAttempts BY <2>1 DEF Sound, TypeOK, Earned, GivenUpAfterTries
    <3> QED BY <1>1, <1>2, <3>1
  <2>2. CASE i \notin given_up BY <2>2
  <2> QED BY <2>1, <2>2
<1> QED BY <1>3, <1>4, <1>5 DEF Earned, AttemptsEarned, GivenUpAfterTries

\* An item is dropped, or put back with one attempt more, for a failure that is counted.
LEMMA EarnedNext ==
    ASSUME Sound, Earned, [Next]_vars
    PROVE  Earned'
<1> USE DEF flushVars, history, queueVars, callVars
<1>0. MaxAttempts \in Nat BY SyncAssumption
<1>t. /\ failures \in [Id -> 0 .. MaxAttempts] /\ attempts \in [Id -> 0 .. MaxAttempts - 1]
      /\ copy \in [Flusher -> [Id -> 0 .. MaxAttempts - 1]]
  BY DEF Sound, TypeOK
<1>a. \A i \in Id : failures[i] \in Nat /\ failures[i] <= failures[i]
  BY <1>0, <1>t
<1>b. \A i \in Id : attempts[i] \in Nat /\ attempts[i] <= attempts[i] BY <1>0, <1>t
<1>c. \A f \in Flusher, i \in Id : copy[f][i] \in Nat /\ copy[f][i] <= copy[f][i] BY <1>0, <1>t
<1>d. ASSUME NEW S, Delete(S)
      PROVE  \A i \in Id : attempts'[i] \in Nat /\ attempts'[i] <= attempts[i]
  BY <1>b, <1>d DEF Delete
<1>e. ASSUME NEW f \in Flusher, NEW j \in taken[f], Proceed(f, j)
      PROVE  \A g \in Flusher, i \in Id : copy'[g][i] \in Nat /\ copy'[g][i] <= copy[g][i]
  <2>1. copy' = [copy EXCEPT ![f] = [copy[f] EXCEPT ![j] = 0]] BY <1>e DEF Proceed, Sound, TypeOK
  <2>2. ASSUME NEW g \in Flusher, NEW i \in Id PROVE copy'[g][i] \in {copy[g][i], 0}
    BY <1>t, <2>1
  <2> QED BY <1>c, <2>2
<1>1. ASSUME NEW c \in Call \cup {boot}, EnqueueStep(c) PROVE Earned'
  <2>1. CASE UNCHANGED <<attempts, copy, failures, given_up>>
    BY <2>1 DEF Earned, AttemptsEarned, GivenUpAfterTries
  <2>2. CASE EnforceDelete(c)
    <3>1. Delete(doomed[c]) /\ UNCHANGED <<copy, failures, given_up>> BY <2>2 DEF EnforceDelete
    <3> QED BY <1>a, <1>c, <1>d, <1>t, <3>1, EarnedKept
  <2> QED BY <1>1, <2>1, <2>2 DEF EnqueueStep, CheckKey, AddItem, EnforceRead
<1>2. ASSUME NEW f \in Flusher, FlushStep(f) PROVE Earned'
  <2>1. CASE TakeDue(f)
    <3>1. PICK S : copy' = [copy EXCEPT ![f] = [i \in Id |-> IF i \in S THEN attempts[i] ELSE 0]]
      BY <2>1 DEF TakeDue
    <3>2. UNCHANGED <<attempts, failures, given_up>> BY <2>1 DEF TakeDue
    <3>3. ASSUME NEW g \in Flusher, NEW i \in Id
          PROVE  copy'[g][i] \in Nat /\ (copy'[g][i] <= copy[g][i] \/ copy'[g][i] <= attempts[i])
      <4>1. copy'[g][i] \in {copy[g][i], attempts[i], 0} BY <1>t, <3>1
      <4> QED BY <1>b, <1>c, <4>1
    <3> QED BY <1>a, <1>b, <1>t, <3>2, <3>3, EarnedKept
  <2>2. ASSUME NEW i \in taken[f], SendStep(f, i) PROVE Earned'
    BY <2>2 DEF SendStep, Earned, AttemptsEarned, GivenUpAfterTries
  <2>3. ASSUME NEW i \in taken[f], Remove(f, i) PROVE Earned'
    <3>1. Delete({i}) /\ Proceed(f, i) /\ UNCHANGED <<failures, given_up>> BY <2>3 DEF Remove
    <3> QED BY <1>a, <1>d, <1>e, <1>t, <3>1, EarnedKept
  <2>4. ASSUME NEW i \in taken[f], Reschedule(f, i) PROVE Earned'
    <3>0. i \in Id BY DEF Sound, TypeOK
    <3>1. Proceed(f, i) /\ CountFailure(i) BY <2>4 DEF Reschedule
    <3>2. failures' = [failures EXCEPT ![i] =
                         IF failures[i] < MaxAttempts THEN failures[i] + 1 ELSE failures[i]]
      BY <1>t, <3>0, <3>1 DEF CountFailure
    <3>3. failures[i] \in 0 .. MaxAttempts /\ copy[f][i] \in 0 .. MaxAttempts - 1
          /\ copy[f][i] <= failures[i]
      BY <1>t, <3>0 DEF Earned, AttemptsEarned
    <3>4. failures'[i] \in 0 .. MaxAttempts /\ failures[i] <= failures'[i]
          /\ copy[f][i] + 1 <= failures'[i]
      BY <1>0, <1>t, <3>0, <3>2, <3>3
    <3>5. failures' \in [Id -> 0 .. MaxAttempts] /\ \A j \in Id : failures[j] <= failures'[j]
      BY <1>a, <1>t, <3>0, <3>2, <3>4
    <3>6. CASE Exhausted(Bumped(copy[f][i]))
      <4>1. Delete({i}) /\ given_up' = given_up \cup {i} BY <2>4, <3>6 DEF Reschedule
      <4>2. failures'[i] = MaxAttempts BY <1>0, <3>3, <3>4, <3>6 DEF Exhausted, Bumped
      <4> QED BY <1>d, <1>e, <3>0, <3>1, <3>5, <4>1, <4>2, EarnedKept
    <3>7. CASE ~ Exhausted(Bumped(copy[f][i]))
      <4>1. attempts' = [attempts EXCEPT ![i] = copy[f][i] + 1] /\ given_up' = given_up
        BY <2>4, <3>7 DEF Reschedule, Bumped
      <4>2. ASSUME NEW j \in Id
            PROVE  attempts'[j] \in Nat /\ (attempts'[j] <= attempts[j] \/ attempts'[j] <= failures'[j])
        <5>1. CASE j = i BY <1>0, <1>t, <3>3, <3>4, <4>1, <5>1
        <5>2. CASE j # i BY <1>b, <1>t, <4>1, <5>2
        <5> QED BY <5>1, <5>2
      <4> QED BY <1>e, <3>1, <3>5, <4>1, <4>2, EarnedKept
    <3> QED BY <3>6, <3>7
  <2> QED BY <1>2, <2>1, <2>2, <2>3, <2>4, FlushCases DEF Sound
<1>3. CASE WorkerDies
  <2>1. UNCHANGED <<attempts, failures, given_up>> BY <1>3 DEF WorkerDies
  <2>2. \A f \in Flusher, i \in Id : copy'[f][i] = 0 BY <1>3 DEF WorkerDies
  <2>3. \A f \in Flusher, i \in Id : copy'[f][i] \in Nat /\ copy'[f][i] <= copy[f][i]
    BY <1>c, <2>2
  <2> QED BY <1>a, <1>b, <1>t, <2>1, <2>3, EarnedKept
<1>4. CASE (\E i \in Id : BackoffElapses(i)) \/ TokenExpires \/ SignIn \/ UNCHANGED vars
  <2>1. UNCHANGED <<attempts, copy, failures, given_up>>
    BY <1>4 DEF BackoffElapses, TokenExpires, SignIn, vars
  <2> QED BY <2>1 DEF Earned, AttemptsEarned, GivenUpAfterTries
<1> QED BY <1>1, <1>2, <1>3, <1>4 DEF Next

\* However many flushes overlap on copies of the same item, and whatever they put
\* back, an item is given up only after max attempts of its dispatches failed
\* (offline-queue.ts reschedule).
THEOREM GivenUpIsTried == Spec => []GivenUpAfterTries
<1>1. Init => Earned
  <2>1. SUFFICES ASSUME Init PROVE Earned OBVIOUS
  <2>2. \A i \in Id : attempts[i] = 0 /\ failures[i] = 0 /\ \A f \in Flusher : copy[f][i] = 0
    BY <2>1 DEF Init
  <2> QED BY <2>1, <2>2 DEF Init, Earned, AttemptsEarned, GivenUpAfterTries
<1>2. Sound /\ Earned /\ [Next]_vars => Earned' BY EarnedNext
<1> QED BY <1>1, <1>2, AlwaysSound, PTL DEF Spec, Earned

-----------------------------------------------------------------------------
(* The limits of the queue *)

\* What will be left of the store, revived items aside, when the deletions
\* decided so far are carried out.
Rest == (store \ revived) \ UNION {doomed[c] : c \in Call \cup {boot}}

\* No enforceLimits is still to read the store.
AllRead == \A c \in Call \cup {boot} : stage[c] # "enforce"

\* A deletion is decided before it is carried out.
DoomedSound == \A c \in Call \cup {boot} : doomed[c] # {} => stage[c] = "delete"

\* The limits hold of what is left as long as nothing is added to it.
LEMMA RestShrinks ==
    ASSUME Sound, LimitsAhead, AllRead, Rest' \subseteq Rest, \A i \in Rest : key'[i] = key[i]
    PROVE  WithinLimits(Rest)'
<1>1. Rest \in SUBSET Id /\ \A i \in Rest : key[i] \in Key
  BY DEF Rest, Sound, TypeOK, Numbered
<1>2. WithinLimits(Rest) BY DEF LimitsAhead, AllRead, Rest
<1>3. WithinLimits(Rest') BY <1>1, <1>2, LimitsOfPart
<1>4. {{i} \X (1 .. ByteSize[key'[i]]) : i \in Rest'} = {{i} \X (1 .. ByteSize[key[i]]) : i \in Rest'}
  OBVIOUS
<1> QED BY <1>3, <1>4 DEF WithinLimits, Bytes

\* No step adds to what is left, except one that leaves an enforceLimits to come.
LEMMA LimitsNext ==
    ASSUME Sound, LimitsAhead, [Next]_vars
    PROVE  LimitsAhead'
<1> USE DEF flushVars, history, queueVars, callVars
<1>0. /\ stage \in [Call \cup {boot} -> {"new", "add", "enforce", "delete", "done", "lost"}]
      /\ doomed \in [Call \cup {boot} -> SUBSET Id] /\ key \in [Id -> Key \cup {NoKey}]
      /\ store \in SUBSET Id /\ revived \in SUBSET store /\ Rest \in SUBSET (1 .. created)
      /\ created \in Nat
  BY NumbersAreIds DEF Sound, TypeOK, Numbered, Rest
<1>s. SUFFICES DoomedSound' /\ (AllRead' => WithinLimits(Rest)')
  BY DEF LimitsAhead, DoomedSound, AllRead, Rest
<1>d. DoomedSound BY DEF LimitsAhead, DoomedSound
<1>a. ASSUME Rest' \subseteq Rest, \A i \in Rest : key'[i] = key[i], AllRead' => AllRead, AllRead'
      PROVE  WithinLimits(Rest)'
  BY <1>a, RestShrinks
<1>k. ASSUME store' \ revived' \subseteq store \ revived, UNCHANGED <<key, stage, doomed>>
      PROVE  DoomedSound' /\ (AllRead' => WithinLimits(Rest)')
  BY <1>a, <1>d, <1>k DEF Rest, DoomedSound, AllRead
<1>1. ASSUME NEW c \in Call, CheckKey(c) PROVE DoomedSound' /\ (AllRead' => WithinLimits(Rest)')
  <2>1. /\ stage[c] = "new" /\ UNCHANGED <<store, revived, doomed>>
        /\ stage' \in {[stage EXCEPT ![c] = "done"], [stage EXCEPT ![c] = "add"]}
    BY <1>1 DEF CheckKey
  <2>2. \A i \in Rest : key'[i] = key[i] BY <1>0, <1>1, KeysKept
  <2>3. Rest' = Rest BY <2>1 DEF Rest
  <2>4. AllRead' => AllRead BY <1>0, <2>1 DEF AllRead
  <2>5. DoomedSound' BY <1>0, <1>d, <2>1 DEF DoomedSound
  <2> QED BY <1>a, <2>2, <2>3, <2>4, <2>5
<1>2. ASSUME NEW c \in Call, AddItem(c) PROVE DoomedSound' /\ (AllRead' => WithinLimits(Rest)')
  <2>1. stage[c] = "add" /\ stage' = [stage EXCEPT ![c] = "enforce"] /\ UNCHANGED doomed
    BY <1>2 DEF AddItem
  <2>2. ~ AllRead' BY <1>0, <2>1 DEF AllRead
  <2>3. DoomedSound' BY <1>0, <1>d, <2>1 DEF DoomedSound
  <2> QED BY <2>2, <2>3
<1>3. ASSUME NEW c \in Call \cup {boot}, NEW n \in 0 .. created, EnforceRead(c, n)
      PROVE  DoomedSound' /\ (AllRead' => WithinLimits(Rest)')
  <2> DEFINE cut == Min({m \in n .. Cardinality(Call) : WithinLimits(Younger(m))})
             gone == store \ Younger(cut)
  <2>1. /\ doomed' = [doomed EXCEPT ![c] = gone]
        /\ stage' = [stage EXCEPT ![c] = IF gone = {} THEN "done" ELSE "delete"]
        /\ stage[c] = "enforce" /\ UNCHANGED <<store, revived, key>>
    BY <1>3 DEF EnforceRead
  <2>2. n \in 0 .. Cardinality(Call)
    <3>1. created \in 0 .. Cardinality(Call) /\ Cardinality(Call) \in Nat
      BY IdFinite DEF Sound, TypeOK
    <3> QED BY <3>1
  <2>3. WithinLimits(Younger(cut)) BY <1>0, <2>2, LimitsEnforced
  <2>4. doomed'[c] = gone /\ Younger(cut) \in SUBSET store BY <1>0, <2>1 DEF Younger
  <2> HIDE DEF cut
  <2>5. Rest' \subseteq Younger(cut) BY <2>1, <2>4 DEF Rest
  <2>6. Younger(cut) \in SUBSET Id /\ \A i \in Younger(cut) : key[i] \in Key
    BY <2>4, <1>0 DEF Sound, Numbered
  <2>7. WithinLimits(Rest') BY <2>3, <2>5, <2>6, LimitsOfPart
  <2>8. WithinLimits(Rest)' BY <2>1, <2>7 DEF WithinLimits, Bytes
  <2>9. DoomedSound' BY <1>0, <1>d, <2>1 DEF DoomedSound
  <2> QED BY <2>8, <2>9
<1>4. ASSUME NEW c \in Call \cup {boot}, EnforceDelete(c)
      PROVE  DoomedSound' /\ (AllRead' => WithinLimits(Rest)')
  <2>1. /\ stage[c] = "delete" /\ stage' = [stage EXCEPT ![c] = "done"]
        /\ doomed' = [doomed EXCEPT ![c] = {}] /\ UNCHANGED key
        /\ store' = store \ doomed[c] /\ revived' = revived \ doomed[c]
    BY <1>4 DEF EnforceDelete, Delete
  <2>2. ASSUME NEW x \in Rest' PROVE x \in Rest
    <3>1. x \in store /\ x \notin doomed[c] /\ x \notin revived BY <2>1 DEF Rest
    <3>2. ASSUME NEW b \in Call \cup {boot}, x \in doomed[b] PROVE FALSE
      <4>1. b # c BY <3>1, <3>2
      <4>2. x \in doomed'[b] BY <1>0, <2>1, <3>2, <4>1
      <4> QED BY <4>2 DEF Rest
    <3> QED BY <3>1, <3>2 DEF Rest
  <2>3. AllRead' => AllRead BY <1>0, <2>1 DEF AllRead
  <2>4. DoomedSound' BY <1>0, <1>d, <2>1 DEF DoomedSound
  <2> QED BY <1>a, <2>1, <2>2, <2>3, <2>4
<1>5. ASSUME NEW f \in Flusher, FlushStep(f) PROVE DoomedSound' /\ (AllRead' => WithinLimits(Rest)')
  <2>1. CASE TakeDue(f) BY <1>k, <2>1 DEF TakeDue
  <2>2. ASSUME NEW i \in taken[f], SendStep(f, i) PROVE UNCHANGED <<store, revived, key, stage, doomed>>
    BY <2>2 DEF SendStep
  <2>3. ASSUME NEW i \in taken[f], Remove(f, i) \/ Reschedule(f, i)
        PROVE  store' \ revived' \subseteq store \ revived /\ UNCHANGED <<key, stage, doomed>>
    BY <2>3 DEF Remove, Reschedule, Delete
  <2> QED BY <1>5, <1>k, <2>1, <2>2, <2>3, FlushCases DEF Sound
<1>6. CASE WorkerDies
  <2>1. \A c \in Call \cup {boot} : doomed'[c] = {} BY <1>6 DEF WorkerDies
  <2>2. stage'[boot] = "enforce" BY <1>6 DEF WorkerDies
  <2> QED BY <2>1, <2>2 DEF DoomedSound, AllRead
<1>7. CASE (\E i \in Id : BackoffElapses(i)) \/ TokenExpires \/ SignIn \/ UNCHANGED vars
  <2>1. UNCHANGED <<store, revived, key, stage, doomed>>
    BY <1>7 DEF BackoffElapses, TokenExpires, SignIn, vars
  <2> QED BY <1>k, <2>1
<1> QED BY <1>1, <1>2, <1>3, <1>4, <1>5, <1>6, <1>7 DEF Next, EnqueueStep

\* Once no enforceLimits is pending, the item and byte caps hold of everything
\* but revived items, for any number of overlapping enqueues and evictions.
THEOREM QueueKeepsLimits == Spec => []QueueBounded
<1>1. Init => LimitsAhead
  <2>1. SUFFICES ASSUME Init PROVE LimitsAhead OBVIOUS
  <2>2. stage[boot] = "enforce" /\ \A c \in Call \cup {boot} : doomed[c] = {} BY <2>1 DEF Init
  <2> QED BY <2>2 DEF LimitsAhead
<1>2. Sound /\ LimitsAhead /\ [Next]_vars => LimitsAhead' BY LimitsNext
<1>3. Sound /\ LimitsAhead => QueueBounded
  <2>1. SUFFICES ASSUME Sound, LimitsAhead,
                        \A c \in Call \cup {boot} : stage[c] \notin {"enforce", "delete"}
                 PROVE  WithinLimits(store \ revived)
    BY DEF QueueBounded, WithinLimits
  <2>2. \A c \in Call \cup {boot} : doomed[c] = {} BY <2>1 DEF LimitsAhead
  <2>3. (store \ revived) \ UNION {doomed[c] : c \in Call \cup {boot}} = store \ revived BY <2>2
  <2> QED BY <2>1, <2>3 DEF LimitsAhead
<1> QED BY <1>1, <1>2, <1>3, AlwaysSound, PTL DEF Spec

-----------------------------------------------------------------------------
(* Durability *)

\* While the session is valid, a flush decides to remove only what is settled.
LEMMA SendSettles ==
    ASSUME ~Conflicts, ~Refusals, TypeOK, session = "valid", NEW f \in Flusher, FlushStep(f)
    PROVE  \/ TakeDue(f)
           \/ \E i \in taken[f] :
                 \/ /\ SendStep(f, i) /\ session' = "valid"
                    /\ verdict'[f] = "remove" => MessagesOf[key[i]] \subseteq settled'
                 \/ Remove(f, i) \/ Reschedule(f, i)
<1> USE DEF Answer, Classify, Sending, queueVars, callVars, history
<1>1. SessionFor(session) = {"valid"} BY DEF SessionFor
<1>2. ASSUME NEW i \in taken[f], SendUnauthenticated(f, i) \/ SendUnauthorized(f, i) PROVE FALSE
  BY <1>1, <1>2 DEF SendUnauthenticated, SendUnauthorized
<1>3. ASSUME NEW i \in taken[f], SendWithToken(f, i) PROVE session' = "valid"
  BY <1>1, <1>3 DEF SendWithToken
<1>v. verdict \in [Flusher -> {"none", "remove", "retry"}] BY DEF TypeOK
<1>4. ASSUME NEW i \in taken[f], SendRefused(f, i)
      PROVE  SendStep(f, i) /\ session' = "valid" /\ MessagesOf[key[i]] \subseteq settled'
  BY <1>3, <1>4 DEF SendRefused, SendStep, SendWithToken
<1>5. ASSUME NEW i \in taken[f], NEW class \in {"network_error", "retryable_status"},
             SendFails(f, i, class)
      PROVE  SendStep(f, i) /\ session' = "valid" /\ verdict'[f] = "retry"
  <2>1. settled' = settled \cup {} BY <1>5 DEF SendFails
  <2> QED BY <1>3, <1>5, <1>v, <2>1 DEF SendFails, SendStep, SendWithToken
<1>6. ASSUME NEW i \in taken[f], NEW Q \in SUBSET MessagesOf[key[i]], NEW lost \in BOOLEAN,
             SendIngested(f, i, Q, lost)
      PROVE  SendStep(f, i) /\ session' = "valid" /\ MessagesOf[key[i]] \subseteq settled'
  <2>1. Q = {} /\ MessagesOf[key[i]] \ Q = MessagesOf[key[i]] BY <1>6 DEF SendIngested
  <2>2. settled' = settled \cup MessagesOf[key[i]] BY <1>6, <2>1 DEF SendIngested
  <2> QED BY <1>3, <1>6, <2>2 DEF SendIngested, SendStep, SendWithToken
<1> QED BY <1>2, <1>4, <1>5, <1>6 DEF FlushStep

\* What a step adds to the settled messages, and leaves of items, keeps Kept.
LEMMA KeptKept ==
    ASSUME Sound, Kept, settled \subseteq settled',
           \A c \in Added' : /\ c \in Call /\ item'[c] = item[c]
                             /\ c \in Added \/ item'[c] \in store',
           \A i \in Id : i \in store \cup given_up \cup evicted =>
              \/ i \in store' \cup given_up' \cup evicted'
              \/ \A c \in Added : item[c] = i => MessagesOf[KeyOf[c]] \subseteq settled'
    PROVE  Kept'
<1>1. ASSUME NEW c \in Added'
      PROVE  \/ item'[c] \in store' \cup given_up' \cup evicted'
             \/ MessagesOf[KeyOf[c]] \subseteq settled'
  <2>1. CASE c \notin Added BY <2>1
  <2>2. CASE c \in Added /\ MessagesOf[KeyOf[c]] \subseteq settled BY <2>2
  <2>3. CASE c \in Added /\ item[c] \in store \cup given_up \cup evicted
    <3>1. item[c] \in Id BY <2>3 DEF Sound, TypeOK
    <3> QED BY <2>3, <3>1
  <2> QED BY <2>1, <2>2, <2>3 DEF Kept
<1> QED BY <1>1 DEF Kept

\* No step loses a message that was added, if the backend answers every message.
LEMMA DurableNext ==
    ASSUME ~Conflicts, ~Expiry, ~Refusals, Sound, RemovesSettled, Kept, [Next]_vars
    PROVE  RemovesSettled' /\ Kept'
<1> USE DEF flushVars, history, queueVars, callVars
<1>0. /\ stage \in [Call \cup {boot} -> {"new", "add", "enforce", "delete", "done", "lost"}]
      /\ item \in [Call -> 0 .. Cardinality(Call)]
      /\ taken \in [Flusher -> SUBSET Id] /\ verdict \in [Flusher -> {"none", "remove", "retry"}]
  BY DEF Sound, TypeOK
<1>s. ASSUME session' = "valid", settled \subseteq settled', NEW f \in Flusher,
             \A g \in Flusher : taken'[g] = taken[g] /\ (g # f => verdict'[g] = verdict[g]),
             \A g \in Flusher : \A i \in taken[g] : key'[i] = key[i],
             \/ verdict'[f] = verdict[f]
             \/ verdict'[f] # "remove"
             \/ \E i \in taken[f] : i = Min(taken[f]) /\ MessagesOf[key[i]] \subseteq settled'
      PROVE  RemovesSettled'
  BY <1>s DEF RemovesSettled
<1>u. ASSUME UNCHANGED <<session, settled, taken, verdict, key>> PROVE RemovesSettled'
  BY <1>u DEF RemovesSettled
<1>k. ASSUME settled \subseteq settled', UNCHANGED <<stage, item>>,
             store \subseteq store' \cup given_up' \cup evicted',
             given_up \subseteq given_up', evicted \subseteq evicted'
      PROVE  Kept'
  <2>1. Added' = Added BY <1>k DEF Added
  <2> QED BY <1>k, <2>1, KeptKept DEF Added
<1>1. ASSUME NEW c \in Call, CheckKey(c) PROVE RemovesSettled' /\ Kept'
  <2>1. stage[c] = "new" /\ item[c] = 0 BY <1>1 DEF CheckKey, Sound, Numbered
  <2>2. \A f \in Flusher : \A i \in taken[f] : key'[i] = key[i]
    <3>1. \A f \in Flusher : taken[f] \subseteq 1 .. created BY DEF Sound, Numbered
    <3>2. \A i \in 1 .. created : key'[i] = key[i] BY <1>1, KeysKept
    <3> QED BY <3>1, <3>2
  <2>3. RemovesSettled' BY <1>1, <2>2 DEF CheckKey, RemovesSettled
  <2>4. \A x \in Call : x # c => item'[x] = item[x] /\ stage'[x] = stage[x]
    BY <1>0, <1>1 DEF CheckKey
  <2>5. c \notin Added'
    BY <1>0, <1>1, <2>1 DEF CheckKey, Added
  <2>6. Added' \subseteq Added /\ \A x \in Added' : x \in Call /\ item'[x] = item[x]
    BY <2>4, <2>5 DEF Added
  <2>7. UNCHANGED <<store, given_up, evicted, settled>> BY <1>1 DEF CheckKey
  <2>8. Kept' BY <2>6, <2>7, KeptKept
  <2> QED BY <2>3, <2>8
<1>2. ASSUME NEW c \in Call, AddItem(c) PROVE RemovesSettled' /\ Kept'
  <2>1. RemovesSettled' BY <1>2, <1>u DEF AddItem
  <2>2. \A x \in Call : x # c => stage'[x] = stage[x] BY <1>0, <1>2 DEF AddItem
  <2>3. item' = item /\ store' = store \cup {item[c]} /\ UNCHANGED <<given_up, evicted, settled>>
    BY <1>2 DEF AddItem
  <2>4. \A x \in Added' : x \in Call /\ item'[x] = item[x] /\ (x \in Added \/ item'[x] \in store')
    BY <2>2, <2>3 DEF Added
  <2>5. Kept' BY <2>3, <2>4, KeptKept
  <2> QED BY <2>1, <2>5
<1>3. ASSUME NEW c \in Call \cup {boot}, NEW n \in 0 .. created, EnforceRead(c, n)
      PROVE  RemovesSettled' /\ Kept'
  <2>1. RemovesSettled' BY <1>3, <1>u DEF EnforceRead
  <2>2. stage[c] = "enforce" /\ \A x \in Call \cup {boot} : x # c => stage'[x] = stage[x]
    BY <1>0, <1>3 DEF EnforceRead
  <2>3. UNCHANGED <<item, store, given_up, evicted, settled>> BY <1>3 DEF EnforceRead
  <2>4. Added' \subseteq Added BY <2>2, <2>3 DEF Added
  <2>5. Kept' BY <2>3, <2>4, KeptKept DEF Added
  <2> QED BY <2>1, <2>5
<1>4. ASSUME NEW c \in Call \cup {boot}, EnforceDelete(c) PROVE RemovesSettled' /\ Kept'
  <2>1. RemovesSettled' BY <1>4, <1>u DEF EnforceDelete
  <2>2. stage[c] = "delete" /\ \A x \in Call \cup {boot} : x # c => stage'[x] = stage[x]
    BY <1>0, <1>4 DEF EnforceDelete
  <2>3. /\ store' = store \ doomed[c] /\ evicted' = evicted \cup doomed[c]
        /\ UNCHANGED <<item, given_up, settled>>
    BY <1>4 DEF EnforceDelete, Delete
  <2>4. Added' \subseteq Added BY <2>2, <2>3 DEF Added
  <2>5. Kept' BY <2>3, <2>4, KeptKept DEF Added
  <2> QED BY <2>1, <2>5
<1>5. ASSUME NEW f \in Flusher, FlushStep(f) PROVE RemovesSettled' /\ Kept'
  <2>0. session = "valid" BY DEF RemovesSettled
  <2>1. CASE TakeDue(f)
    <3>1. verdict[f] # "remove" BY <2>1 DEF TakeDue, RemovesSettled
    <3>2. \A g \in Flusher : g # f => taken'[g] = taken[g] BY <1>0, <2>1 DEF TakeDue
    <3>3. RemovesSettled' BY <2>1, <3>1, <3>2 DEF TakeDue, RemovesSettled
    <3> QED BY <1>k, <2>1, <3>3 DEF TakeDue
  <2>2. ASSUME NEW i \in taken[f], SendStep(f, i), session' = "valid",
               verdict'[f] = "remove" => MessagesOf[key[i]] \subseteq settled'
        PROVE  RemovesSettled' /\ Kept'
    <3>1. settled \subseteq settled' BY <2>2 DEF SendStep
    <3>2. \A g \in Flusher : g # f => verdict'[g] = verdict[g] BY <1>0, <2>2 DEF SendStep
    <3>3. RemovesSettled' BY <1>s, <2>2, <3>1, <3>2 DEF SendStep
    <3>4. Kept' BY <1>k, <2>2, <3>1 DEF SendStep
    <3> QED BY <3>3, <3>4
  <2>3. ASSUME Proceed(f, Min(taken[f])), UNCHANGED <<session, settled, key>> PROVE RemovesSettled'
    <3>1. verdict'[f] = "none" /\ \A g \in Flusher : g # f => taken'[g] = taken[g] /\ verdict'[g] = verdict[g]
      BY <1>0, <2>3 DEF Proceed
    <3> QED BY <2>3, <3>1 DEF RemovesSettled
  <2>4. ASSUME NEW i \in taken[f], Remove(f, i) PROVE RemovesSettled' /\ Kept'
    <3>1. RemovesSettled' BY <2>3, <2>4 DEF Remove
    <3>2. MessagesOf[key[i]] \subseteq settled BY <2>4 DEF Remove, RemovesSettled
    <3>3. \A c \in Added : item[c] = i => MessagesOf[KeyOf[c]] \subseteq settled
      BY <3>2 DEF Added, Sound, Numbered
    <3>4. store' = store \ {i} /\ UNCHANGED <<stage, item, given_up, evicted, settled>>
      BY <2>4 DEF Remove, Delete
    <3>5. Added' = Added BY <3>4 DEF Added
    <3>6. Kept' BY <3>3, <3>4, <3>5, KeptKept DEF Added
    <3> QED BY <3>1, <3>6
  <2>5. ASSUME NEW i \in taken[f], Reschedule(f, i) PROVE RemovesSettled' /\ Kept'
    <3>1. RemovesSettled' BY <2>3, <2>5 DEF Reschedule
    <3>2. /\ store \subseteq store' \cup given_up' /\ given_up \subseteq given_up'
          /\ UNCHANGED <<stage, item, evicted, settled>>
      BY <2>5 DEF Reschedule, Delete
    <3> QED BY <1>k, <3>1, <3>2
  <2> QED BY <1>5, <2>0, <2>1, <2>2, <2>4, <2>5, SendSettles DEF Sound
<1>6. CASE WorkerDies
  <2>1. RemovesSettled' BY <1>6 DEF WorkerDies, RemovesSettled
  <2>2. UNCHANGED <<item, store, given_up, evicted, settled>> BY <1>6 DEF WorkerDies
  <2>3. \A c \in Call : stage[c] = "add" => stage'[c] = "lost"
    BY <1>0, <1>6, SyncAssumption DEF WorkerDies
  <2>4. \A c \in Call : stage[c] = "lost" => stage'[c] = "lost"
    BY <1>0, <1>6, SyncAssumption DEF WorkerDies
  <2>5. Added' \subseteq Added BY <2>2, <2>3, <2>4 DEF Added
  <2>6. Kept' BY <2>2, <2>5, KeptKept DEF Added
  <2> QED BY <2>1, <2>6
<1>7. CASE (\E i \in Id : BackoffElapses(i)) \/ UNCHANGED vars
  <2>1. UNCHANGED <<session, settled, taken, verdict, key, stage, item, store, given_up, evicted>>
    BY <1>7 DEF BackoffElapses, vars
  <2> QED BY <1>k, <1>u, <2>1
<1>8. CASE TokenExpires \/ SignIn BY <1>8 DEF TokenExpires, SignIn, RemovesSettled
<1> QED BY <1>1, <1>2, <1>3, <1>4, <1>5, <1>6, <1>7, <1>8 DEF Next, EnqueueStep

\* "Nothing is lost if the network or the service worker dies here"
\* (docs/ARCHITECTURE.md:115), with a session that stays valid and a backend that
\* answers every message for good: any number of calls, flushes and deaths.
THEOREM NothingIsLost ==
    ASSUME ~Conflicts, ~Expiry, ~Refusals
    PROVE  Spec => []Durable
<1>1. Init => RemovesSettled /\ Kept
  <2>1. SUFFICES ASSUME Init PROVE RemovesSettled /\ Kept OBVIOUS
  <2>2. \A c \in Call : item[c] = 0 BY <2>1 DEF Init
  <2>3. Kept BY <2>2 DEF Kept, Added
  <2>4. RemovesSettled BY <2>1 DEF Init, RemovesSettled
  <2> QED BY <2>3, <2>4
<1>2. Sound /\ RemovesSettled /\ Kept /\ [Next]_vars => RemovesSettled' /\ Kept' BY DurableNext
<1>3. Sound /\ Kept => Durable
  <2>1. SUFFICES ASSUME Sound, Kept, NEW c \in Added, item[c] \in store
                 PROVE  MessagesOf[KeyOf[c]] \subseteq Queued
    BY DEF Durable, Kept
  <2>2. key[item[c]] = KeyOf[c] BY <2>1 DEF Sound, Numbered, Added
  <2> QED BY <2>1, <2>2 DEF Queued
<1> QED BY <1>1, <1>2, <1>3, AlwaysSound, PTL DEF Spec

=============================================================================
