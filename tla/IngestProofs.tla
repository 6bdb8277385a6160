----------------------------- MODULE IngestProofs -----------------------------
(***************************************************************************)
(* Proofs about Ingest, for any requests, payloads and faults.             *)
(***************************************************************************)
EXTENDS IngestArchive, SequenceTheorems, TLAPS

-----------------------------------------------------------------------------
(* The rows *)

\* The rows of no conversation are sound.
LEMMA NoRowsSound == NoRows \in Rows /\ RowsSound(NoRows) /\ NoRows.rank < ComplianceVerified
<1>1. /\ NoRows.messages = {} /\ NoRows.versions = {} /\ NoRows.rank = 0 BY DEF NoRows
<1>2. NoRows \in Rows
  <2>1. 0 \in Rank /\ "partial" \in Status /\ 0 \in Nat BY DEF Rank, Status
  <2> QED BY <2>1 DEF NoRows, Rows
<1>3. RowsSound(NoRows) BY <1>1 DEF RowsSound
<1> QED BY <1>1, <1>2, <1>3 DEF ComplianceVerified

\* Rows extend themselves.
LEMMA ExtendsSelf == ASSUME NEW A \in Rows PROVE Extends(A, A)
<1>1. \A m \in A.messages : A.versionCount[m] \in Nat
  <2>1. A.messages \subseteq Fingerprint /\ A.versionCount \in [Fingerprint -> Nat] BY DEF Rows
  <2> QED BY <2>1
<1>2. \A v \in A.versions : Persists(v, A) BY DEF Persists
<1> QED BY <1>1, <1>2 DEF Extends

\* A doubtful message stays doubtful.
LEMMA DoubtfulKept ==
    ASSUME NEW A, NEW B, Extends(A, B), NEW m, Doubtful(A, m)
    PROVE  Doubtful(B, m)
<1>1. PICK v \in A.versions : v.message = m /\ v.key \in Undecided BY DEF Doubtful
<1> QED BY <1>1 DEF Extends, Persists, Doubtful

\* Extending goes step by step.
LEMMA ExtendsTwice ==
    ASSUME NEW A \in Rows, NEW B \in Rows, NEW C \in Rows, Extends(A, B), Extends(B, C)
    PROVE  Extends(A, C)
<1>1. ASSUME NEW m \in A.messages
      PROVE  /\ m \in C.messages /\ A.versionCount[m] <= C.versionCount[m]
             /\ A.status[m] = "complete" =>
                   \/ C.status[m] = "complete"
                   \/ A.versionCount[m] # C.versionCount[m] /\ Doubtful(C, m)
             /\ A.versionCount[m] = C.versionCount[m] /\ Finished(C, m) => Finished(A, m)
  <2>1. m \in B.messages /\ A.versionCount[m] <= B.versionCount[m] BY DEF Extends
  <2>2. m \in C.messages /\ B.versionCount[m] <= C.versionCount[m] BY <2>1 DEF Extends
  <2>3. m \in Fingerprint BY DEF Rows
  <2>4. A.versionCount[m] \in Nat /\ B.versionCount[m] \in Nat /\ C.versionCount[m] \in Nat
    BY <2>3 DEF Rows
  <2>5. /\ A.status[m] = "complete" =>
             \/ B.status[m] = "complete"
             \/ A.versionCount[m] # B.versionCount[m] /\ Doubtful(B, m)
        /\ A.versionCount[m] = B.versionCount[m] /\ Finished(B, m) => Finished(A, m)
    BY DEF Extends
  <2>6. /\ B.status[m] = "complete" =>
             \/ C.status[m] = "complete"
             \/ B.versionCount[m] # C.versionCount[m] /\ Doubtful(C, m)
        /\ B.versionCount[m] = C.versionCount[m] /\ Finished(C, m) => Finished(B, m)
    BY <2>1 DEF Extends
  <2>7. Doubtful(B, m) => Doubtful(C, m) BY DoubtfulKept
  <2>8. A.versionCount[m] = C.versionCount[m]
          <=> A.versionCount[m] = B.versionCount[m] /\ B.versionCount[m] = C.versionCount[m]
    BY <2>1, <2>2, <2>4
  <2>9. A.versionCount[m] <= C.versionCount[m] BY <2>1, <2>2, <2>4
  <2> QED BY <2>2, <2>5, <2>6, <2>7, <2>8, <2>9
<1>2. ASSUME NEW v \in A.versions PROVE Persists(v, C)
  <2>1. PICK w \in B.versions : /\ w.message = v.message /\ w.number = v.number
                                /\ w.content = v.content /\ w.key = v.key
    BY DEF Extends, Persists
  <2>2. PICK x \in C.versions : /\ x.message = w.message /\ x.number = w.number
                                /\ x.content = w.content /\ x.key = w.key
    BY <2>1 DEF Extends, Persists
  <2> QED BY <2>1, <2>2 DEF Persists
<1> QED BY <1>1, <1>2 DEF Extends

\* A message in the archive stays there.
LEMMA ArchivedKept ==
    ASSUME NEW p, NEW A, NEW B, Extends(A, B), Archived(p, A)
    PROVE  Archived(p, B)
BY DEF Extends, Persists, Archived

\* Rows that differ in nothing the archive is made of.
SameArchive(A, B) ==
    /\ A.exists = B.exists /\ A.messages = B.messages /\ A.versions = B.versions /\ A.versionCount = B.versionCount
    /\ A.current = B.current /\ A.status = B.status

\* They are sound, and extend the same rows.
LEMMA SameSound ==
    ASSUME NEW A, NEW B, SameArchive(A, B)
    PROVE  /\ RowsSound(A) => RowsSound(B)
           /\ \A C : Extends(C, A) => Extends(C, B)
           /\ \A p : Archived(p, A) => Archived(p, B)
<1>0. \A m : (Doubtful(A, m) <=> Doubtful(B, m)) /\ (Finished(A, m) <=> Finished(B, m))
  BY DEF SameArchive, Doubtful, Finished
<1>1. RowsSound(A) => RowsSound(B) BY <1>0 DEF SameArchive, RowsSound
<1>2. ASSUME NEW C, Extends(C, A) PROVE Extends(C, B)
  BY <1>0, <1>2 DEF SameArchive, Extends, Persists
<1>3. ASSUME NEW p, Archived(p, A) PROVE Archived(p, B) BY <1>3 DEF SameArchive, Archived
<1> QED BY <1>1, <1>2, <1>3

-----------------------------------------------------------------------------
(* The writes of an item *)

\* An item is a payload.
LEMMA ItemTyped ==
    ASSUME NEW r \in Request, FrameSound(r), stage[r] # "commit"
    PROVE  /\ Item(r) \in Payload /\ index[r] \in 1 .. Len(BatchOf[r])
           /\ Item(r).key \in Key /\ Item(r).source \in Source \cup {None}
           /\ Item(r).content \in Content /\ Item(r).status \in Status
           /\ Item(r).status \notin {"partial", "complete"} => Item(r).key \in Undecided
           /\ Item(r).rank \in Rank /\ Item(r).slot \in Slot /\ PrintOf(Item(r)) \in Fingerprint
<1>1. BatchOf[r] \in Seq(Payload) BY IngestAssumption
<1>2. index[r] \in 1 .. Len(BatchOf[r]) BY <1>1 DEF FrameSound
<1>3. Item(r) \in Payload BY <1>1, <1>2 DEF Item
<1>4. /\ Item(r).key \in Key /\ Item(r).source \in Source \cup {None}
      /\ Item(r).content \in Content /\ Item(r).status \in Status
      /\ Item(r).rank \in Rank /\ Item(r).slot \in Slot
  BY <1>3 DEF Payload
<1>5. Item(r).status \notin {"partial", "complete"} => Item(r).key \in Undecided
  BY <1>2, <1>4 DEF Undecided, Item
<1> QED BY <1>2, <1>3, <1>4, <1>5 DEF PrintOf, Fingerprint

\* The flush of the conversation changes its rank only, and not to COMPLIANCE_VERIFIED.
LEMMA TouchedRows ==
    ASSUME NEW r \in Request, NEW R \in Rows, R.rank < ComplianceVerified,
           seen[r].rank \in Rank, Item(r).rank \in Rank
    PROVE  /\ Touched(r, R) \in Rows /\ SameArchive(R, Touched(r, R))
           /\ Touched(r, R).rank < ComplianceVerified
<1> DEFINE merged == MergeCompleteness(seen[r].rank, Item(r).rank)
           k == IF merged = seen[r].rank THEN R.rank ELSE merged
<1>0. R.rank \in Rank BY DEF Rows
<1>1. k \in Rank /\ k < ComplianceVerified
  <2>1. CASE merged = seen[r].rank BY <1>0, <2>1
  <2>2. CASE merged # seen[r].rank
    <3>1. merged = Item(r).rank /\ Item(r).rank # ComplianceVerified
      BY <2>2 DEF MergeCompleteness
    <3> QED BY <2>2, <3>1 DEF Rank, ComplianceVerified
  <2> QED BY <2>1, <2>2
<1>2. Touched(r, R) = [R EXCEPT !.rank = k] BY DEF Touched, Rows
<1> HIDE DEF k
<1>3. Touched(r, R) \in Rows BY <1>1, <1>2 DEF Rows
<1>4. SameArchive(R, Touched(r, R)) /\ Touched(r, R).rank = k BY <1>2 DEF SameArchive, Rows
<1> QED BY <1>1, <1>3, <1>4

\* What the message row's flush leaves alone.
LEMMA MessageFields ==
    ASSUME NEW r \in Request, NEW R \in Rows, MessageOf(r) \in Fingerprint,
           target[r].source \in Source \cup {None}, Item(r).source \in Source \cup {None}
    PROVE  LET A == WithMessage(r, R)
           IN  /\ A \in Rows /\ A.messages = R.messages \cup {MessageOf(r)}
               /\ A.versions = R.versions /\ A.versionCount = R.versionCount
               /\ A.current = R.current /\ A.status = R.status /\ A.rank = R.rank
               /\ A.exists = R.exists
<1> DEFINE m == MessageOf(r)
           src == [R.source EXCEPT ![m] = IF NewMessage(r) \/ SourceAfter(r) # target[r].source
                                          THEN SourceAfter(r) ELSE R.source[m]]
<1>1. R.source \in [Fingerprint -> Source \cup {None}] /\ R.messages \subseteq Fingerprint BY DEF Rows
<1>2. src \in [Fingerprint -> Source \cup {None}] BY <1>1 DEF SourceAfter
<1>3. WithMessage(r, R) = [R EXCEPT !.messages = R.messages \cup {m}, !.source = src]
  BY <1>1 DEF WithMessage, Rows
<1> HIDE DEF src, m
<1>4. R.messages \cup {m} \in SUBSET Fingerprint BY <1>1 DEF m
<1> QED BY <1>2, <1>3, <1>4 DEF Rows, m

\* A new version, with the number after the count that was loaded.
LEMMA AppendFields ==
    ASSUME NEW r \in Request, NEW R \in Rows, MessageOf(r) \in Fingerprint, Item(r) \in Payload,
           target[r] \in Target, seen[r].count \in Nat
    PROVE  LET A == AppendVersion(r, R)
               m == MessageOf(r)
               n == VersionNumber(r)
           IN  /\ A \in Rows /\ A.messages = R.messages \cup {m} /\ A.rank = R.rank
               /\ A.exists = R.exists
               /\ A.versions = R.versions \cup
                     {[message |-> m, number |-> n, content |-> Item(r).content,
                       status |-> Item(r).status, key |-> Item(r).key]}
               /\ A.versionCount = [R.versionCount EXCEPT ![m] = n]
               /\ A.current = [R.current EXCEPT ![m] = n]
               /\ A.status = [R.status EXCEPT ![m] =
                                IF NewMessage(r) \/ StatusAfter(r) # target[r].status
                                THEN StatusAfter(r) ELSE R.status[m]]
<1> DEFINE m == MessageOf(r)
           n == VersionNumber(r)
           W == WithMessage(r, R)
           v == [message |-> m, number |-> n, content |-> Item(r).content,
                 status |-> Item(r).status, key |-> Item(r).key]
           vc == [R.versionCount EXCEPT ![m] = n]
           cu == [R.current EXCEPT ![m] = n]
           st == [R.status EXCEPT ![m] = IF NewMessage(r) \/ StatusAfter(r) # target[r].status
                                         THEN StatusAfter(r) ELSE R.status[m]]
           c == IF n = 1 THEN seen[r].count + 1 ELSE W.count
<1>0. /\ Item(r).key \in Key /\ Item(r).source \in Source \cup {None}
      /\ Item(r).content \in Content /\ Item(r).status \in Status
  BY DEF Payload, Status
<1>t. target[r].source \in Source \cup {None} /\ target[r].count \in Nat /\ target[r].status \in Status
  BY DEF Target
<1>1. /\ W \in Rows /\ W.messages = R.messages \cup {m} /\ W.versions = R.versions
      /\ W.versionCount = R.versionCount /\ W.current = R.current /\ W.status = R.status
      /\ W.rank = R.rank /\ W.exists = R.exists
  BY <1>0, <1>t, MessageFields
<1>2. n \in Nat BY <1>t DEF VersionNumber
<1>3. v \in Version BY <1>0, <1>2 DEF Version
<1>4. StatusAfter(r) \in Status BY <1>0 DEF StatusAfter, Status
<1>5. /\ R.versionCount \in [Fingerprint -> Nat] /\ R.current \in [Fingerprint -> Nat]
      /\ R.status \in [Fingerprint -> Status] /\ R.versions \in SUBSET Version /\ W.count \in Nat
  BY <1>1 DEF Rows
<1>6. /\ vc \in [Fingerprint -> Nat] /\ cu \in [Fingerprint -> Nat] BY <1>2, <1>5
<1>7. st \in [Fingerprint -> Status] BY <1>4, <1>5
<1>8. c \in Nat BY <1>5
<1>9. AppendVersion(r, R) = [W EXCEPT !.versions = R.versions \cup {v}, !.versionCount = vc,
                                      !.current = cu, !.status = st, !.count = c]
  BY <1>1 DEF AppendVersion, Rows
<1>10. R.versions \cup {v} \in SUBSET Version BY <1>3, <1>5
<1> HIDE DEF W, v, vc, cu, st, c, n, m
<1>11. AppendVersion(r, R) \in Rows BY <1>1, <1>6, <1>7, <1>8, <1>9, <1>10 DEF Rows
<1>12. /\ AppendVersion(r, R).messages = W.messages /\ AppendVersion(r, R).rank = W.rank
       /\ AppendVersion(r, R).exists = W.exists
       /\ AppendVersion(r, R).versions = R.versions \cup {v}
       /\ AppendVersion(r, R).versionCount = vc /\ AppendVersion(r, R).current = cu
       /\ AppendVersion(r, R).status = st
  BY <1>1, <1>9 DEF Rows
<1> QED BY <1>1, <1>11, <1>12 DEF v, vc, cu, st, m, n

\* What r knows about its target is true of the rows R it writes to.
TargetIn(r, R) ==
    /\ target[r].message = None => target[r] = NoTarget /\ match[r] = 0
    /\ target[r].message # None =>
          /\ target[r].message \in R.messages
          /\ target[r].count <= R.versionCount[target[r].message]
          /\ target[r].status \in {"partial", "complete"} \/ Doubtful(R, target[r].message)
          /\ target[r].count = R.versionCount[target[r].message] =>
                /\ target[r].status = "complete" => R.status[target[r].message] = "complete"
                /\ Finished(R, target[r].message) => target[r].status = "complete"
    /\ match[r] # 0 =>
          \E v \in R.versions : /\ v.message = target[r].message /\ v.number = match[r]
                                /\ v.content = Item(r).content
    /\ \A v \in R.versions : v.key # Item(r).key

\* A version is appended: it gets the next number, or a unique index refuses it.
LEMMA AppendSound ==
    ASSUME NEW r \in Request, Item(r) \in Payload, target[r] \in Target, seen[r].count \in Nat,
           View(r) \in Rows, RowsSound(View(r)), TargetIn(r, View(r)), match[r] = 0, ~Conflict(r),
           PrintOf(Item(r)) \in Fingerprint,
           Item(r).status \notin {"partial", "complete"} => Item(r).key \in Undecided
    PROVE  LET A == AppendVersion(r, View(r))
           IN  /\ A \in Rows /\ RowsSound(A) /\ Extends(View(r), A) /\ Archived(Item(r), A)
               /\ \A v \in A.versions : v.key = Item(r).key \/ Persists(v, View(r))
               /\ NoRepeats(View(r)) => NoRepeats(A)
               /\ A.rank = View(r).rank
<1> DEFINE R == View(r)
           A == AppendVersion(r, View(r))
           m == MessageOf(r)
           n == VersionNumber(r)
           v == [message |-> m, number |-> n, content |-> Item(r).content,
                 status |-> Item(r).status, key |-> Item(r).key]
           s == IF NewMessage(r) \/ StatusAfter(r) # target[r].status THEN StatusAfter(r) ELSE R.status[m]
<1>0. m \in Fingerprint /\ (~NewMessage(r) => m \in R.messages)
  BY DEF MessageOf, NewMessage, TargetIn, Target
<1>1. /\ A \in Rows /\ A.messages = R.messages \cup {m} /\ A.rank = R.rank
      /\ A.versions = R.versions \cup {v} /\ A.versionCount = [R.versionCount EXCEPT ![m] = n]
      /\ A.current = [R.current EXCEPT ![m] = n] /\ A.status = [R.status EXCEPT ![m] = s]
      /\ A.exists = R.exists
  BY <1>0, AppendFields
<1>2. /\ v.message = m /\ v.number = n /\ v.content = Item(r).content
      /\ v.status = Item(r).status /\ v.key = Item(r).key
  OBVIOUS
<1>3. /\ R.messages \subseteq Fingerprint /\ R.versionCount \in [Fingerprint -> Nat]
      /\ R.current \in [Fingerprint -> Nat] /\ R.status \in [Fingerprint -> Status]
  BY DEF Rows
<1>4. target[r].count \in Nat /\ n = target[r].count + 1 BY DEF Target, VersionNumber
<1>5. ~ \E w \in R.versions : w.message = m /\ w.number = n BY DEF Conflict, NumberTaken
<1>6. NewMessage(r) => m \notin R.messages /\ n = 1
  BY <1>4 DEF Conflict, NewMessage, TargetIn, NoTarget
<1>7. m \in R.messages => ~NewMessage(r) /\ n = R.versionCount[m] + 1
  <2>1. SUFFICES ASSUME m \in R.messages PROVE ~NewMessage(r) /\ n = R.versionCount[m] + 1 OBVIOUS
  <2>2. ~NewMessage(r) BY <1>6, <2>1
  <2>3. target[r].message = m /\ target[r].count <= R.versionCount[m]
    BY <2>2 DEF NewMessage, MessageOf, TargetIn
  <2>4. R.versionCount[m] \in Nat BY <1>0, <1>3
  <2>5. {w.number : w \in {x \in R.versions : x.message = m}} = 1 .. R.versionCount[m]
    BY <2>1 DEF RowsSound
  <2>6. n \notin 1 .. R.versionCount[m] BY <1>5, <2>5
  <2> QED BY <1>4, <2>2, <2>3, <2>4, <2>6
<1>8. /\ Item(r).status = "complete" => s = "complete"
      /\ m \in R.messages /\ Finished(R, m) => s = "complete"
      /\ \/ s \in {"partial", "complete"}
         \/ Item(r).key \in Undecided
         \/ Doubtful(R, m)
      /\ m \in R.messages /\ R.status[m] = "complete" =>
            \/ s = "complete"
            \/ Item(r).key \in Undecided
            \/ Doubtful(R, m)
  <2>1. CASE NewMessage(r) BY <1>6, <2>1 DEF StatusAfter
  <2>2. CASE ~NewMessage(r)
    <3>1. /\ target[r].message = m /\ m \in R.messages
          /\ target[r].status \in {"partial", "complete"} \/ Doubtful(R, m)
          /\ target[r].count = R.versionCount[m] =>
                /\ target[r].status = "complete" => R.status[m] = "complete"
                /\ Finished(R, m) => target[r].status = "complete"
      BY <2>2 DEF NewMessage, MessageOf, TargetIn
    <3>2. target[r].count = R.versionCount[m] BY <1>0, <1>3, <1>4, <1>7, <3>1
    <3>3. R.status[m] \in {"partial", "complete"} \/ Doubtful(R, m) BY <3>1 DEF RowsSound
    <3> HIDE DEF R, m
    <3> QED BY <2>2, <3>1, <3>2, <3>3 DEF StatusAfter
  <2> QED BY <2>1, <2>2
<1> HIDE DEF R, A, m, n, v, s
<1>9. \A k \in Fingerprint : /\ A.versionCount[k] = IF k = m THEN n ELSE R.versionCount[k]
                             /\ A.current[k] = IF k = m THEN n ELSE R.current[k]
                             /\ A.status[k] = IF k = m THEN s ELSE R.status[k]
  BY <1>0, <1>1, <1>3
<1>a. RowsSound(R) /\ TargetIn(r, R) BY DEF R
<1>b. /\ \A k : Doubtful(A, k) <=> Doubtful(R, k) \/ (k = m /\ Item(r).key \in Undecided)
      /\ \A k : Finished(A, k) <=> Finished(R, k) \/ (k = m /\ Item(r).status = "complete")
  BY <1>1, <1>2 DEF Doubtful, Finished
<1>10. \A w \in A.versions : w.message \in A.messages BY <1>1, <1>2, <1>a DEF RowsSound
<1>11. ASSUME NEW k \in A.messages
       PROVE  /\ {w.number : w \in {x \in A.versions : x.message = k}} = 1 .. A.versionCount[k]
              /\ A.current[k] \in 1 .. A.versionCount[k]
              /\ A.status[k] \in {"partial", "complete"} \/ Doubtful(A, k)
              /\ Finished(A, k) => A.status[k] = "complete"
  <2>1. k \in Fingerprint BY <1>0, <1>1, <1>3
  <2>2. CASE k # m
    <3>1. k \in R.messages /\ A.versionCount[k] = R.versionCount[k] /\ A.current[k] = R.current[k]
          /\ A.status[k] = R.status[k]
      BY <1>1, <1>9, <2>1, <2>2
    <3>2. {x \in A.versions : x.message = k} = {x \in R.versions : x.message = k}
      BY <1>1, <1>2, <2>2
    <3> QED BY <1>a, <1>b, <2>2, <3>1, <3>2 DEF RowsSound
  <2>3. CASE k = m
    <3>1. A.versionCount[k] = n /\ A.current[k] = n /\ A.status[k] = s BY <1>9, <2>1, <2>3
    <3>2. {x \in A.versions : x.message = k} = {x \in R.versions : x.message = m} \cup {v}
      BY <1>1, <1>2, <2>3
    <3>3. {w.number : w \in {x \in A.versions : x.message = k}}
            = {w.number : w \in {x \in R.versions : x.message = m}} \cup {n}
      BY <1>2, <3>2
    <3>s. /\ A.status[k] \in {"partial", "complete"} \/ Doubtful(A, k)
          /\ Finished(A, k) => A.status[k] = "complete"
      <4>1. Finished(R, m) => m \in R.messages BY <1>a DEF Finished, RowsSound
      <4> QED BY <1>8, <1>b, <2>3, <3>1, <4>1
    <3>4. CASE m \in R.messages
      <4>1. {w.number : w \in {x \in R.versions : x.message = m}} = 1 .. R.versionCount[m]
        BY <1>a, <3>4 DEF RowsSound
      <4>2. R.versionCount[m] \in Nat /\ n = R.versionCount[m] + 1 BY <1>3, <1>7, <2>1, <2>3, <3>4
      <4>3. 1 .. R.versionCount[m] \cup {n} = 1 .. n BY <4>2
      <4>4. n \in 1 .. n BY <4>2
      <4> QED BY <3>1, <3>3, <3>s, <4>1, <4>3, <4>4
    <3>5. CASE m \notin R.messages
      <4>1. {x \in R.versions : x.message = m} = {} BY <1>a, <3>5 DEF RowsSound
      <4>2. n = 1 BY <1>0, <1>6, <3>5
      <4>3. {w.number : w \in {x \in R.versions : x.message = m}} \cup {n} = {1} BY <4>1, <4>2
      <4>4. 1 .. 1 = {1} OBVIOUS
      <4> QED BY <3>1, <3>3, <3>s, <4>2, <4>3, <4>4
    <3> QED BY <3>4, <3>5
  <2> QED BY <2>2, <2>3
<1>12. \A w, x \in A.versions : w.message = x.message /\ w.number = x.number => w = x
  BY <1>1, <1>2, <1>5, <1>a DEF RowsSound, R, m, n
<1>13. \A w, x \in A.versions : w.key = x.key => w = x
  BY <1>1, <1>2, <1>a DEF RowsSound, TargetIn
<1>15. RowsSound(A) BY <1>10, <1>11, <1>12, <1>13 DEF RowsSound
<1>16. ASSUME NEW k \in R.messages
       PROVE  /\ k \in A.messages /\ R.versionCount[k] <= A.versionCount[k]
              /\ R.status[k] = "complete" =>
                    \/ A.status[k] = "complete"
                    \/ R.versionCount[k] # A.versionCount[k] /\ Doubtful(A, k)
              /\ R.versionCount[k] = A.versionCount[k] /\ Finished(A, k) => Finished(R, k)
  <2>1. k \in Fingerprint /\ R.versionCount[k] \in Nat BY <1>3
  <2>2. CASE k = m
    <3>1. A.versionCount[k] = R.versionCount[k] + 1 /\ A.status[k] = s BY <1>7, <1>9, <2>1, <2>2
    <3>2. /\ R.versionCount[k] <= A.versionCount[k] /\ R.versionCount[k] # A.versionCount[k]
      BY <2>1, <3>1
    <3> QED BY <1>1, <1>8, <1>b, <2>2, <3>1, <3>2
  <2>3. CASE k # m BY <1>1, <1>9, <1>b, <2>1, <2>3
  <2> QED BY <2>2, <2>3
<1>17. \A w \in R.versions : Persists(w, A) BY <1>1 DEF Persists
<1>18. Extends(R, A) BY <1>1, <1>16, <1>17 DEF Extends
<1>19. Archived(Item(r), A) BY <1>1, <1>2 DEF Archived
<1>20. \A w \in A.versions : w.key = Item(r).key \/ Persists(w, R)
  BY <1>1, <1>2 DEF Persists
<1>21. NoRepeats(R) => NoRepeats(A)
  <2>1. ~ \E w \in R.versions : w.message = m /\ w.content = Item(r).content
    BY DEF Conflict, R, m
  <2> QED BY <1>1, <1>2, <2>1 DEF NoRepeats
<1> QED BY <1>1, <1>15, <1>18, <1>19, <1>20, <1>21 DEF R, A

\* The content is there: its version stays, maybe promoted, and so does its message.
LEMMA ReuseSound ==
    ASSUME NEW r \in Request, Item(r) \in Payload, target[r] \in Target,
           View(r) \in Rows, RowsSound(View(r)), TargetIn(r, View(r)), match[r] # 0
    PROVE  LET A == ReuseVersion(r, View(r))
           IN  /\ A \in Rows /\ RowsSound(A) /\ Extends(View(r), A) /\ Archived(Item(r), A)
               /\ \A v \in A.versions : Persists(v, View(r))
               /\ NoRepeats(View(r)) => NoRepeats(A)
               /\ A.rank = View(r).rank
<1> DEFINE R == View(r)
           A == ReuseVersion(r, View(r))
           m == MessageOf(r)
           W == WithMessage(r, R)
           old == CHOOSE v \in R.versions : v.message = m /\ v.number = match[r]
           new == [old EXCEPT !.status = "reconciled"]
           promoted == target[r].fragment /\ Item(r).status = "complete"
           s == IF target[r].status = "complete" THEN R.status[m] ELSE "complete"
<1>0. /\ target[r].message # None /\ m = target[r].message /\ m \in R.messages /\ m \in Fingerprint
  BY DEF TargetIn, MessageOf, Rows
<1>1. PICK f \in R.versions : f.message = m /\ f.number = match[r] /\ f.content = Item(r).content
  BY <1>0 DEF TargetIn
<1>2. old \in R.versions /\ old.message = m /\ old.number = match[r] BY <1>1
<1>3. old = f BY <1>1, <1>2 DEF RowsSound
<1>4. old.content = Item(r).content BY <1>1, <1>3
<1>t. target[r].source \in Source \cup {None} /\ Item(r).source \in Source \cup {None}
  BY DEF Target, Payload
<1>5. /\ W \in Rows /\ W.messages = R.messages /\ W.versions = R.versions
      /\ W.versionCount = R.versionCount /\ W.current = R.current /\ W.status = R.status
      /\ W.rank = R.rank /\ W.exists = R.exists
  <2>1. /\ W \in Rows /\ W.messages = R.messages \cup {m} /\ W.versions = R.versions
        /\ W.versionCount = R.versionCount /\ W.current = R.current /\ W.status = R.status
        /\ W.rank = R.rank /\ W.exists = R.exists
    BY <1>0, <1>t, MessageFields
  <2> QED BY <1>0, <2>1
<1>6. A = IF promoted
          THEN [W EXCEPT !.versions = (W.versions \ {old}) \cup {new},
                         !.status = [W.status EXCEPT ![m] =
                             IF target[r].status = "complete" THEN R.status[m] ELSE "complete"]]
          ELSE W
  BY DEF ReuseVersion
<1>7. CASE ~promoted
  <2>1. SameArchive(R, A) /\ A \in Rows /\ A.rank = R.rank BY <1>5, <1>6, <1>7 DEF SameArchive
  <2>2. Archived(Item(r), R) BY <1>2, <1>4 DEF Archived
  <2>3. RowsSound(A) /\ Extends(R, A) /\ Archived(Item(r), A)
    BY <2>1, <2>2, SameSound, ExtendsSelf
  <2>4. A.versions = R.versions BY <2>1 DEF SameArchive
  <2>5. (\A v \in A.versions : Persists(v, R)) /\ (NoRepeats(R) => NoRepeats(A))
    BY <2>4 DEF Persists, NoRepeats
  <2> QED BY <2>1, <2>3, <2>5
<1>8. CASE promoted
  <2>0. R.versions \subseteq Version /\ R.status \in [Fingerprint -> Status]
        /\ R.versionCount \in [Fingerprint -> Nat] /\ R.messages \subseteq Fingerprint
    BY DEF Rows
  <2>1. /\ new \in Version /\ new.message = m /\ new.number = match[r]
        /\ new.content = Item(r).content /\ new.key = old.key /\ new.status = "reconciled"
    <3>1. old \in Version /\ "reconciled" \in Status BY <1>2, <2>0 DEF Status
    <3> HIDE DEF old
    <3> QED BY <1>2, <1>4, <3>1 DEF Version
  <2>s. s \in {R.status[m], "complete"} /\ s \in Status BY <1>0, <2>0 DEF Status
  <2>2. A = [W EXCEPT !.versions = (R.versions \ {old}) \cup {new},
                      !.status = [R.status EXCEPT ![m] = s]]
    BY <1>5, <1>6, <1>8
  <2> HIDE DEF R, A, m, W, old, new, s
  <2>3. (R.versions \ {old}) \cup {new} \in SUBSET Version BY <2>0, <2>1
  <2>4. [R.status EXCEPT ![m] = s] \in [Fingerprint -> Status] BY <2>0, <2>s
  <2>5. A \in Rows BY <1>5, <2>2, <2>3, <2>4 DEF Rows
  <2>6. /\ A.messages = R.messages /\ A.versionCount = R.versionCount /\ A.current = R.current
        /\ A.rank = R.rank /\ A.exists = R.exists /\ A.versions = (R.versions \ {old}) \cup {new}
        /\ A.status = [R.status EXCEPT ![m] = s]
    BY <1>5, <2>2 DEF Rows
  <2>a. RowsSound(R) BY DEF R
  <2>7. \A k \in Fingerprint : A.status[k] \in {R.status[k], "complete"}
    BY <2>0, <2>6, <2>s
  <2>b. /\ \A k : Doubtful(R, k) => Doubtful(A, k)
        /\ \A k : Finished(A, k) => Finished(R, k)
    BY <1>2, <2>1, <2>6 DEF Doubtful, Finished
  <2>8. ASSUME NEW k \in A.messages
        PROVE  /\ {w.number : w \in {x \in A.versions : x.message = k}} = 1 .. A.versionCount[k]
               /\ A.current[k] \in 1 .. A.versionCount[k]
               /\ A.status[k] \in {"partial", "complete"} \/ Doubtful(A, k)
               /\ Finished(A, k) => A.status[k] = "complete"
    <3>1. {w.number : w \in {x \in A.versions : x.message = k}}
            = {w.number : w \in {x \in R.versions : x.message = k}}
      <4>1. ASSUME NEW x \in A.versions, x.message = k
            PROVE  \E y \in R.versions : y.message = k /\ y.number = x.number
        BY <1>2, <2>1, <2>6, <4>1
      <4>2. ASSUME NEW x \in R.versions, x.message = k
            PROVE  \E y \in A.versions : y.message = k /\ y.number = x.number
        BY <1>2, <2>1, <2>6, <4>2
      <4> QED BY <4>1, <4>2
    <3>2. k \in R.messages /\ k \in Fingerprint BY <2>0, <2>6
    <3>3. /\ A.status[k] \in {"partial", "complete"} \/ Doubtful(A, k)
          /\ Finished(A, k) => A.status[k] = "complete"
      <4>1. /\ R.status[k] \in {"partial", "complete"} \/ Doubtful(R, k)
            /\ Finished(R, k) => R.status[k] = "complete"
        BY <2>a, <3>2 DEF RowsSound
      <4> QED BY <2>7, <2>b, <3>2, <4>1
    <3> QED BY <2>6, <2>a, <3>1, <3>2, <3>3 DEF RowsSound
  <2>9. \A w \in A.versions : w.message \in A.messages BY <1>0, <2>1, <2>6, <2>a DEF RowsSound
  <2>10. \A w, x \in A.versions : w.message = x.message /\ w.number = x.number => w = x
    BY <1>2, <2>1, <2>6, <2>a DEF RowsSound
  <2>11. \A w, x \in A.versions : w.key = x.key => w = x
    BY <1>2, <2>1, <2>6, <2>a DEF RowsSound
  <2>13. RowsSound(A) BY <2>8, <2>9, <2>10, <2>11 DEF RowsSound
  <2>14. ASSUME NEW w \in R.versions PROVE Persists(w, A)
    <3>1. CASE w = old BY <1>2, <1>4, <2>1, <2>6, <3>1 DEF Persists
    <3>2. CASE w # old BY <2>6, <3>2 DEF Persists
    <3> QED BY <3>1, <3>2
  <2>15. \A k \in R.messages : /\ k \in A.messages /\ R.versionCount[k] <= A.versionCount[k]
                               /\ R.status[k] = "complete" => A.status[k] = "complete"
                               /\ Finished(A, k) => Finished(R, k)
    BY <2>0, <2>6, <2>7, <2>b
  <2>16. Extends(R, A) BY <2>6, <2>14, <2>15 DEF Extends
  <2>17. Archived(Item(r), A) BY <2>1, <2>6 DEF Archived
  <2>18. \A v \in A.versions : Persists(v, R) BY <1>2, <1>4, <2>1, <2>6 DEF Persists
  <2>19. NoRepeats(R) => NoRepeats(A) BY <1>2, <1>4, <2>1, <2>6 DEF NoRepeats
  <2> QED BY <2>5, <2>6, <2>13, <2>16, <2>17, <2>18, <2>19 DEF R, A
<1> QED BY <1>7, <1>8

\* What StoreItem writes.
Written(r) == Touched(r, IF match[r] = 0 THEN AppendVersion(r, View(r)) ELSE ReuseVersion(r, View(r)))

\* It is sound, it extends what was there, and it holds the item.
LEMMA WrittenSound ==
    ASSUME NEW r \in Request, TypeOK, FrameSound(r), TargetSound(r), RowsSound(View(r)),
           stage[r] = "store", ~Conflict(r)
    PROVE  /\ Written(r) \in Rows /\ RowsSound(Written(r)) /\ Extends(View(r), Written(r))
           /\ Archived(Item(r), Written(r)) /\ Written(r).rank < ComplianceVerified
           /\ \A v \in Written(r).versions : v.key = Item(r).key \/ Persists(v, View(r))
           /\ NoRepeats(View(r)) => NoRepeats(Written(r))
<1> DEFINE S == IF match[r] = 0 THEN AppendVersion(r, View(r)) ELSE ReuseVersion(r, View(r))
<1>1. /\ Item(r) \in Payload /\ PrintOf(Item(r)) \in Fingerprint /\ Item(r).rank \in Rank
      /\ Item(r).status \notin {"partial", "complete"} => Item(r).key \in Undecided
  BY ItemTyped
<1>2. /\ target[r] \in Target /\ seen[r].count \in Nat /\ seen[r].rank \in Rank
      /\ View(r) \in Rows /\ View(r).rank < ComplianceVerified
  BY DEF TypeOK, View
<1>3. TargetIn(r, View(r)) BY DEF TargetSound, TargetIn, Searching
<1>4. /\ S \in Rows /\ RowsSound(S) /\ Extends(View(r), S) /\ Archived(Item(r), S)
      /\ \A v \in S.versions : v.key = Item(r).key \/ Persists(v, View(r))
      /\ NoRepeats(View(r)) => NoRepeats(S)
      /\ S.rank = View(r).rank
  <2>1. CASE match[r] = 0 BY <1>1, <1>2, <1>3, <2>1, AppendSound
  <2>2. CASE match[r] # 0 BY <1>1, <1>2, <1>3, <2>2, ReuseSound
  <2> QED BY <2>1, <2>2
<1>5. Written(r) = Touched(r, S) BY DEF Written
<1> HIDE DEF S
<1>6. /\ Written(r) \in Rows /\ SameArchive(S, Written(r)) /\ Written(r).rank < ComplianceVerified
  BY <1>1, <1>2, <1>4, <1>5, TouchedRows
<1>7. RowsSound(Written(r)) /\ Extends(View(r), Written(r)) /\ Archived(Item(r), Written(r))
  BY <1>4, <1>6, SameSound
<1>8. Written(r).versions = S.versions BY <1>6 DEF SameArchive
<1>9. NoRepeats(S) => NoRepeats(Written(r)) BY <1>8 DEF NoRepeats
<1> QED BY <1>4, <1>6, <1>7, <1>8, <1>9

-----------------------------------------------------------------------------
(* The inductive invariant *)

Inv == TypeOK /\ RowsKept /\ KeysOwned /\ ClaimsStand /\ RequestsSound

\* What a request sees is sound, extends what is committed, and has claimed keys only.
LEMMA ViewSound ==
    ASSUME Inv, NEW r \in Request
    PROVE  /\ View(r) \in Rows /\ Base(r) \in Rows /\ RowsSound(View(r))
           /\ View(r).rank < ComplianceVerified
           /\ Extends(db, View(r)) /\ Extends(db, Base(r)) /\ Extends(Base(r), View(r))
           /\ \A v \in View(r).versions : v.key \in claims \cup mine[r]
<1>0. None \notin Request BY IngestAssumption
<1>1. db \in Rows /\ draft \in Rows /\ (held[r] => lock = r)
  BY DEF Inv, TypeOK, RequestsSound, FrameSound
<1>2. Extends(db, db) /\ Extends(draft, draft) BY <1>1, ExtendsSelf
<1>3. lock = r => Extends(db, draft) BY <1>0 DEF Inv, RowsKept
<1>4. Extends(db, View(r)) /\ Extends(db, Base(r)) /\ Extends(Base(r), View(r))
  BY <1>1, <1>2, <1>3 DEF View, Base
<1>5. \A v \in View(r).versions : v.key \in claims \cup mine[r] BY DEF View, Inv, RowsKept
<1> QED BY <1>1, <1>4, <1>5 DEF View, Base, Inv, RowsKept, TypeOK

\* A step of one request leaves the others what they have found.
LEMMA OthersKept ==
    ASSUME Inv, NEW q \in Request,
           index'[q] = index[q], held'[q] = held[q], stage'[q] = stage[q], mine'[q] = mine[q],
           target'[q] = target[q], match'[q] = match[q], answered'[q] = answered[q],
           lock' = q <=> lock = q, lock = q => draft' = draft,
           db' \in Rows, Extends(db, db'), \A v \in db'.versions : v.key \notin mine[q],
           claims \subseteq claims'
    PROVE  FrameSound(q)' /\ TargetSound(q)' /\ AnswersKept(q)'
<1>0. FrameSound(q) /\ TargetSound(q) /\ AnswersKept(q) BY DEF Inv, RequestsSound
<1>1. Item(q)' = Item(q) BY DEF Item
<1>2. db \in Rows /\ draft \in Rows BY DEF Inv, TypeOK
<1>3. Extends(View(q), View(q)') /\ Extends(Base(q), Base(q)')
  BY <1>0, <1>2, ExtendsSelf DEF View, Base, FrameSound
<1>4. FrameSound(q)'
  <2>1. View(q).exists => View(q)'.exists BY <1>3 DEF Extends
  <2> QED BY <1>0, <1>1, <2>1 DEF FrameSound
<1>5. TargetSound(q)'
  <2>1. ASSUME target[q].message # None
        PROVE  /\ target[q].message \in View(q)'.messages
               /\ target[q].count <= View(q)'.versionCount[target[q].message]
               /\ target[q].status \in {"partial", "complete"} \/ Doubtful(View(q)', target[q].message)
               /\ target[q].count = View(q)'.versionCount[target[q].message] =>
                     /\ target[q].status = "complete"
                           => View(q)'.status[target[q].message] = "complete"
                     /\ Finished(View(q)', target[q].message) => target[q].status = "complete"
    <3> DEFINE m == target[q].message
               A == View(q)
               B == View(q)'
    <3>1. /\ m \in A.messages /\ target[q].count <= A.versionCount[m]
          /\ target[q].status \in {"partial", "complete"} \/ Doubtful(A, m)
          /\ target[q].count = A.versionCount[m] =>
                /\ target[q].status = "complete" => A.status[m] = "complete"
                /\ Finished(A, m) => target[q].status = "complete"
      BY <1>0, <2>1 DEF TargetSound
    <3>2. A \in Rows /\ B \in Rows /\ target[q] \in Target /\ Extends(A, B)
      BY <1>2, <1>3 DEF View, Inv, TypeOK
    <3> HIDE DEF A, B
    <3>3. /\ m \in B.messages /\ A.versionCount[m] <= B.versionCount[m]
          /\ A.status[m] = "complete" =>
                \/ B.status[m] = "complete"
                \/ A.versionCount[m] # B.versionCount[m] /\ Doubtful(B, m)
          /\ A.versionCount[m] = B.versionCount[m] /\ Finished(B, m) => Finished(A, m)
      BY <3>1, <3>2 DEF Extends
    <3>4. m \in Fingerprint /\ target[q].count \in Nat BY <3>1, <3>2 DEF Rows, Target
    <3>5. A.versionCount[m] \in Nat /\ B.versionCount[m] \in Nat BY <3>2, <3>4 DEF Rows
    <3>6. /\ target[q].count <= B.versionCount[m]
          /\ target[q].count = B.versionCount[m] =>
                target[q].count = A.versionCount[m] /\ A.versionCount[m] = B.versionCount[m]
      BY <3>1, <3>3, <3>4, <3>5
    <3>7. Doubtful(A, m) => Doubtful(B, m) BY <3>2, DoubtfulKept
    <3> HIDE DEF m
    <3> QED BY <3>1, <3>3, <3>6, <3>7 DEF A, B, m
  <2>2. ASSUME match[q] # 0
        PROVE  \E v \in View(q)'.versions : /\ v.message = target[q].message /\ v.number = match[q]
                                            /\ v.content = Item(q).content
    <3>1. PICK v \in View(q).versions : /\ v.message = target[q].message /\ v.number = match[q]
                                        /\ v.content = Item(q).content
      BY <1>0, <2>2 DEF TargetSound
    <3> QED BY <1>3, <3>1 DEF Extends, Persists
  <2>3. stage[q] \in Searching => \A v \in View(q)'.versions : v.key # Item(q).key
    <3>1. SUFFICES ASSUME stage[q] \in Searching PROVE \A v \in View(q)'.versions : v.key # Item(q).key
      OBVIOUS
    <3>2. Item(q).key \in mine[q] /\ \A v \in View(q).versions : v.key # Item(q).key
      BY <1>0, <3>1 DEF TargetSound
    <3> QED BY <3>2 DEF View
  <2> QED BY <1>0, <1>1, <2>1, <2>2, <2>3 DEF TargetSound
<1>6. AnswersKept(q)'
  <2>1. \A p : Archived(p, Base(q)) => Archived(p, Base(q)') BY <1>3, ArchivedKept
  <2> QED BY <1>0, <1>1, <2>1 DEF AnswersKept, Archived
<1> QED BY <1>4, <1>5, <1>6

\* A committed version has nobody's uncommitted key.
LEMMA CommittedKeys ==
    ASSUME Inv, NEW q \in Request
    PROVE  \A v \in db.versions : v.key \notin mine[q]
BY DEF Inv, RowsKept, KeysOwned

-----------------------------------------------------------------------------
(* The steps of a request that write nothing *)

\* Such a step keeps the invariant, if the request's own part of it holds and its key
\* is its own.
LEMMA QuietSound ==
    ASSUME Inv, NEW r \in Request, TypeOK',
           UNCHANGED <<db, draft, lock, claims, index, held, answered>>,
           \A q \in Request \ {r} : /\ stage'[q] = stage[q] /\ mine'[q] = mine[q]
                                    /\ target'[q] = target[q] /\ match'[q] = match[q],
           mine[r] \subseteq mine'[r], mine'[r] \cap claims = {},
           \A q \in Request \ {r} : mine'[r] \cap mine[q] = {},
           FrameSound(r)', TargetSound(r)', AnswersKept(r)'
    PROVE  Inv'
<1>1. ASSUME NEW q \in Request \ {r} PROVE FrameSound(q)' /\ TargetSound(q)' /\ AnswersKept(q)'
  <2>1. Extends(db, db') /\ db' \in Rows BY ExtendsSelf DEF Inv, TypeOK
  <2>2. \A v \in db'.versions : v.key \notin mine[q] BY CommittedKeys
  <2> QED BY <2>1, <2>2, OthersKept
<1>2. RequestsSound' BY <1>1 DEF RequestsSound
<1>3. RowsKept' BY DEF Inv, RowsKept
<1>4. KeysOwned' BY DEF Inv, KeysOwned
<1>5. ClaimsStand' BY DEF Inv, ClaimsStand, Archived
<1> QED BY <1>2, <1>3, <1>4, <1>5 DEF Inv

\* What is left as it is, spelled out for one request.
LEMMA SameFunctions ==
    ASSUME TypeOK, NEW r \in Request
    PROVE  /\ mine = [mine EXCEPT ![r] = mine[r]] /\ target = [target EXCEPT ![r] = target[r]]
           /\ match = [match EXCEPT ![r] = match[r]] /\ seen = [seen EXCEPT ![r] = seen[r]]
           /\ mine[r] \in SUBSET Key /\ target[r] \in Target /\ match[r] \in Nat
           /\ seen[r] \in [rank : Rank, count : Nat]
<1>1. /\ mine \in [Request -> SUBSET Key] /\ target \in [Request -> Target]
      /\ match \in [Request -> Nat] /\ seen \in [Request -> [rank : Rank, count : Nat]]
  BY DEF TypeOK
<1> QED BY <1>1

\* Begin, and the search that does not find.
LEMMA MoveSound ==
    ASSUME Inv, NEW r \in Request, NEW s \in Stage,
           UNCHANGED <<db, draft, lock, claims, mine, index, held, seen, target, match, answered, faults>>,
           stage' = [stage EXCEPT ![r] = s],
           \/ stage[r] = "new" /\ s = (IF r \in Upsert THEN "claim" ELSE "load")
           \/ stage[r] = "by_source" /\ s = "by_print"
           \/ stage[r] = "by_print" /\ s = "by_content"
           \/ stage[r] = "by_content" /\ s = "store"
    PROVE  Inv'
<1>1. TypeOK' /\ stage'[r] = s /\ \A q \in Request \ {r} : stage'[q] = stage[q]
  BY DEF Inv, TypeOK
<1>2. FrameSound(r) /\ TargetSound(r) /\ AnswersKept(r) BY DEF Inv, RequestsSound
<1>3. Item(r)' = Item(r) /\ View(r)' = View(r) /\ Base(r)' = Base(r) BY DEF Item, View, Base
<1>4. FrameSound(r)' BY <1>1, <1>2, <1>3 DEF FrameSound, Searching
<1>5. TargetSound(r)' BY <1>1, <1>2, <1>3 DEF TargetSound, Searching, NoTarget
<1>6. AnswersKept(r)'
  <2>1. stage[r] \in Searching <=> s \in Searching BY DEF Searching
  <2> QED BY <1>1, <1>2, <1>3, <2>1 DEF AnswersKept, Archived
<1>7. mine[r] \cap claims = {} /\ \A q \in Request \ {r} : mine[r] \cap mine[q] = {}
  BY DEF Inv, KeysOwned
<1> QED BY <1>1, <1>4, <1>5, <1>6, <1>7, QuietSound

\* get_or_create_conversation finds the conversation, or not.
LEMMA LoadSound ==
    ASSUME Inv, NEW r \in Request, LoadConversation(r)
    PROVE  Inv'
<1>0. TypeOK BY DEF Inv
<1>1. PICK s \in Stage, c \in [rank : Rank, count : Nat] :
        /\ stage' = [stage EXCEPT ![r] = s] /\ seen' = [seen EXCEPT ![r] = c]
        /\ \/ View(r).exists /\ s = (IF r \in Upsert THEN "touch" ELSE "claim")
           \/ ~View(r).exists /\ s = "create"
  <2>1. CASE View(r).exists
    <3>1. View(r).rank \in Rank /\ View(r).count \in Nat BY ViewSound DEF Rows
    <3>2. [rank |-> View(r).rank, count |-> View(r).count] \in [rank : Rank, count : Nat] BY <3>1
    <3> QED BY <2>1, <3>2 DEF LoadConversation, Goto, Stage
  <2>2. CASE ~View(r).exists
    <3>1. stage' = [stage EXCEPT ![r] = "create"] /\ seen' = [seen EXCEPT ![r] = seen[r]]
      BY <1>0, <2>2, SameFunctions DEF LoadConversation, Goto
    <3> QED BY <1>0, <2>2, <3>1, SameFunctions DEF Stage
  <2> QED BY <2>1, <2>2
<1>2. /\ stage[r] = "load"
      /\ UNCHANGED <<db, draft, lock, claims, mine, index, held, target, match, answered, faults>>
  BY DEF LoadConversation
<1>3. /\ TypeOK' /\ stage'[r] = s /\ \A q \in Request \ {r} : stage'[q] = stage[q]
  BY <1>1, <1>2 DEF Inv, TypeOK
<1>4. FrameSound(r) /\ TargetSound(r) /\ AnswersKept(r) BY DEF Inv, RequestsSound
<1>5. Item(r)' = Item(r) /\ View(r)' = View(r) /\ Base(r)' = Base(r) BY <1>2 DEF Item, View, Base
<1>6. s = "create" => lock # r
  <2>1. lock = r => View(r).exists BY IngestAssumption DEF Inv, RowsKept, View
  <2> QED BY <1>1, <2>1
<1>7. FrameSound(r)'
  <2>1. s \in {"touch", "claim"} => View(r).exists BY <1>1
  <2>2. s \in {"touch", "claim", "create"} BY <1>1
  <2>3. s = "touch" => r \in Upsert BY <1>1
  <2> QED BY <1>2, <1>3, <1>4, <1>5, <1>6, <2>1, <2>2, <2>3 DEF FrameSound, Searching
<1>8. TargetSound(r)' BY <1>1, <1>2, <1>3, <1>4, <1>5 DEF TargetSound, Searching, NoTarget
<1>9. AnswersKept(r)' BY <1>1, <1>2, <1>3, <1>4, <1>5 DEF AnswersKept, Archived, Searching
<1>10. mine[r] \cap claims = {} /\ \A q \in Request \ {r} : mine[r] \cap mine[q] = {}
  BY DEF Inv, KeysOwned
<1> QED BY <1>2, <1>3, <1>7, <1>8, <1>9, <1>10, QuietSound

\* _claim_idempotency
LEMMA ClaimSound ==
    ASSUME Inv, NEW r \in Request, ClaimKey(r)
    PROVE  Inv'
<1> DEFINE k == Item(r).key
           M == mine[r] \cup ({k} \ claims)
           s == CASE r \in Upsert -> "load"
                  [] r \notin Upsert /\ Replayed(r) -> "touch"
                  [] OTHER -> "by_source"
<1>0. TypeOK /\ FrameSound(r) /\ TargetSound(r) /\ AnswersKept(r) BY DEF Inv, RequestsSound
<1>1. /\ stage[r] = "claim" /\ ~KeyBusy(r)
      /\ UNCHANGED <<db, draft, lock, claims, index, held, seen, target, match, answered, faults>>
      /\ mine' = [mine EXCEPT ![r] = M] /\ stage' = [stage EXCEPT ![r] = s]
  BY <1>0 DEF ClaimKey, Goto, itemVars, TypeOK
<1>2. k \in Key /\ index[r] \in 1 .. Len(BatchOf[r]) BY <1>0, <1>1, ItemTyped
<1>3. M \in SUBSET Key BY <1>0, <1>2, SameFunctions
<1>s. /\ s \in {"load", "touch", "by_source"} /\ s \in Stage
      /\ s = "load" <=> r \in Upsert
      /\ s = "touch" => k \in claims \cup mine[r]
      /\ s = "by_source" => k \notin claims \cup mine[r]
  BY DEF Replayed, Stage
<1> HIDE DEF s, k, M
<1>4. /\ TypeOK' /\ stage'[r] = s /\ mine'[r] = M
      /\ \A q \in Request \ {r} : stage'[q] = stage[q] /\ mine'[q] = mine[q]
  BY <1>0, <1>1, <1>3, <1>s DEF TypeOK
<1>5. Item(r)' = Item(r) /\ View(r)' = View(r) /\ Base(r)' = Base(r) BY <1>1 DEF Item, View, Base
<1>6. FrameSound(r)'
  <2>1. \A x \in M : \E i \in 1 .. Len(BatchOf[r]) : x = BatchOf[r][i].key
    BY <1>0, <1>2 DEF FrameSound, M, k, Item
  <2>2. s = "touch" => Item(r).key \in claims \cup M BY <1>s DEF M, k
  <2> QED BY <1>0, <1>1, <1>4, <1>5, <1>s, <2>1, <2>2 DEF FrameSound, Searching
<1>7. TargetSound(r)'
  <2>1. s = "by_source" => k \in M /\ \A v \in View(r).versions : v.key # k
    BY <1>s, ViewSound DEF M
  <2> QED BY <1>0, <1>1, <1>4, <1>5, <1>s, <2>1 DEF TargetSound, Searching, NoTarget, k
<1>8. AnswersKept(r)'
  <2>1. ASSUME NEW q \in Request \ Upsert, NEW i \in 1 .. Len(BatchOf[q]), BatchOf[q][i].key \in M
        PROVE  \/ Archived(BatchOf[q][i], Base(r))
               \/ s \in Searching /\ BatchOf[q][i].key = k
    <3>1. CASE BatchOf[q][i].key \in mine[r] BY <1>0, <1>1, <3>1 DEF AnswersKept, Searching
    <3>2. CASE BatchOf[q][i].key \notin mine[r]
      <4>1. BatchOf[q][i].key = k /\ k \notin claims BY <2>1, <3>2 DEF M
      <4>2. r \notin Upsert BY <1>2, <4>1, KeyAssumption DEF k, Item
      <4>3. s = "by_source" BY <1>s, <3>2, <4>1, <4>2
      <4> QED BY <4>1, <4>3 DEF Searching
    <3> QED BY <3>1, <3>2
  <2> QED BY <1>0, <1>1, <1>4, <1>5, <2>1 DEF AnswersKept, Archived, k
<1>9. M \cap claims = {} /\ mine[r] \subseteq M BY DEF Inv, KeysOwned, M
<1>10. \A q \in Request \ {r} : M \cap mine[q] = {}
  BY <1>1 DEF Inv, KeysOwned, KeyBusy, M, k
<1> QED BY <1>1, <1>4, <1>6, <1>7, <1>8, <1>9, <1>10, QuietSound

\* _find_message finds message m.
LEMMA FoundSound ==
    ASSUME Inv, NEW r \in Request, stage[r] \in {"by_source", "by_print", "by_content"},
           NEW m \in View(r).messages, Found(r, m)
    PROVE  Inv'
<1> DEFINE T == [message |-> m, source |-> View(r).source[m], count |-> View(r).versionCount[m],
                 status |-> View(r).status[m], fragment |-> FALSE]
<1>0. TypeOK /\ FrameSound(r) /\ TargetSound(r) /\ AnswersKept(r) BY DEF Inv, RequestsSound
<1>1. /\ UNCHANGED <<db, draft, lock, claims, mine, index, held, seen, match, answered, faults>>
      /\ target' = [target EXCEPT ![r] = T] /\ stage' = [stage EXCEPT ![r] = "version"]
  BY DEF Found, Goto
<1>2. View(r) \in Rows /\ m \in Fingerprint BY ViewSound DEF Rows
<1>3. /\ View(r).source[m] \in Source \cup {None} /\ View(r).versionCount[m] \in Nat
      /\ View(r).status[m] \in Status
  BY <1>2 DEF Rows
<1>4. T \in Target BY <1>2, <1>3 DEF Target
<1>5. m # None BY <1>2, IngestAssumption
<1>6. /\ View(r).status[m] \in {"partial", "complete"} \/ Doubtful(View(r), m)
      /\ Finished(View(r), m) => View(r).status[m] = "complete"
  BY ViewSound DEF RowsSound
<1>7. /\ T.message = m /\ T.count = View(r).versionCount[m] /\ T.status = View(r).status[m]
  OBVIOUS
<1> HIDE DEF T
<1>8. /\ TypeOK' /\ stage'[r] = "version" /\ target'[r] = T
      /\ \A q \in Request \ {r} : stage'[q] = stage[q] /\ target'[q] = target[q]
  BY <1>0, <1>1, <1>4 DEF TypeOK, Stage
<1>9. Item(r)' = Item(r) /\ View(r)' = View(r) /\ Base(r)' = Base(r) BY <1>1 DEF Item, View, Base
<1>10. FrameSound(r)' BY <1>0, <1>1, <1>8, <1>9 DEF FrameSound, Searching
<1>11. match[r] = 0 BY <1>0 DEF TargetSound
<1>12. TargetSound(r)'
  BY <1>0, <1>1, <1>3, <1>5, <1>6, <1>7, <1>8, <1>9, <1>11 DEF TargetSound, Searching
<1>13. AnswersKept(r)' BY <1>0, <1>1, <1>8, <1>9 DEF AnswersKept, Archived, Searching
<1>14. mine[r] \cap claims = {} /\ \A q \in Request \ {r} : mine[r] \cap mine[q] = {}
  BY DEF Inv, KeysOwned
<1> QED BY <1>1, <1>8, <1>10, <1>12, <1>13, <1>14, QuietSound

\* The SELECT for the version with the item's content.
LEMMA LookSound ==
    ASSUME Inv, NEW r \in Request, LookForVersion(r)
    PROVE  Inv'
<1> DEFINE same == {v \in View(r).versions : v.message = target[r].message /\ v.content = Item(r).content}
           old == CHOOSE v \in same : TRUE
           n == IF same = {} THEN 0 ELSE old.number
           T == [target[r] EXCEPT !.fragment = same # {} /\ old.status = "partial"]
<1>0. TypeOK /\ FrameSound(r) /\ TargetSound(r) /\ AnswersKept(r) BY DEF Inv, RequestsSound
<1>1. /\ UNCHANGED <<db, draft, lock, claims, mine, index, held, seen, answered, faults>>
      /\ match' = [match EXCEPT ![r] = n] /\ stage' = [stage EXCEPT ![r] = "store"]
      /\ target' = [target EXCEPT ![r] = T] /\ stage[r] = "version"
  BY DEF LookForVersion, Goto
<1>t. /\ T \in Target /\ T.message = target[r].message /\ T.count = target[r].count
      /\ T.status = target[r].status /\ T.message # None
  <2>1. target[r] \in Target /\ target[r].message # None
    BY <1>0, <1>1, SameFunctions DEF TargetSound
  <2>2. (same # {} /\ old.status = "partial") \in BOOLEAN OBVIOUS
  <2> HIDE DEF same, old
  <2> QED BY <2>1, <2>2 DEF Target
<1>2. n \in Nat /\ (n # 0 => \E v \in View(r).versions : /\ v.message = target[r].message
                                                         /\ v.number = n
                                                         /\ v.content = Item(r).content)
  <2>1. CASE same = {} BY <2>1
  <2>2. CASE same # {}
    <3>1. PICK v \in same : n = v.number BY <2>2
    <3>2. v \in Version BY ViewSound DEF Rows
    <3> QED BY <3>1, <3>2 DEF Version
  <2> QED BY <2>1, <2>2
<1> HIDE DEF n, T
<1>3. /\ TypeOK' /\ stage'[r] = "store" /\ match'[r] = n /\ target'[r] = T
      /\ \A q \in Request \ {r} : /\ stage'[q] = stage[q] /\ match'[q] = match[q]
                                  /\ target'[q] = target[q]
  BY <1>0, <1>1, <1>2, <1>t DEF TypeOK, Stage
<1>4. Item(r)' = Item(r) /\ View(r)' = View(r) /\ Base(r)' = Base(r) BY <1>1 DEF Item, View, Base
<1>5. FrameSound(r)' BY <1>0, <1>1, <1>3, <1>4 DEF FrameSound, Searching
<1>6. TargetSound(r)' BY <1>0, <1>1, <1>2, <1>3, <1>4, <1>t DEF TargetSound, Searching
<1>7. AnswersKept(r)' BY <1>0, <1>1, <1>3, <1>4 DEF AnswersKept, Archived, Searching
<1>8. mine[r] \cap claims = {} /\ \A q \in Request \ {r} : mine[r] \cap mine[q] = {}
  BY DEF Inv, KeysOwned
<1> QED BY <1>1, <1>3, <1>5, <1>6, <1>7, <1>8, QuietSound

-----------------------------------------------------------------------------
(* The steps that write *)

\* An item ends: what it leaves in the request's own rows, or what it takes back, is
\* what the next savepoint starts from.
LEMMA ItemEnds ==
    ASSUME Inv, NEW r \in Request, NEW M \in SUBSET Key, NEW P \in SUBSET Payload,
           stage[r] \notin {"new", "commit", "done", "failed"},
           UNCHANGED <<db, claims>>, faults' \in 0 .. MaxFaults,
           draft' \in Rows, draft'.rank < ComplianceVerified, RowsSound(draft'),
           lock' \in Request \cup {None},
           \A q \in Request \ {r} : (lock' = q <=> lock = q) /\ (lock = q => draft' = draft),
           lock' = r => /\ draft'.exists /\ Extends(db, draft')
                        /\ \A v \in draft'.versions : v.key \in claims \cup M,
           M \subseteq mine[r],
           mine' = [mine EXCEPT ![r] = M], answered' = [answered EXCEPT ![r] = P],
           \A q \in Request \ Upsert : \A i \in 1 .. Len(BatchOf[q]) :
              BatchOf[q][i].key \in M => Archived(BatchOf[q][i], IF lock' = r THEN draft' ELSE db),
           r \notin Upsert => \A p \in P : Archived(p, IF lock' = r THEN draft' ELSE db),
           NextItem(r)
    PROVE  Inv'
<1> DEFINE s == IF index[r] = Len(BatchOf[r]) THEN "commit" ELSE "load"
<1>0. TypeOK /\ FrameSound(r) /\ TargetSound(r) BY DEF Inv, RequestsSound
<1>1. /\ index' = [index EXCEPT ![r] = index[r] + 1] /\ held' = [held EXCEPT ![r] = (lock' = r)]
      /\ stage' = [stage EXCEPT ![r] = s]
      /\ seen' = [seen EXCEPT ![r] = [rank |-> 0, count |-> 0]]
      /\ target' = [target EXCEPT ![r] = NoTarget] /\ match' = [match EXCEPT ![r] = 0]
  BY DEF NextItem, Goto
<1>2. /\ NoTarget \in Target /\ [rank |-> 0, count |-> 0] \in [rank : Rank, count : Nat]
      /\ s \in Stage /\ s \in {"commit", "load"} /\ NoTarget.message = None
  BY DEF NoTarget, Target, Status, Rank, Stage
<1>3. /\ index[r] \in 1 .. Len(BatchOf[r]) /\ Len(BatchOf[r]) \in Nat
      /\ index[r] + 1 \in 1 .. Len(BatchOf[r]) + 1
      /\ s # "commit" => index[r] + 1 <= Len(BatchOf[r])
  <2>1. BatchOf[r] \in Seq(Payload) BY IngestAssumption
  <2>2. Len(BatchOf[r]) \in Nat BY <2>1
  <2> QED BY <1>0, <2>2, ItemTyped
<1>4. TypeOK'
  <2>1. index' \in [Request -> Nat \ {0}] BY <1>0, <1>1, <1>3 DEF TypeOK
  <2>2. held' \in [Request -> BOOLEAN] BY <1>0, <1>1 DEF TypeOK
  <2> QED BY <1>0, <1>1, <1>2, <2>1, <2>2 DEF TypeOK
<1>5. /\ index'[r] = index[r] + 1 /\ held'[r] = (lock' = r) /\ stage'[r] = s
      /\ target'[r] = NoTarget /\ match'[r] = 0 /\ mine'[r] = M /\ answered'[r] = P
  BY <1>0, <1>1 DEF TypeOK
<1>6. ASSUME NEW q \in Request \ {r}
      PROVE  /\ index'[q] = index[q] /\ held'[q] = held[q] /\ stage'[q] = stage[q]
             /\ mine'[q] = mine[q] /\ target'[q] = target[q] /\ match'[q] = match[q]
             /\ answered'[q] = answered[q]
  BY <1>0, <1>1 DEF TypeOK
<1>7. ASSUME NEW q \in Request \ {r} PROVE FrameSound(q)' /\ TargetSound(q)' /\ AnswersKept(q)'
  <2>1. db \in Rows BY <1>0 DEF TypeOK
  <2>2. Extends(db, db') BY <2>1, ExtendsSelf
  <2>3. \A v \in db'.versions : v.key \notin mine[q] BY CommittedKeys
  <2> QED BY <1>6, <2>1, <2>2, <2>3, OthersKept
<1> HIDE DEF s
<1>8. FrameSound(r)'
  <2>1. \A k \in M : \E i \in 1 .. Len(BatchOf[r]) : k = BatchOf[r][i].key BY <1>0 DEF FrameSound
  <2> QED BY <1>2, <1>3, <1>5, <2>1 DEF FrameSound, Searching
<1>9. TargetSound(r)' BY <1>2, <1>5 DEF TargetSound, Searching
<1>10. AnswersKept(r)'
  <2>1. Base(r)' = IF lock' = r THEN draft' ELSE db BY <1>5 DEF Base
  <2> QED BY <1>5, <2>1 DEF AnswersKept, Archived
<1>11. RequestsSound' BY <1>7, <1>8, <1>9, <1>10 DEF RequestsSound
<1>12. RowsKept'
  <2>1. RowsSound(db)' BY DEF Inv, RowsKept, RowsSound
  <2>2. RowsSound(draft)' BY DEF RowsSound
  <2>3. lock' # None => draft'.exists /\ Extends(db', draft')
    <3>1. CASE lock' = r BY <3>1
    <3>2. CASE lock' # r /\ lock' # None
      <4>1. lock' = lock /\ draft' = draft BY <3>2
      <4> QED BY <3>2, <4>1 DEF Inv, RowsKept
    <3> QED BY <3>1, <3>2
  <2>4. ASSUME NEW q \in Request, lock' = q PROVE \A v \in draft'.versions : v.key \in claims' \cup mine'[q]
    <3>1. CASE q = r BY <1>5, <2>4, <3>1
    <3>2. CASE q # r
      <4>1. lock = q /\ draft' = draft /\ mine'[q] = mine[q] BY <1>6, <2>4, <3>2
      <4> QED BY <4>1 DEF Inv, RowsKept
    <3> QED BY <3>1, <3>2
  <2>5. \A v \in db'.versions : v.key \in claims' BY DEF Inv, RowsKept
  <2> QED BY <2>1, <2>2, <2>3, <2>4, <2>5 DEF RowsKept, Extends, Persists
<1>13. KeysOwned'
  <2>1. \A q \in Request : mine'[q] \subseteq mine[q] BY <1>5, <1>6
  <2> QED BY <2>1 DEF Inv, KeysOwned
<1>14. ClaimsStand' BY DEF Inv, ClaimsStand, Archived
<1> QED BY <1>4, <1>11, <1>12, <1>13, <1>14 DEF Inv

\* A request ends: what it has claimed is committed with what it has written, or neither.
LEMMA EndSound ==
    ASSUME Inv, NEW r \in Request, NEW s \in {"done", "failed"}, End(r, s), faults' \in 0 .. MaxFaults,
           db' \in Rows, db'.rank < ComplianceVerified, RowsSound(db'), Extends(db, db'),
           claims \subseteq claims', claims' \subseteq claims \cup mine[r],
           \A v \in db'.versions : v.key \in claims',
           lock # r => db' = db,
           ClaimsStand', answered' \in [Request -> SUBSET Payload],
           \A q \in Request \ {r} : answered'[q] = answered[q],
           r \notin Upsert => \A p \in answered'[r] : Archived(p, db')
    PROVE  Inv'
<1>0. TypeOK /\ FrameSound(r) /\ None \notin Request
  BY IngestAssumption DEF Inv, RequestsSound
<1>1. /\ lock' = (IF lock = r THEN None ELSE lock) /\ draft' = (IF lock = r THEN NoRows ELSE draft)
      /\ mine' = [mine EXCEPT ![r] = {}] /\ index' = [index EXCEPT ![r] = 1]
      /\ held' = [held EXCEPT ![r] = FALSE] /\ stage' = [stage EXCEPT ![r] = s]
      /\ seen' = [seen EXCEPT ![r] = [rank |-> 0, count |-> 0]]
      /\ target' = [target EXCEPT ![r] = NoTarget] /\ match' = [match EXCEPT ![r] = 0]
  BY DEF End, Goto
<1>2. /\ NoTarget \in Target /\ [rank |-> 0, count |-> 0] \in [rank : Rank, count : Nat]
      /\ s \in Stage /\ NoTarget.message = None
  BY DEF NoTarget, Target, Status, Rank, Stage
<1>3. draft' \in Rows /\ draft'.rank < ComplianceVerified /\ RowsSound(draft')
  BY <1>0, <1>1, NoRowsSound DEF TypeOK, Inv, RowsKept
<1>4. TypeOK'
  <2>1. claims' \subseteq Key BY <1>0 DEF TypeOK
  <2>2. index' \in [Request -> Nat \ {0}] BY <1>0, <1>1 DEF TypeOK
  <2>3. mine' \in [Request -> SUBSET Key] BY <1>0, <1>1 DEF TypeOK
  <2> QED BY <1>0, <1>1, <1>2, <1>3, <2>1, <2>2, <2>3 DEF TypeOK
<1>5. /\ index'[r] = 1 /\ held'[r] = FALSE /\ stage'[r] = s /\ target'[r] = NoTarget
      /\ match'[r] = 0 /\ mine'[r] = {} /\ lock' # r
  BY <1>0, <1>1 DEF TypeOK
<1>6. ASSUME NEW q \in Request \ {r}
      PROVE  /\ index'[q] = index[q] /\ held'[q] = held[q] /\ stage'[q] = stage[q]
             /\ mine'[q] = mine[q] /\ target'[q] = target[q] /\ match'[q] = match[q]
             /\ (lock' = q <=> lock = q) /\ (lock = q => draft' = draft /\ db' = db)
  BY <1>0, <1>1 DEF TypeOK
<1>7. ASSUME NEW q \in Request \ {r} PROVE FrameSound(q)' /\ TargetSound(q)' /\ AnswersKept(q)'
  <2>1. \A v \in db'.versions : v.key \notin mine[q] BY DEF Inv, KeysOwned
  <2> QED BY <1>6, <2>1, OthersKept
<1>8. FrameSound(r)'
  <2>1. BatchOf[r] \in Seq(Payload) /\ BatchOf[r] # << >> BY IngestAssumption
  <2>2. Len(BatchOf[r]) \in Nat /\ Len(BatchOf[r]) >= 1 BY <2>1
  <2> QED BY <1>5, <2>2 DEF FrameSound, Searching
<1>9. TargetSound(r)' BY <1>2, <1>5 DEF TargetSound, Searching
<1>10. AnswersKept(r)'
  <2>1. Base(r)' = db' BY <1>5 DEF Base
  <2> QED BY <1>5, <2>1 DEF AnswersKept, Archived
<1>11. RequestsSound' BY <1>7, <1>8, <1>9, <1>10 DEF RequestsSound
<1>12. RowsKept'
  <2>1. lock' # None => /\ lock' = lock /\ draft' = draft /\ db' = db /\ lock # r BY <1>1
  <2>2. lock' # None => draft'.exists /\ Extends(db', draft') BY <2>1 DEF Inv, RowsKept
  <2>3. ASSUME NEW q \in Request, lock' = q PROVE \A v \in draft'.versions : v.key \in claims' \cup mine'[q]
    <3>1. q # r /\ lock = q /\ draft' = draft BY <1>0, <1>5, <2>1, <2>3
    <3>2. mine'[q] = mine[q] BY <1>6, <3>1
    <3> QED BY <3>1, <3>2 DEF Inv, RowsKept
  <2> QED BY <1>3, <2>2, <2>3 DEF RowsKept, Extends, Persists, RowsSound
<1>13. KeysOwned' BY <1>5, <1>6 DEF Inv, KeysOwned
<1> QED BY <1>4, <1>11, <1>12, <1>13 DEF Inv

\* The transaction is rolled back.
LEMMA AbortSound ==
    ASSUME Inv, NEW r \in Request, Abort(r), faults' \in 0 .. MaxFaults
    PROVE  Inv'
<1>1. /\ End(r, "failed") /\ answered' = [answered EXCEPT ![r] = {}] /\ UNCHANGED <<db, claims>>
  BY DEF Abort
<1>2. /\ answered' \in [Request -> SUBSET Payload] /\ answered'[r] = {}
      /\ \A q \in Request \ {r} : answered'[q] = answered[q]
  BY <1>1 DEF Inv, TypeOK
<1>3. /\ db' \in Rows /\ db'.rank < ComplianceVerified /\ RowsSound(db') /\ Extends(db, db')
      /\ \A v \in db'.versions : v.key \in claims'
  BY <1>1, ExtendsSelf DEF Inv, TypeOK, RowsKept
<1>4. ClaimsStand' BY <1>1 DEF Inv, ClaimsStand, Archived
<1>5. "failed" \in {"done", "failed"} OBVIOUS
<1> QED BY <1>1, <1>2, <1>3, <1>4, <1>5, EndSound

\* The transaction is committed.
LEMMA CommitSound ==
    ASSUME Inv, NEW r \in Request, Commit(r)
    PROVE  Inv'
<1>1. /\ stage[r] = "commit" /\ db' = View(r) /\ claims' = claims \cup mine[r]
      /\ End(r, "done") /\ UNCHANGED <<answered, faults>>
  BY DEF Commit
<1>2. AnswersKept(r) /\ TypeOK BY DEF Inv, RequestsSound
<1>3. /\ View(r) \in Rows /\ Base(r) \in Rows /\ RowsSound(View(r))
      /\ View(r).rank < ComplianceVerified
      /\ Extends(db, View(r)) /\ Extends(Base(r), View(r))
      /\ \A v \in View(r).versions : v.key \in claims \cup mine[r]
  BY ViewSound
<1>4. ClaimsStand'
  <2>1. ASSUME NEW q \in Request \ Upsert, NEW i \in 1 .. Len(BatchOf[q]), BatchOf[q][i].key \in claims'
        PROVE  Archived(BatchOf[q][i], db')
    <3>1. CASE BatchOf[q][i].key \in claims
      <4>1. Archived(BatchOf[q][i], db) BY <3>1 DEF Inv, ClaimsStand
      <4> QED BY <1>1, <1>3, <4>1, ArchivedKept
    <3>2. CASE BatchOf[q][i].key \in mine[r]
      <4>1. Archived(BatchOf[q][i], Base(r)) BY <1>1, <1>2, <3>2 DEF AnswersKept, Searching
      <4> QED BY <1>1, <1>3, <4>1, ArchivedKept
    <3> QED BY <1>1, <2>1, <3>1, <3>2
  <2> QED BY <2>1 DEF ClaimsStand, Archived
<1>5. r \notin Upsert => \A p \in answered'[r] : Archived(p, db')
  <2>1. r \notin Upsert => \A p \in answered[r] : Archived(p, Base(r)) BY <1>2 DEF AnswersKept
  <2> QED BY <1>1, <1>3, <2>1, ArchivedKept
<1>6. lock # r => db' = db BY <1>1 DEF View
<1>7. answered' \in [Request -> SUBSET Payload] /\ faults' \in 0 .. MaxFaults BY <1>1, <1>2 DEF TypeOK
<1>8. "done" \in {"done", "failed"} OBVIOUS
<1> QED BY <1>1, <1>3, <1>4, <1>5, <1>6, <1>7, <1>8, EndSound

\* The client sends the request once more.
LEMMA ResendSound ==
    ASSUME Inv, NEW r \in Request, Resend(r)
    PROVE  Inv'
<1>0. TypeOK /\ FrameSound(r) /\ TargetSound(r) /\ AnswersKept(r) BY DEF Inv, RequestsSound
<1>1. /\ stage[r] \in {"done", "failed"} /\ stage' = [stage EXCEPT ![r] = "new"]
      /\ answered' = [answered EXCEPT ![r] = {}]
      /\ UNCHANGED <<db, draft, lock, claims, mine, index, held, seen, target, match, faults>>
  BY DEF Resend, Goto, itemVars
<1>2. /\ TypeOK' /\ stage'[r] = "new" /\ answered'[r] = {}
      /\ \A q \in Request \ {r} : stage'[q] = stage[q] /\ answered'[q] = answered[q]
  BY <1>0, <1>1 DEF TypeOK, Stage
<1>3. Item(r)' = Item(r) /\ View(r)' = View(r) /\ Base(r)' = Base(r) BY <1>1 DEF Item, View, Base
<1>4. FrameSound(r)' BY <1>0, <1>1, <1>2, <1>3 DEF FrameSound, Searching
<1>5. TargetSound(r)' BY <1>0, <1>1, <1>2, <1>3 DEF TargetSound, Searching, NoTarget
<1>6. AnswersKept(r)' BY <1>0, <1>1, <1>2 DEF AnswersKept, FrameSound
<1>7. ASSUME NEW q \in Request \ {r} PROVE FrameSound(q)' /\ TargetSound(q)' /\ AnswersKept(q)'
  <2>1. Extends(db, db') /\ db' \in Rows BY <1>0, <1>1, ExtendsSelf DEF TypeOK
  <2>2. \A v \in db'.versions : v.key \notin mine[q] BY <1>1, CommittedKeys
  <2> QED BY <1>1, <1>2, <2>1, <2>2, OthersKept
<1>8. RequestsSound' BY <1>4, <1>5, <1>6, <1>7 DEF RequestsSound
<1>9. RowsKept' /\ KeysOwned' /\ ClaimsStand'
  BY <1>1 DEF Inv, RowsKept, KeysOwned, ClaimsStand, Archived, RowsSound, Extends, Persists
<1> QED BY <1>2, <1>8, <1>9 DEF Inv

\* The row is inserted; or another request's insert has won, and this one fails.
LEMMA CreateSound ==
    ASSUME Inv, NEW r \in Request, CreateConversation(r)
    PROVE  Inv'
<1>0. TypeOK /\ FrameSound(r) /\ TargetSound(r) /\ AnswersKept(r) /\ None \notin Request
  BY IngestAssumption DEF Inv, RequestsSound
<1>1. stage[r] = "create" /\ lock = None /\ faults' = faults
  BY <1>0 DEF CreateConversation, LockFree, FrameSound
<1>2. CASE db.exists
  <2>1. Abort(r) BY <1>2 DEF CreateConversation
  <2> QED BY <1>0, <1>1, <2>1, AbortSound DEF TypeOK
<1>3. CASE ~db.exists
  <2> DEFINE k == MergeCompleteness(0, Item(r).rank)
             s == IF r \in Upsert THEN "touch" ELSE "claim"
             c == [rank |-> k, count |-> 0]
             D == [db EXCEPT !.exists = TRUE, !.rank = k]
  <2>1. /\ lock' = r /\ draft' = D /\ seen' = [seen EXCEPT ![r] = c]
        /\ stage' = [stage EXCEPT ![r] = s]
        /\ UNCHANGED <<db, claims, mine, index, held, target, match, answered>>
    BY <1>3 DEF CreateConversation, Goto
  <2>2. k \in Rank /\ k < ComplianceVerified
    <3>1. Item(r).rank \in Rank BY <1>0, <1>1, ItemTyped
    <3> QED BY <3>1 DEF MergeCompleteness, Rank, ComplianceVerified
  <2>3. c \in [rank : Rank, count : Nat] /\ s \in Stage /\ s \in {"touch", "claim"}
        /\ (s = "touch" <=> r \in Upsert)
    BY <2>2 DEF Stage
  <2> HIDE DEF k, c, s
  <2>4. /\ D \in Rows /\ D.rank = k /\ D.exists /\ D.messages = db.messages
        /\ D.versions = db.versions /\ D.versionCount = db.versionCount
        /\ D.current = db.current /\ D.status = db.status
    BY <1>0, <2>2 DEF TypeOK, Rows
  <2> HIDE DEF D
  <2>5. RowsSound(D)
    <3>1. \A m : (Doubtful(D, m) <=> Doubtful(db, m)) /\ (Finished(D, m) <=> Finished(db, m))
      BY <2>4 DEF Doubtful, Finished
    <3> QED BY <2>4, <3>1 DEF Inv, RowsKept, RowsSound
  <2>6. Extends(db, D)
    <3>1. Extends(db, db) BY <1>0, ExtendsSelf DEF TypeOK
    <3>2. \A m : Finished(D, m) => Finished(db, m) BY <2>4 DEF Finished
    <3>3. \A m \in db.messages : db.versionCount[m] <= db.versionCount[m] BY <3>1 DEF Extends
    <3>4. \A v \in db.versions : Persists(v, D) BY <2>4 DEF Persists
    <3> QED BY <2>4, <3>2, <3>3, <3>4 DEF Extends
  <2>7. /\ TypeOK' /\ stage'[r] = s /\ \A q \in Request \ {r} : stage'[q] = stage[q]
    BY <1>0, <1>1, <2>1, <2>2, <2>3, <2>4 DEF TypeOK
  <2>8. ~held[r] /\ View(r) = db /\ Item(r)' = Item(r) /\ View(r)' = D /\ Base(r)' = Base(r)
    BY <1>0, <1>1, <2>1 DEF FrameSound, View, Item, Base
  <2>9. FrameSound(r)' BY <1>0, <1>1, <2>1, <2>3, <2>4, <2>7, <2>8 DEF FrameSound, Searching
  <2>10. TargetSound(r)' BY <1>0, <1>1, <2>1, <2>3, <2>7, <2>8 DEF TargetSound, Searching, NoTarget
  <2>11. AnswersKept(r)' BY <1>0, <1>1, <2>1, <2>3, <2>7, <2>8 DEF AnswersKept, Archived, Searching
  <2>12. ASSUME NEW q \in Request \ {r} PROVE FrameSound(q)' /\ TargetSound(q)' /\ AnswersKept(q)'
    <3>1. Extends(db, db') /\ db' \in Rows BY <1>0, <2>1, ExtendsSelf DEF TypeOK
    <3>2. \A v \in db'.versions : v.key \notin mine[q] BY <2>1, CommittedKeys
    <3>3. lock' # q /\ lock # q BY <1>0, <1>1, <2>1
    <3> QED BY <2>1, <2>7, <3>1, <3>2, <3>3, OthersKept
  <2>13. RequestsSound' BY <2>9, <2>10, <2>11, <2>12 DEF RequestsSound
  <2>14. RowsKept'
    <3>1. \A v \in D.versions : v.key \in claims BY <2>4 DEF Inv, RowsKept
    <3>2. RowsSound(db') /\ RowsSound(draft') /\ draft'.exists /\ Extends(db', draft')
      BY <2>1, <2>4, <2>5, <2>6 DEF Inv, RowsKept
    <3>3. \A v \in db'.versions : v.key \in claims' BY <2>1 DEF Inv, RowsKept
    <3> QED BY <2>1, <3>1, <3>2, <3>3 DEF RowsKept, RowsSound, Extends, Persists
  <2>15. KeysOwned' /\ ClaimsStand' BY <2>1 DEF Inv, KeysOwned, ClaimsStand, Archived
  <2> QED BY <2>7, <2>13, <2>14, <2>15 DEF Inv
<1> QED BY <1>2, <1>3

\* A claimed key that is not under way is archived in what the request sees.
LEMMA ClaimedArchived ==
    ASSUME Inv, NEW r \in Request, NEW q \in Request \ Upsert, NEW i \in 1 .. Len(BatchOf[q]),
           BatchOf[q][i].key \in claims \cup mine[r],
           stage[r] \in Searching => BatchOf[q][i].key # Item(r).key
    PROVE  Archived(BatchOf[q][i], View(r))
<1>1. Extends(db, View(r)) /\ Extends(Base(r), View(r)) BY ViewSound
<1>2. CASE BatchOf[q][i].key \in claims
  <2>1. Archived(BatchOf[q][i], db) BY <1>2 DEF Inv, ClaimsStand
  <2> QED BY <1>1, <2>1, ArchivedKept
<1>3. CASE BatchOf[q][i].key \in mine[r]
  <2>1. Archived(BatchOf[q][i], Base(r)) BY <1>3 DEF Inv, RequestsSound, AnswersKept
  <2> QED BY <1>1, <2>1, ArchivedKept
<1> QED BY <1>2, <1>3

\* The flush of an item: the rows it leaves extend what the request saw and hold the item.
LEMMA FlushSound ==
    ASSUME Inv, NEW r \in Request, NEW W \in Rows, stage[r] \in Searching \cup {"touch"}, LockFree(r),
           RowsSound(W), W.rank < ComplianceVerified, Extends(View(r), W),
           \A v \in W.versions : v.key \in claims \cup mine[r],
           r \notin Upsert => Archived(Item(r), W),
           lock' = r, draft' = W, Answer(r), NextItem(r), UNCHANGED <<db, claims, mine, faults>>
    PROVE  Inv'
<1> DEFINE P == answered[r] \cup {Item(r)}
<1>0. TypeOK /\ FrameSound(r) /\ AnswersKept(r) /\ None \notin Request
  BY IngestAssumption DEF Inv, RequestsSound
<1>1. /\ mine' = [mine EXCEPT ![r] = mine[r]] /\ answered' = [answered EXCEPT ![r] = P]
      /\ mine[r] \in SUBSET Key
  BY <1>0, SameFunctions DEF Answer
<1>2. P \in SUBSET Payload BY <1>0, ItemTyped DEF TypeOK, Searching
<1>3. /\ View(r) \in Rows /\ Base(r) \in Rows /\ Extends(db, View(r)) /\ Extends(Base(r), View(r))
      /\ db \in Rows
  BY <1>0, ViewSound DEF TypeOK
<1>4. Extends(db, W) /\ Extends(Base(r), W) BY <1>3, ExtendsTwice
<1>5. W.exists
  <2>1. View(r).exists BY <1>0 DEF FrameSound
  <2> QED BY <2>1 DEF Extends
<1>6. ASSUME NEW q \in Request \ Upsert, NEW i \in 1 .. Len(BatchOf[q]), BatchOf[q][i].key \in mine[r]
      PROVE  Archived(BatchOf[q][i], W)
  <2>1. CASE Archived(BatchOf[q][i], Base(r)) BY <1>4, <2>1, ArchivedKept
  <2>2. CASE stage[r] \in Searching /\ BatchOf[q][i].key = Item(r).key
    <3>1. index[r] \in 1 .. Len(BatchOf[r]) BY <1>0, <2>2, ItemTyped DEF Searching
    <3>2. r \notin Upsert /\ BatchOf[q][i].content = Item(r).content
      BY <2>2, <3>1, KeyAssumption DEF Item
    <3> QED BY <3>2 DEF Archived
  <2> QED BY <1>0, <1>6, <2>1, <2>2 DEF AnswersKept
<1>7. r \notin Upsert => \A p \in P : Archived(p, W)
  <2>1. r \notin Upsert => \A p \in answered[r] : Archived(p, W)
    BY <1>0, <1>4, ArchivedKept DEF AnswersKept
  <2> QED BY <2>1
<1>8. \A q \in Request \ {r} : (lock' = q <=> lock = q) /\ (lock = q => draft' = draft)
  BY <1>0 DEF LockFree
<1>9. stage[r] \notin {"new", "commit", "done", "failed"} BY DEF Searching
<1>10. faults' \in 0 .. MaxFaults BY <1>0 DEF TypeOK
<1> HIDE DEF P
<1> QED BY <1>1, <1>2, <1>4, <1>5, <1>6, <1>7, <1>8, <1>9, <1>10, ItemEnds

\* A replay, or an upsert.
LEMMA TouchSound ==
    ASSUME Inv, NEW r \in Request, TouchConversation(r)
    PROVE  Inv'
<1> DEFINE W == Touched(r, View(r))
<1>0. TypeOK /\ FrameSound(r) BY DEF Inv, RequestsSound
<1>1. /\ stage[r] = "touch" /\ LockFree(r) /\ lock' = r /\ draft' = W /\ Answer(r) /\ NextItem(r)
      /\ UNCHANGED <<db, claims, mine, faults>>
  BY DEF TouchConversation
<1>2. Item(r).rank \in Rank /\ seen[r].rank \in Rank /\ index[r] \in 1 .. Len(BatchOf[r])
  BY <1>0, <1>1, ItemTyped DEF TypeOK
<1>3. W \in Rows /\ SameArchive(View(r), W) /\ W.rank < ComplianceVerified
  BY <1>2, TouchedRows, ViewSound
<1> HIDE DEF W
<1>4. RowsSound(W) /\ Extends(View(r), W) BY <1>3, SameSound, ViewSound, ExtendsSelf
<1>5. \A v \in W.versions : v.key \in claims \cup mine[r] BY <1>3, ViewSound DEF SameArchive
<1>6. r \notin Upsert => Archived(Item(r), W)
  <2>1. SUFFICES ASSUME r \notin Upsert PROVE Archived(Item(r), W) OBVIOUS
  <2>2. Item(r).key \in claims \cup mine[r] BY <1>0, <1>1, <2>1 DEF FrameSound
  <2>3. Archived(Item(r), View(r))
    BY <1>1, <1>2, <2>1, <2>2, ClaimedArchived DEF Item, Searching
  <2> QED BY <1>3, <2>3, SameSound
<1> QED BY <1>1, <1>3, <1>4, <1>5, <1>6, FlushSound

\* The item is stored.
LEMMA StoreSound ==
    ASSUME Inv, NEW r \in Request, StoreItem(r)
    PROVE  Inv'
<1>0. TypeOK /\ FrameSound(r) /\ TargetSound(r) BY DEF Inv, RequestsSound
<1>1. /\ stage[r] = "store" /\ LockFree(r) /\ ~Conflict(r) /\ lock' = r /\ draft' = Written(r)
      /\ Answer(r) /\ NextItem(r) /\ UNCHANGED <<db, claims, mine, faults>>
  BY DEF StoreItem, Written
<1>2. /\ Written(r) \in Rows /\ RowsSound(Written(r)) /\ Extends(View(r), Written(r))
      /\ Archived(Item(r), Written(r)) /\ Written(r).rank < ComplianceVerified
      /\ \A v \in Written(r).versions : v.key = Item(r).key \/ Persists(v, View(r))
  BY <1>0, <1>1, ViewSound, WrittenSound
<1>3. Item(r).key \in mine[r] BY <1>0, <1>1 DEF TargetSound, Searching
<1>4. \A v \in Written(r).versions : v.key \in claims \cup mine[r]
  BY <1>2, <1>3, ViewSound DEF Persists
<1>5. stage[r] \in Searching \cup {"touch"} BY <1>1 DEF Searching
<1> QED BY <1>1, <1>2, <1>4, <1>5, FlushSound

\* The item is not intact: nothing is written.
LEMMA RejectSound ==
    ASSUME Inv, NEW r \in Request, RejectItem(r)
    PROVE  Inv'
<1>0. TypeOK /\ FrameSound(r) /\ AnswersKept(r) /\ None \notin Request
  BY IngestAssumption DEF Inv, RequestsSound
<1>1. /\ stage[r] = "load" /\ NextItem(r)
      /\ UNCHANGED <<db, draft, lock, claims, mine, answered, faults>>
  BY DEF RejectItem
<1>2. /\ mine' = [mine EXCEPT ![r] = mine[r]] /\ answered' = [answered EXCEPT ![r] = answered[r]]
      /\ mine[r] \in SUBSET Key /\ answered[r] \in SUBSET Payload
  BY <1>0, <1>1 DEF TypeOK
<1>3. /\ draft' \in Rows /\ draft'.rank < ComplianceVerified /\ RowsSound(draft')
      /\ lock' \in Request \cup {None} /\ faults' \in 0 .. MaxFaults
  BY <1>0, <1>1 DEF TypeOK, Inv, RowsKept
<1>4. lock' = r => /\ draft'.exists /\ Extends(db, draft')
                   /\ \A v \in draft'.versions : v.key \in claims \cup mine[r]
  BY <1>0, <1>1 DEF Inv, RowsKept
<1>5. \A p : Archived(p, Base(r)) => Archived(p, IF lock' = r THEN draft' ELSE db)
  <2>1. Extends(Base(r), View(r)) /\ View(r) = IF lock' = r THEN draft' ELSE db
    BY <1>1, ViewSound DEF View
  <2> QED BY <2>1, ArchivedKept
<1>6. \A q \in Request \ Upsert : \A i \in 1 .. Len(BatchOf[q]) :
         BatchOf[q][i].key \in mine[r] => Archived(BatchOf[q][i], IF lock' = r THEN draft' ELSE db)
  BY <1>0, <1>1, <1>5 DEF AnswersKept, Searching
<1>7. r \notin Upsert => \A p \in answered[r] : Archived(p, IF lock' = r THEN draft' ELSE db)
  BY <1>0, <1>5 DEF AnswersKept
<1> QED BY <1>1, <1>2, <1>3, <1>4, <1>6, <1>7, ItemEnds

\* The item's savepoint is rolled back, with its claim and, if the item took it, the lock.
LEMMA RollBackSound ==
    ASSUME Inv, NEW r \in Request, RollBackItem(r), faults' \in 0 .. MaxFaults,
           stage[r] \notin {"new", "commit", "done", "failed"}
    PROVE  Inv'
<1>0. TypeOK /\ FrameSound(r) /\ TargetSound(r) /\ AnswersKept(r) /\ None \notin Request
  BY IngestAssumption DEF Inv, RequestsSound
<1>1. CASE r \in Upsert BY <1>1, AbortSound DEF RollBackItem
<1>2. CASE r \notin Upsert
  <2> DEFINE M == KeysAfterRollback(r)
             B == IF lock' = r THEN draft' ELSE db
  <2>1. /\ mine' = [mine EXCEPT ![r] = M]
        /\ IF lock = r /\ ~held[r] THEN lock' = None /\ draft' = NoRows ELSE UNCHANGED <<lock, draft>>
        /\ NextItem(r) /\ UNCHANGED <<db, claims, answered>>
    BY <1>2 DEF RollBackItem
  <2>2. /\ M \in SUBSET Key /\ M \subseteq mine[r] /\ (stage[r] \in Searching => M = mine[r] \ {Item(r).key})
    BY <1>0, SameFunctions DEF KeysAfterRollback, Searching
  <2>3. B = Base(r) BY <1>0, <2>1 DEF Base, FrameSound
  <2>4. /\ draft' \in Rows /\ draft'.rank < ComplianceVerified /\ RowsSound(draft')
        /\ lock' \in Request \cup {None}
    BY <1>0, <2>1, NoRowsSound DEF TypeOK, Inv, RowsKept
  <2>5. \A q \in Request \ {r} : (lock' = q <=> lock = q) /\ (lock = q => draft' = draft)
    BY <1>0, <2>1
  <2> HIDE DEF M
  <2>6. ASSUME lock' = r
        PROVE  draft'.exists /\ Extends(db, draft') /\ \A v \in draft'.versions : v.key \in claims \cup M
    <3>1. lock = r /\ draft' = draft /\ View(r) = draft BY <1>0, <2>1, <2>6 DEF View
    <3>2. draft.exists /\ Extends(db, draft) BY <1>0, <3>1 DEF Inv, RowsKept
    <3>3. \A v \in draft.versions : v.key \in claims \cup mine[r] BY <3>1, ViewSound
    <3>4. stage[r] \in Searching => \A v \in draft.versions : v.key # Item(r).key
      BY <1>0, <3>1 DEF TargetSound
    <3>5. stage[r] \notin Searching => M = mine[r] BY DEF M, KeysAfterRollback, Searching
    <3> QED BY <2>2, <3>1, <3>2, <3>3, <3>4, <3>5
  <2>7. \A q \in Request \ Upsert : \A i \in 1 .. Len(BatchOf[q]) :
           BatchOf[q][i].key \in M => Archived(BatchOf[q][i], B)
    BY <1>0, <2>2, <2>3 DEF AnswersKept
  <2>8. r \notin Upsert => \A p \in answered[r] : Archived(p, B) BY <1>0, <2>3 DEF AnswersKept
  <2>9. answered' = [answered EXCEPT ![r] = answered[r]] /\ answered[r] \in SUBSET Payload
    BY <1>0, <2>1 DEF TypeOK
  <2> QED BY <2>1, <2>2, <2>4, <2>5, <2>6, <2>7, <2>8, <2>9, ItemEnds
<1> QED BY <1>1, <1>2

-----------------------------------------------------------------------------
(* The theorems *)

\* Nothing has been sent yet.
LEMMA InitSound == Init => Inv
<1> SUFFICES ASSUME Init PROVE Inv OBVIOUS
<1>0. /\ db = NoRows /\ draft = NoRows /\ lock = None /\ claims = {} /\ faults = 0
      /\ \A r \in Request : /\ mine[r] = {} /\ stage[r] = "new" /\ index[r] = 1 /\ ~held[r]
                            /\ target[r] = NoTarget /\ match[r] = 0 /\ answered[r] = {}
  BY DEF Init
<1>1. NoTarget \in Target /\ [rank |-> 0, count |-> 0] \in [rank : Rank, count : Nat]
      /\ NoTarget.message = None
  BY DEF NoTarget, Target, Status, Rank
<1>2. TypeOK BY <1>1, NoRowsSound, IngestAssumption DEF Init, TypeOK, Stage
<1>3. NoRows.versions = {} BY DEF NoRows
<1>4. RowsKept BY <1>0, <1>3, NoRowsSound, IngestAssumption DEF RowsKept
<1>5. KeysOwned /\ ClaimsStand BY <1>0 DEF KeysOwned, ClaimsStand
<1>6. ASSUME NEW r \in Request PROVE FrameSound(r) /\ TargetSound(r) /\ AnswersKept(r)
  <2>1. BatchOf[r] \in Seq(Payload) /\ BatchOf[r] # << >> /\ None \notin Request BY IngestAssumption
  <2>2. Len(BatchOf[r]) \in Nat /\ Len(BatchOf[r]) >= 1 BY <2>1
  <2>3. FrameSound(r) BY <1>0, <2>1, <2>2 DEF FrameSound, Searching
  <2>4. TargetSound(r) BY <1>0, <1>1 DEF TargetSound, Searching
  <2> QED BY <1>0, <2>3, <2>4 DEF AnswersKept
<1> QED BY <1>2, <1>4, <1>5, <1>6 DEF Inv, RequestsSound

\* Every step of every request keeps the invariant.
LEMMA StepSound == Inv /\ [Next]_vars => Inv'
<1> SUFFICES ASSUME Inv, [Next]_vars PROVE Inv' OBVIOUS
<1>1. CASE UNCHANGED vars
  <2>1. TypeOK' BY <1>1 DEF vars, Inv, TypeOK
  <2>2. RowsKept' BY <1>1 DEF vars, Inv, RowsKept, RowsSound, Extends, Persists
  <2>3. KeysOwned' /\ ClaimsStand' BY <1>1 DEF vars, Inv, KeysOwned, ClaimsStand, Archived
  <2>4. ASSUME NEW q \in Request PROVE FrameSound(q)' /\ TargetSound(q)' /\ AnswersKept(q)'
    <3>1. Extends(db, db') /\ db' \in Rows BY <1>1, ExtendsSelf DEF vars, Inv, TypeOK
    <3>2. \A v \in db'.versions : v.key \notin mine[q] BY <1>1, CommittedKeys DEF vars
    <3> QED BY <1>1, <3>1, <3>2, OthersKept DEF vars
  <2> QED BY <2>1, <2>2, <2>3, <2>4 DEF Inv, RequestsSound
<1>2. CASE Next
  <2>1. PICK r \in Request : \/ RequestStep(r) \/ Crash(r) \/ Resend(r) \/ ItemFails(r)
                             \/ \E q \in Request : Victim(r, q)
    BY <1>2 DEF Next
  <2>0. FrameSound(r) /\ faults \in 0 .. MaxFaults /\ MaxFaults \in Nat
    BY IngestAssumption DEF Inv, TypeOK, RequestsSound
  <2>2. CASE Begin(r)
    <3>1. (IF r \in Upsert THEN "claim" ELSE "load") \in Stage BY DEF Stage
    <3> QED BY <2>2, <3>1, MoveSound DEF Begin, Goto, itemVars
  <2>3. CASE FindBySource(r)
    <3>1. CASE NotFound(r, "by_print")
      BY <2>3, <3>1, MoveSound DEF FindBySource, NotFound, Goto, itemVars, Stage
    <3>2. CASE \E m \in WithSource(r) : Found(r, m)
      BY <2>3, <3>2, FoundSound DEF FindBySource, WithSource
    <3> QED BY <2>3, <3>1, <3>2 DEF FindBySource
  <2>4. CASE FindByFingerprint(r)
    <3>1. CASE NotFound(r, "by_content")
      BY <2>4, <3>1, MoveSound DEF FindByFingerprint, NotFound, Goto, itemVars, Stage
    <3>2. CASE PrintOf(Item(r)) \in View(r).messages /\ Found(r, PrintOf(Item(r)))
      BY <2>4, <3>2, FoundSound DEF FindByFingerprint
    <3> QED BY <2>4, <3>1, <3>2 DEF FindByFingerprint
  <2>5. CASE FindByContent(r)
    <3>1. CASE NotFound(r, "store")
      BY <2>5, <3>1, MoveSound DEF FindByContent, NotFound, Goto, itemVars, Stage
    <3>2. CASE \E m \in WithContent(r) : Found(r, m)
      BY <2>5, <3>2, FoundSound DEF FindByContent, WithContent
    <3> QED BY <2>5, <3>1, <3>2 DEF FindByContent
  <2>6. CASE StoreConflicts(r) BY <2>0, <2>6, RollBackSound DEF StoreConflicts
  <2>7. CASE Crash(r) BY <2>0, <2>7, AbortSound DEF Crash, Fault
  <2>8. CASE ItemFails(r) BY <2>0, <2>8, RollBackSound DEF ItemFails, Fault
  <2>9. CASE \E q \in Request : Victim(r, q)
    BY <2>0, <2>9, RollBackSound DEF Victim, Deadlocked
  <2> QED
    BY <2>1, <2>2, <2>3, <2>4, <2>5, <2>6, <2>7, <2>8, <2>9, RejectSound, LoadSound, CreateSound,
       ClaimSound, LookSound, TouchSound, StoreSound, CommitSound, ResendSound DEF RequestStep
<1> QED BY <1>1, <1>2

\* The rows, the claims and every request's knowledge of them fit together in every state.
LEMMA IngestInvariant == Spec => []Inv
<1> QED BY InitSound, StepSound, PTL DEF Spec

\* Every variable has its type; in particular no request of the browser makes a
\* conversation COMPLIANCE_VERIFIED (_merge_completeness).
THEOREM IngestTypes == Spec => []TypeOK
<1>1. Inv => TypeOK BY DEF Inv
<1> QED BY <1>1, IngestInvariant, PTL

\* Versions stay numbered 1 to version_count, although a request numbers its version
\* from a count it loaded before it had the lock: uq_message_versions_message_number
\* refuses the stale number and the savepoint takes the item back (ingest_message).
THEOREM VersionsStayNumbered == Spec => []VersionsNumbered
<1>1. Inv => VersionsNumbered BY DEF Inv, RowsKept, RowsSound, VersionsNumbered
<1> QED BY <1>1, IngestInvariant, PTL

\* However often and however concurrently batches are sent, a payload makes one
\* version at most: its key is claimed by one transaction that commits.
THEOREM PayloadsAreStoredOnce == Spec => []StoredOnce
<1>1. Inv => StoredOnce BY DEF Inv, RowsKept, RowsSound, StoredOnce
<1> QED BY <1>1, IngestInvariant, PTL

\* What the server has answered "accepted" or "duplicate" and committed is in the
\* archive, whatever savepoint, transaction or process failed on the way.
THEOREM AnswersAreStored == Spec => []AnsweredStored
<1>1. Inv => AnsweredStored
  <2>1. SUFFICES ASSUME Inv, NEW r \in Request \ Upsert, stage[r] = "done", NEW p \in answered[r]
                 PROVE  \E v \in db.versions : v.content = p.content
    BY DEF AnsweredStored
  <2>2. FrameSound(r) /\ AnswersKept(r) BY <2>1 DEF Inv, RequestsSound
  <2>3. Base(r) = db BY <2>1, <2>2 DEF Base, FrameSound
  <2> QED BY <2>1, <2>2, <2>3 DEF AnswersKept, Archived
<1> QED BY <1>1, IngestInvariant, PTL

\* The message with a complete version that is not complete itself, which
\* reconcile_partial looks for (handlers.py:268-286), does not come about, whatever
\* statuses clients send: a request that decided on a stale status also has a stale
\* count, and the unique index on the version number refuses it.
THEOREM NothingIsLeftToReconcile == Spec => []NothingToReconcile
<1>1. Inv => NothingToReconcile BY DEF Inv, RowsKept, RowsSound, NothingToReconcile, Finished
<1> QED BY <1>1, IngestInvariant, PTL

-----------------------------------------------------------------------------
(* Ingest implements Archive *)

\* A step that writes no rows and gives up no key.
LEMMA HistoryQuiet ==
    ASSUME HistoryKept, UNCHANGED <<db, draft, lock>>, \A q \in Request : mine[q] \subseteq mine'[q]
    PROVE  HistoryKept'
<1>1. NoRepeats(db)' /\ NoRepeats(draft)' BY DEF HistoryKept, NoRepeats
<1>2. ASSUME NEW q \in Request, lock' = q, NEW v \in draft'.versions
      PROVE  v.key \in mine'[q] \/ Persists(v, db')
  BY <1>2 DEF HistoryKept
<1> QED BY <1>1, <1>2 DEF HistoryKept, Persists

\* A flush: what it adds to the rows the request sees has a key of the request.
LEMMA HistoryFlush ==
    ASSUME HistoryKept, NEW r \in Request, NEW W, lock' = r, draft' = W, db' = db, mine' = mine,
           NoRepeats(W), \A v \in W.versions : v.key \in mine[r] \/ Persists(v, View(r))
    PROVE  HistoryKept'
<1>1. NoRepeats(db)' /\ NoRepeats(draft)' BY DEF HistoryKept, NoRepeats
<1>2. ASSUME NEW v \in W.versions PROVE v.key \in mine[r] \/ Persists(v, db)
  <2>1. CASE Persists(v, View(r)) /\ lock = r
    <3>1. PICK w \in draft.versions : /\ w.message = v.message /\ w.number = v.number
                                      /\ w.content = v.content /\ w.key = v.key
      BY <2>1 DEF Persists, View
    <3>2. w.key \in mine[r] \/ Persists(w, db) BY <2>1, <3>1 DEF HistoryKept
    <3> QED BY <3>1, <3>2 DEF Persists
  <2>2. CASE Persists(v, View(r)) /\ lock # r BY <2>2 DEF View
  <2> QED BY <1>2, <2>1, <2>2
<1> QED BY <1>1, <1>2 DEF HistoryKept, Persists

\* The transaction or its savepoint is gone, with its rows or without.
LEMMA HistoryReleased ==
    ASSUME HistoryKept, lock' = None, draft' = NoRows, NoRepeats(db')
    PROVE  HistoryKept'
<1>1. NoRows.versions = {} /\ None \notin Request BY IngestAssumption DEF NoRows
<1>2. NoRepeats(db)' /\ NoRepeats(draft)' BY <1>1 DEF NoRepeats
<1> QED BY <1>1, <1>2 DEF HistoryKept

\* The end of a transaction.
LEMMA HistoryEnd ==
    ASSUME Inv, HistoryKept, NEW r \in Request, NEW s, End(r, s), db' \in {db, View(r)}
    PROVE  HistoryKept'
<1>1. CASE lock = r
  BY <1>1, HistoryReleased DEF End, View, HistoryKept
<1>2. CASE lock # r
  <2>1. UNCHANGED <<db, draft, lock>> BY <1>2 DEF End, View
  <2>2. \A q \in Request \ {r} : mine'[q] = mine[q] BY DEF Inv, TypeOK, End
  <2>3. NoRepeats(db)' /\ NoRepeats(draft)' BY <2>1 DEF HistoryKept, NoRepeats
  <2>4. ASSUME NEW q \in Request, lock = q, NEW v \in draft.versions
        PROVE  v.key \in mine'[q] \/ Persists(v, db)
    BY <1>2, <2>2, <2>4 DEF HistoryKept
  <2> QED BY <2>1, <2>3, <2>4 DEF HistoryKept, Persists
<1> QED BY <1>1, <1>2

\* A rolled back item: the key it gives up is in no version.
LEMMA HistoryRollBack ==
    ASSUME Inv, HistoryKept, NEW r \in Request, RollBackItem(r)
    PROVE  HistoryKept'
<1>1. CASE r \in Upsert BY <1>1, HistoryEnd DEF RollBackItem, Abort
<1>2. CASE r \notin Upsert /\ lock = r /\ ~held[r]
  <2>1. lock' = None /\ draft' = NoRows /\ db' = db BY <1>2 DEF RollBackItem
  <2> QED BY <2>1, HistoryReleased DEF HistoryKept
<1>3. CASE r \notin Upsert /\ ~(lock = r /\ ~held[r])
  <2>1. /\ UNCHANGED <<db, draft, lock>> /\ mine' = [mine EXCEPT ![r] = KeysAfterRollback(r)]
    BY <1>3 DEF RollBackItem
  <2>2. mine'[r] = KeysAfterRollback(r) /\ \A q \in Request \ {r} : mine'[q] = mine[q]
    BY <2>1 DEF Inv, TypeOK
  <2>3. NoRepeats(db)' /\ NoRepeats(draft)' BY <2>1 DEF HistoryKept, NoRepeats
  <2>4. ASSUME NEW q \in Request, lock = q, NEW v \in draft.versions
        PROVE  v.key \in mine'[q] \/ Persists(v, db)
    <3>1. v.key \in mine[q] \/ Persists(v, db) BY <2>4 DEF HistoryKept
    <3>2. CASE q = r /\ stage[r] \in Searching
      <4>1. v.key # Item(r).key BY <2>4, <3>2 DEF Inv, RequestsSound, TargetSound, View
      <4> QED BY <2>2, <3>1, <3>2, <4>1 DEF KeysAfterRollback
    <3>3. CASE q = r /\ stage[r] \notin Searching
      BY <2>2, <3>1, <3>3 DEF KeysAfterRollback, Searching
    <3> QED BY <2>2, <3>1, <3>2, <3>3
  <2> QED BY <2>1, <2>3, <2>4 DEF HistoryKept, Persists
<1> QED BY <1>1, <1>2, <1>3

\* Every step keeps what the mapping rests on.
LEMMA HistoryStep == Inv /\ HistoryKept /\ [Next]_vars => HistoryKept'
<1> SUFFICES ASSUME Inv, HistoryKept, [Next]_vars PROVE HistoryKept' OBVIOUS
<1>1. CASE UNCHANGED vars BY <1>1, HistoryQuiet DEF vars
<1>2. ASSUME NEW r \in Request, RequestStep(r) \/ Crash(r) \/ Resend(r) \/ ItemFails(r)
                                \/ \E q \in Request : Victim(r, q)
      PROVE  HistoryKept'
  <2>0. TypeOK /\ FrameSound(r) /\ TargetSound(r) BY DEF Inv, RequestsSound
  <2>1. CASE Begin(r) \/ RejectItem(r) \/ LoadConversation(r) \/ LookForVersion(r) \/ Resend(r)
    BY <2>1, HistoryQuiet DEF Begin, RejectItem, LoadConversation, LookForVersion, Resend
  <2>2. CASE FindBySource(r) \/ FindByFingerprint(r) \/ FindByContent(r)
    <3>1. UNCHANGED <<db, draft, lock, mine>>
      BY <2>2 DEF FindBySource, FindByFingerprint, FindByContent, Found, NotFound
    <3> QED BY <3>1, HistoryQuiet
  <2>3. CASE ClaimKey(r)
    <3>1. /\ UNCHANGED <<db, draft, lock>>
          /\ mine' = [mine EXCEPT ![r] = mine[r] \cup ({Item(r).key} \ claims)]
      BY <2>3 DEF ClaimKey
    <3>2. mine \in [Request -> SUBSET Key] BY <2>0 DEF TypeOK
    <3>3. \A q \in Request : mine[q] \subseteq mine'[q] BY <3>1, <3>2
    <3> QED BY <3>1, <3>3, HistoryQuiet
  <2>4. CASE CreateConversation(r)
    <3>1. CASE db.exists BY <2>4, <3>1, HistoryEnd DEF CreateConversation, Abort
    <3>2. CASE ~db.exists
      <4>1. lock' = r /\ draft'.versions = db.versions /\ db' = db /\ mine' = mine
        <5>1. db \in Rows BY <2>0 DEF TypeOK
        <5>2. /\ lock' = r /\ db' = db /\ mine' = mine
              /\ draft' = [db EXCEPT !.exists = TRUE, !.rank = MergeCompleteness(0, Item(r).rank)]
          BY <2>4, <3>2 DEF CreateConversation
        <5> QED BY <5>1, <5>2 DEF Rows
      <4>2. NoRepeats(draft') BY <4>1 DEF HistoryKept, NoRepeats
      <4>3. View(r).versions = db.versions
        <5>1. lock # r BY <2>0, <2>4 DEF CreateConversation, FrameSound
        <5> QED BY <5>1 DEF View
      <4>4. \A v \in draft'.versions : Persists(v, View(r)) BY <4>1, <4>3 DEF Persists
      <4> QED BY <4>1, <4>2, <4>4, HistoryFlush
    <3> QED BY <3>1, <3>2
  <2>5. CASE TouchConversation(r)
    <3> DEFINE W == Touched(r, View(r))
    <3>1. lock' = r /\ draft' = W /\ db' = db /\ mine' = mine /\ stage[r] = "touch"
      BY <2>5 DEF TouchConversation
    <3>2. Item(r).rank \in Rank /\ seen[r].rank \in Rank BY <2>0, <3>1, ItemTyped DEF TypeOK
    <3>3. W.versions = View(r).versions BY <3>2, TouchedRows, ViewSound DEF SameArchive
    <3> HIDE DEF W
    <3>4. NoRepeats(W) BY <3>3 DEF HistoryKept, NoRepeats, View
    <3>5. \A v \in W.versions : Persists(v, View(r)) BY <3>3 DEF Persists
    <3> QED BY <3>1, <3>4, <3>5, HistoryFlush
  <2>6. CASE StoreItem(r)
    <3>1. /\ stage[r] = "store" /\ ~Conflict(r) /\ lock' = r /\ draft' = Written(r)
          /\ db' = db /\ mine' = mine
      BY <2>6 DEF StoreItem, Written
    <3>2. NoRepeats(View(r)) BY DEF HistoryKept, View
    <3>3. /\ NoRepeats(Written(r))
          /\ \A v \in Written(r).versions : v.key = Item(r).key \/ Persists(v, View(r))
      BY <2>0, <3>1, <3>2, ViewSound, WrittenSound
    <3>4. Item(r).key \in mine[r] BY <2>0, <3>1 DEF TargetSound, Searching
    <3> QED BY <3>1, <3>3, <3>4, HistoryFlush
  <2>7. CASE StoreConflicts(r) \/ ItemFails(r) \/ \E q \in Request : Victim(r, q)
    BY <2>7, HistoryRollBack DEF StoreConflicts, ItemFails, Victim
  <2>8. CASE Commit(r) \/ Crash(r)
    BY <2>8, HistoryEnd DEF Commit, Crash, Abort
  <2> QED BY <1>2, <2>1, <2>2, <2>3, <2>4, <2>5, <2>6, <2>7, <2>8 DEF RequestStep
<1> QED BY <1>1, <1>2 DEF Next

\* What requests add is theirs alone, in every state.
LEMMA HistoryInvariant == Spec => []HistoryKept
<1>1. Init => HistoryKept
  <2>1. NoRows.versions = {} BY DEF NoRows
  <2> QED BY <2>1, IngestAssumption DEF Init, HistoryKept, NoRepeats
<1> QED BY <1>1, HistoryStep, IngestInvariant, PTL DEF Spec

\* In sound rows the history of a message is made of its versions.
LEMMA HistoryEntries ==
    ASSUME NEW R \in Rows, RowsSound(R), NEW m \in Fingerprint
    PROVE  /\ Depth(R, m) \in Nat
           /\ \A n \in 1 .. Depth(R, m) :
                 /\ VersionAt(R, m, n) \in R.versions
                 /\ VersionAt(R, m, n).message = m /\ VersionAt(R, m, n).number = n
           /\ \A v \in R.versions : v.message = m => /\ v.number \in 1 .. Depth(R, m)
                                                     /\ v = VersionAt(R, m, v.number)
<1>1. Depth(R, m) \in Nat BY DEF Depth, Rows
<1>2. ASSUME NEW n \in 1 .. Depth(R, m)
      PROVE  \E v \in R.versions : v.message = m /\ v.number = n
  <2>1. m \in R.messages BY DEF Depth
  <2>2. n \in {v.number : v \in {w \in R.versions : w.message = m}} BY <2>1 DEF Depth, RowsSound
  <2> QED BY <2>2
<1>3. ASSUME NEW v \in R.versions, v.message = m
      PROVE  v.number \in 1 .. Depth(R, m) /\ v = VersionAt(R, m, v.number)
  <2>1. m \in R.messages BY <1>3 DEF RowsSound
  <2>2. v.number \in {w.number : w \in {x \in R.versions : x.message = m}} BY <1>3
  <2>3. v.number \in 1 .. Depth(R, m) BY <2>1, <2>2 DEF Depth, RowsSound
  <2>4. /\ VersionAt(R, m, v.number) \in R.versions /\ VersionAt(R, m, v.number).message = m
        /\ VersionAt(R, m, v.number).number = v.number
    BY <1>3 DEF VersionAt
  <2> QED BY <1>3, <2>3, <2>4 DEF RowsSound
<1>4. \A n \in 1 .. Depth(R, m) : /\ VersionAt(R, m, n) \in R.versions
                                  /\ VersionAt(R, m, n).message = m /\ VersionAt(R, m, n).number = n
  BY <1>2 DEF VersionAt
<1> QED BY <1>1, <1>3, <1>4

\* It is a sequence of texts and keys.
LEMMA HistoryTyped ==
    ASSUME NEW R \in Rows, RowsSound(R)
    PROVE  /\ History(R) \in [Fingerprint -> Seq(Arch!Entry)]
           /\ \A m \in Fingerprint :
                 /\ Len(History(R)[m]) = Depth(R, m)
                 /\ \A n \in 1 .. Depth(R, m) :
                       /\ History(R)[m][n].text = VersionAt(R, m, n).content
                       /\ History(R)[m][n].key = VersionAt(R, m, n).key
                       /\ History(R)[m][n] = [text |-> VersionAt(R, m, n).content,
                                              key |-> VersionAt(R, m, n).key]
<1> DEFINE E(m, n) == [text |-> VersionAt(R, m, n).content, key |-> VersionAt(R, m, n).key]
           H(m) == [n \in 1 .. Depth(R, m) |-> E(m, n)]
<1>1. ASSUME NEW m \in Fingerprint
      PROVE  /\ H(m) \in Seq(Arch!Entry) /\ Len(H(m)) = Depth(R, m)
             /\ \A n \in 1 .. Depth(R, m) : H(m)[n] = E(m, n)
  <2>1. Depth(R, m) \in Nat BY HistoryEntries
  <2>2. ASSUME NEW n \in 1 .. Depth(R, m) PROVE E(m, n) \in Arch!Entry
    <3>1. VersionAt(R, m, n) \in Version BY HistoryEntries DEF Rows
    <3> QED BY <3>1 DEF Version, Arch!Entry
  <2> HIDE DEF E
  <2> QED BY <2>1, <2>2
<1>2. History(R) = [m \in Fingerprint |-> H(m)] BY DEF History
<1>3. \A m \in Fingerprint : \A n \in 1 .. Depth(R, m) :
         E(m, n).text = VersionAt(R, m, n).content /\ E(m, n).key = VersionAt(R, m, n).key
  OBVIOUS
<1> HIDE DEF H
<1>4. History(R) \in [Fingerprint -> Seq(Arch!Entry)] /\ \A m \in Fingerprint : History(R)[m] = H(m)
  BY <1>1, <1>2
<1> QED BY <1>1, <1>3, <1>4

\* Rows that extend the committed ones, with new versions under new keys, are a step
\* of the archive.
LEMMA StoreRefines ==
    ASSUME NEW A \in Rows, NEW B \in Rows, RowsSound(A), RowsSound(B), Extends(A, B), NoRepeats(B),
           NEW K \in SUBSET Key, K \cap claims = {}, claims \subseteq Key,
           \A v \in B.versions : v.key \in K \/ Persists(v, A),
           db = A, db' = B, claims' = claims \cup K
    PROVE  Arch!Store
<1>1. /\ History(A) \in [Fingerprint -> Seq(Arch!Entry)]
      /\ History(B) \in [Fingerprint -> Seq(Arch!Entry)]
  BY HistoryTyped
<1>2. ASSUME NEW m \in Fingerprint
      PROVE  Depth(A, m) \in Nat /\ Depth(B, m) \in Nat /\ Depth(A, m) <= Depth(B, m)
  <2>1. Depth(A, m) \in Nat /\ Depth(B, m) \in Nat BY HistoryEntries
  <2> QED BY <2>1 DEF Depth, Extends
<1>3. ASSUME NEW m \in Fingerprint, NEW n \in 1 .. Depth(A, m)
      PROVE  History(B)[m][n] = History(A)[m][n]
  <2>1. PICK v \in A.versions : v = VersionAt(A, m, n) /\ v.message = m /\ v.number = n
    BY HistoryEntries
  <2>2. PICK w \in B.versions : w.message = m /\ w.number = n /\ w.content = v.content /\ w.key = v.key
    BY <2>1 DEF Extends, Persists
  <2>3. n \in 1 .. Depth(B, m) /\ w = VersionAt(B, m, n) BY <2>2, HistoryEntries
  <2>4. History(A)[m][n] = [text |-> v.content, key |-> v.key] BY <2>1, HistoryTyped
  <2>5. History(B)[m][n] = [text |-> w.content, key |-> w.key] BY <2>3, HistoryTyped
  <2> QED BY <2>2, <2>4, <2>5
<1>4. ASSUME NEW m \in Fingerprint, NEW n \in 1 .. Depth(B, m) \ 1 .. Depth(A, m)
      PROVE  /\ History(B)[m][n].key \in K
             /\ \A i \in 1 .. n - 1 : History(B)[m][i].text # History(B)[m][n].text
             /\ \A o \in Fingerprint : \A i \in 1 .. Depth(B, o) :
                   History(B)[o][i].key = History(B)[m][n].key => o = m /\ i = n
  <2>1. PICK v \in B.versions : v = VersionAt(B, m, n) /\ v.message = m /\ v.number = n
    BY HistoryEntries
  <2>2. History(B)[m][n].key = v.key /\ History(B)[m][n].text = v.content BY <2>1, HistoryTyped
  <2>3. ~Persists(v, A)
    <3>1. SUFFICES ASSUME NEW w \in A.versions, w.message = m, w.number = n PROVE FALSE
      BY <2>1 DEF Persists
    <3> QED BY <3>1, HistoryEntries
  <2>4. ASSUME NEW i \in 1 .. n - 1 PROVE History(B)[m][i].text # History(B)[m][n].text
    <3>1. i \in 1 .. Depth(B, m) /\ i # n BY <1>2
    <3>2. /\ VersionAt(B, m, i) \in B.versions /\ VersionAt(B, m, i).message = m
          /\ VersionAt(B, m, i).number = i
      BY <3>1, HistoryEntries
    <3>3. History(B)[m][i].text = VersionAt(B, m, i).content BY <3>1, HistoryTyped
    <3> QED BY <2>1, <2>2, <3>1, <3>2, <3>3 DEF NoRepeats
  <2>5. ASSUME NEW o \in Fingerprint, NEW i \in 1 .. Depth(B, o),
               History(B)[o][i].key = History(B)[m][n].key
        PROVE  o = m /\ i = n
    <3>1. /\ VersionAt(B, o, i) \in B.versions /\ VersionAt(B, o, i).message = o
          /\ VersionAt(B, o, i).number = i
      BY HistoryEntries
    <3>2. VersionAt(B, o, i).key = v.key BY <2>2, <2>5, HistoryTyped
    <3> QED BY <2>1, <3>1, <3>2 DEF RowsSound
  <2> QED BY <2>1, <2>2, <2>3, <2>4, <2>5
<1>5. /\ \A m \in Complete(A) \ Complete(B) :
            /\ Len(History(A)[m]) < Len(History(B)[m])
            /\ \E n \in 1 .. Len(History(B)[m]) : History(B)[m][n].key \in Undecided
      /\ Complete(B) \subseteq {m \in Fingerprint : History(B)[m] # << >>}
  <2>1. ASSUME NEW m \in Complete(A) \ Complete(B)
        PROVE  /\ Len(History(A)[m]) < Len(History(B)[m])
               /\ \E n \in 1 .. Len(History(B)[m]) : History(B)[m][n].key \in Undecided
    <3>1. m \in A.messages /\ A.status[m] = "complete" /\ m \in Fingerprint BY DEF Complete, Rows
    <3>2. m \in B.messages /\ A.versionCount[m] # B.versionCount[m] /\ Doubtful(B, m)
      BY <3>1 DEF Complete, Extends
    <3>3. /\ Len(History(A)[m]) = Depth(A, m) /\ Len(History(B)[m]) = Depth(B, m)
          /\ Depth(A, m) # Depth(B, m)
      BY <3>1, <3>2, HistoryTyped DEF Depth
    <3>4. Len(History(A)[m]) < Len(History(B)[m]) BY <1>2, <3>1, <3>3
    <3>5. PICK v \in B.versions : v.message = m /\ v.key \in Undecided BY <3>2 DEF Doubtful
    <3>6. PICK n \in 1 .. Depth(B, m) : VersionAt(B, m, n).key = v.key
      <4>1. v.number \in 1 .. Depth(B, m) /\ v = VersionAt(B, m, v.number)
        BY <3>1, <3>5, HistoryEntries
      <4>2. VersionAt(B, m, v.number).key = v.key BY <4>1
      <4> QED BY <4>1, <4>2
    <3>7. History(B)[m][n].key = v.key BY <3>1, <3>6, HistoryTyped
    <3> QED BY <3>3, <3>4, <3>5, <3>6, <3>7
  <2>2. ASSUME NEW m \in B.messages PROVE m \in Fingerprint /\ History(B)[m] # << >>
    <3>1. m \in Fingerprint BY DEF Rows
    <3>2. B.current[m] \in 1 .. Depth(B, m) BY DEF RowsSound, Depth
    <3>3. Len(History(B)[m]) = Depth(B, m) /\ Depth(B, m) \in Nat BY <3>1, HistoryTyped, <1>2
    <3>4. Len(<< >>) = 0 OBVIOUS
    <3> QED BY <3>1, <3>2, <3>3, <3>4
  <2> QED BY <2>1, <2>2 DEF Complete
<1>6. \A m \in Fingerprint : Len(History(A)[m]) = Depth(A, m) /\ Len(History(B)[m]) = Depth(B, m)
  BY HistoryTyped
<1>7. \A m \in Fingerprint : Arch!Continues(History(A)[m], History(B)[m])
  BY <1>2, <1>3, <1>6 DEF Arch!Continues
<1>8. \A m \in Fingerprint :
         \A n \in 1 .. Len(History(B)[m]) \ 1 .. Len(History(A)[m]) :
            /\ History(B)[m][n].key \in claims' \ claims
            /\ \A i \in 1 .. n - 1 : History(B)[m][i].text # History(B)[m][n].text
            /\ \A o \in Fingerprint : \A i \in 1 .. Len(History(B)[o]) :
                  History(B)[o][i].key = History(B)[m][n].key => o = m /\ i = n
  <2>1. K \subseteq claims' \ claims OBVIOUS
  <2> QED BY <1>4, <1>6, <2>1
<1>9. claims \subseteq claims' /\ claims' \subseteq Key OBVIOUS
<1>10. History(db) = History(A) /\ History(db)' = History(B) /\ Complete(db) = Complete(A)
       /\ Complete(db)' = Complete(B)
  BY DEF History, Complete, Depth, VersionAt
<1> DEFINE HA == History(db)
           HB == History(db)'
<1>11. /\ HB \in [Fingerprint -> Seq(Arch!Entry)]
       /\ \A m \in Fingerprint : Arch!Continues(HA[m], HB[m])
       /\ \A m \in Complete(db) \ Complete(db)' :
             /\ Len(HA[m]) < Len(HB[m])
             /\ \E n \in 1 .. Len(HB[m]) : HB[m][n].key \in Undecided
       /\ Complete(db)' \subseteq {m \in Fingerprint : HB[m] # << >>}
  BY <1>1, <1>5, <1>7, <1>10
<1>12. \A m \in Fingerprint : \A n \in 1 .. Len(HB[m]) \ 1 .. Len(HA[m]) :
          /\ HB[m][n].key \in claims' \ claims
          /\ \A i \in 1 .. n - 1 : HB[m][i].text # HB[m][n].text
          /\ \A o \in Fingerprint : \A i \in 1 .. Len(HB[o]) : HB[o][i].key = HB[m][n].key => o = m /\ i = n
  BY <1>8, <1>10
<1> QED BY <1>9, <1>11, <1>12, Zenon DEF Arch!Store

\* Only a commit is seen from outside.
LEMMA StepRefines ==
    ASSUME Inv, HistoryKept, [Next]_vars, Inv', HistoryKept'
    PROVE  [Arch!Store]_(Arch!vars)
<1>1. ASSUME NEW r \in Request, Commit(r) PROVE Arch!Store
  <2>1. /\ db' = View(r) /\ claims' = claims \cup mine[r] BY <1>1 DEF Commit
  <2>2. /\ db \in Rows /\ db' \in Rows /\ RowsSound(db) /\ RowsSound(db') /\ NoRepeats(db')
        /\ claims \subseteq Key
    BY DEF Inv, HistoryKept, TypeOK, RowsKept, RowsSound, NoRepeats
  <2>3. Extends(db, db') BY <2>1, ViewSound
  <2>4. mine[r] \in SUBSET Key /\ mine[r] \cap claims = {} BY DEF Inv, TypeOK, KeysOwned
  <2>5. \A v \in db'.versions : v.key \in mine[r] \/ Persists(v, db)
    BY <2>1 DEF View, HistoryKept, Persists
  <2> QED BY <2>1, <2>2, <2>3, <2>4, <2>5, StoreRefines
<1>2. ASSUME UNCHANGED <<db, claims>> PROVE UNCHANGED Arch!vars
  BY <1>2 DEF Arch!vars, History, Complete, Depth, VersionAt
<1>3. ASSUME NEW r \in Request, ~Commit(r),
             RequestStep(r) \/ Crash(r) \/ Resend(r) \/ ItemFails(r) \/ \E q \in Request : Victim(r, q)
      PROVE  UNCHANGED <<db, claims>>
  BY <1>3 DEF RequestStep, Begin, RejectItem, LoadConversation, CreateConversation, ClaimKey, FindBySource,
     FindByFingerprint, FindByContent, Found, NotFound, LookForVersion, TouchConversation, StoreItem,
     StoreConflicts, RollBackItem, Abort, Crash, Resend, ItemFails, Victim
<1>4. CASE UNCHANGED vars BY <1>2, <1>4 DEF vars
<1>5. CASE Next BY <1>1, <1>2, <1>3, <1>5 DEF Next
<1> QED BY <1>4, <1>5

\* Nothing is archived at first.
LEMMA InitRefines == Init => Arch!Init
<1> SUFFICES ASSUME Init PROVE Arch!Init OBVIOUS
<1>1. db = NoRows /\ claims = {} /\ NoRows.messages = {} BY DEF Init, NoRows
<1>2. Complete(db) = {} BY <1>1 DEF Complete
<1>3. ASSUME NEW m \in Fingerprint PROVE History(db)[m] = << >>
  <2>1. Depth(db, m) = 0 BY <1>1 DEF Depth
  <2>2. Len(History(db)[m]) = 0 /\ History(db)[m] \in Seq(Arch!Entry)
    BY <1>1, <2>1, NoRowsSound, HistoryTyped
  <2> HIDE DEF History
  <2> QED BY <2>2, EmptySeq
<1>4. History(db) = [m \in Fingerprint |-> << >>] BY <1>3 DEF History
<1> QED BY <1>1, <1>2, <1>4 DEF Arch!Init

\* Ingest implements the archive: however requests overlap, fail and are repeated,
\* committed versions are only ever appended to, each under a key used once, and a
\* complete message stays complete, unless it has a version sent as "unknown" or
\* "reconciled" ("nothing is ever overwritten",
\* CODEBASE_WALKTHROUGH.md:107; get_db_session commits what ingest_message wrote).
THEOREM IngestIsArchive == Spec => RefinesArchive
<1>1. Inv /\ HistoryKept /\ [Next]_vars /\ Inv' /\ HistoryKept' => [Arch!Store]_(Arch!vars)
  BY StepRefines
<1> QED BY <1>1, InitRefines, IngestInvariant, HistoryInvariant, PTL DEF Spec, RefinesArchive, Arch!Spec

=============================================================================
