--------------------------- MODULE GovernanceProofs ---------------------------
(***************************************************************************)
(* Proofs about Governance, for any conversations, messages, holds, sweeps *)
(* and faults.                                                             *)
(***************************************************************************)
EXTENDS Governance, SequenceTheorems, TLAPS

\* The inductive invariant.
GovInv == TypeOK /\ Cascaded /\ SweepApart /\ HoldWhole

\* apply_legal_hold has two statements, conversations first.
LEMMA HoldStatements ==
    /\ Len(HoldTables) = 2
    /\ HoldTables[1] = "conversations" /\ HoldTables[2] = "messages"
BY DEF HoldTables

\* The rows of open transactions, one hold at a time.
LEMMA LockedRows ==
    ASSUME NEW H \in SUBSET Hold, NEW x
    PROVE  x \in LockedBy(H) <=> \E h \in H : hold[h].pc = "open" /\ x \in hold[h].rows
BY DEF LockedBy

\* A hold that shares no row with a statement of the sweep.
LEMMA ApartFrom ==
    ASSUME NEW X, X \cap LockedBy(Hold) = {}, NEW h \in Hold, hold[h].pc = "open"
    PROVE  X \cap hold[h].rows = {}
BY LockedRows

\* The actions that concern the rows, the sweep and the holds.
LEMMA StepCases ==
    ASSUME [Next]_vars
    PROVE  \/ \E m \in Message : IngestMessage(m)
           \/ \E c \in Conversation : TimePasses(c) \/ Review(c)
           \/ SweepSelect \/ SweepConversations \/ SweepMessages \/ SweepVersions
           \/ PurgeSelect \/ Purge \/ SweepCommit \/ SweepFails
           \/ \E h \in Hold : HoldUpdate(h) \/ HoldCommit(h)
           \/ UNCHANGED <<rowVars, sweep, hold>>
BY DEF Next, SweepNext, HoldNext, BuildRecord, ExportSelect, PutPart, ExportCommit, ExportFails,
       vars

\* Initially nothing is marked and nobody is at work.
LEMMA InitInv == Init => GovInv
BY DEF Init, GovInv, TypeOK, Cascaded, SweepApart, HoldWhole, Present, NoSweep, Attempt, LockedBy

\* Storing a message disturbs no mark and no hold.
LEMMA IngestKeeps ==
    ASSUME GovInv, NEW m \in Message, IngestMessage(m)
    PROVE  GovInv'
<1> USE DEF GovInv, IngestMessage
<1>1. TypeOK' BY DEF TypeOK, Present
<1>2. Cascaded' BY DEF Cascaded
<1>3. SweepApart' BY DEF SweepApart, LockedBy
<1>4. HoldWhole' BY DEF HoldWhole, Present
<1> QED BY <1>1, <1>2, <1>3, <1>4

\* A statement of the sweep before its commit only changes what the sweep is
\* about to do.
LEMMA StatementKeeps ==
    ASSUME GovInv, UNCHANGED <<rowVars, hold>>,
           sweep' \in [pc : {"idle", "conversations", "messages", "versions", "purge select",
                            "purge", "commit"},
                      ids : SUBSET (Conversation \ purged), deletes : SUBSET Present,
                      erases : SUBSET stored, purges : SUBSET Conversation],
           (sweep'.deletes \cup sweep'.purges) \cap (held \cup LockedBy(Hold)) = {}
    PROVE  GovInv'
<1> USE DEF GovInv, rowVars
<1>1. TypeOK' BY DEF TypeOK, Present
<1>2. Cascaded' BY DEF Cascaded
<1>3. SweepApart'
  <2>0. hold' = hold OBVIOUS
  <2>1. LockedBy(Hold)' = LockedBy(Hold) BY ONLY <2>0 DEF LockedBy
  <2> QED BY <2>1 DEF SweepApart
<1>4. HoldWhole' BY DEF HoldWhole, Present
<1> QED BY <1>1, <1>2, <1>3, <1>4

\* An UPDATE of the sweep takes rows that are neither held nor locked by a hold.
LEMMA UpdateKeeps ==
    ASSUME GovInv, NEW rows \in SUBSET Present, NEW next \in {"messages", "versions"},
           SweepUpdate(rows, next)
    PROVE  GovInv'
<1> USE DEF GovInv, TypeOK, SweepApart
<1>0. Unheld(rows) \cap (held \cup LockedBy(Hold)) = {} /\ Unheld(rows) \subseteq Present
  BY DEF SweepUpdate, Unheld
<1>1. CASE sweep' = NoSweep
  BY <1>1, StatementKeeps DEF SweepUpdate, NoSweep
<1>2. CASE sweep' = [sweep EXCEPT !.deletes = @ \cup Unheld(rows), !.pc = next]
  BY <1>0, <1>2, StatementKeeps DEF SweepUpdate
<1> QED BY <1>1, <1>2 DEF SweepUpdate

\* The other statements of the sweep before its commit.
LEMMA SweepKeeps ==
    ASSUME GovInv,
           \/ SweepSelect \/ SweepConversations \/ SweepMessages \/ SweepVersions
           \/ PurgeSelect \/ Purge \/ SweepFails
    PROVE  GovInv'
<1>1. CASE SweepConversations
  BY <1>1, UpdateKeeps DEF SweepConversations, GovInv, TypeOK, Present
<1>2. CASE SweepMessages
  BY <1>2, UpdateKeeps DEF SweepMessages, GovInv, TypeOK, Present, MessagesOf
<1> USE DEF GovInv, TypeOK, SweepApart
<1>4. CASE SweepSelect BY StatementKeeps, <1>4 DEF SweepSelect, NoSweep
<1>5. CASE SweepVersions BY StatementKeeps, <1>5 DEF SweepVersions, MessagesOf
<1>6. CASE PurgeSelect BY StatementKeeps, <1>6 DEF PurgeSelect, Present
<1>7. CASE Purge BY StatementKeeps, <1>7 DEF Purge, Unheld
<1>8. CASE SweepFails BY StatementKeeps, <1>8 DEF SweepFails, NoSweep, Fault
<1> QED BY <1>1, <1>2, <1>4, <1>5, <1>6, <1>7, <1>8

\* The commit of the sweep takes nothing a hold has marked: not its rows, and by
\* the cascade no message whose conversation is among them.
LEMMA CommitKeeps ==
    ASSUME GovInv, SweepCommit
    PROVE  GovInv'
<1> DEFINE gone == sweep.purges \cup MessagesOf(sweep.purges)
<1>0. /\ deleted' = (deleted \cup sweep.deletes) \ gone /\ held' = held \ gone
      /\ erased' = (erased \cup sweep.erases) \ gone /\ stored' = stored \ gone
      /\ purged' = purged \cup sweep.purges /\ approved' = approved \ gone
      /\ sweep' = NoSweep /\ UNCHANGED <<old, graceOver, hold>>
  BY DEF SweepCommit
<1>1. ASSUME NEW h \in Hold
      PROVE  hold[h].rows \cap (gone \cup sweep.deletes) = {}
  <2>1. hold[h].rows \cap (sweep.purges \cup sweep.deletes) = {}
    <3>1. CASE hold[h].pc = "open"
      BY <3>1, ApartFrom DEF GovInv, SweepApart
    <3>2. CASE hold[h].pc # "open"
      BY <3>2 DEF GovInv, SweepApart, HoldWhole, TypeOK
    <3> QED BY <3>1, <3>2
  <2>2. hold[h].rows \cap MessagesOf(sweep.purges) = {}
    BY <2>1 DEF GovInv, HoldWhole, MessagesOf, TypeOK
  <2> QED BY <2>1, <2>2
<1>2. sweep.purges \subseteq Conversation /\ MessagesOf(sweep.purges) \subseteq Message
  BY DEF GovInv, TypeOK, MessagesOf
<1>3. Present' = Present \ gone
  BY <1>0, <1>2, GovernanceAssumption DEF Present, GovInv, TypeOK
<1>4. TypeOK'
  BY <1>0, <1>2, <1>3 DEF GovInv, TypeOK, NoSweep, Present
<1>5. Cascaded'
  BY <1>0 DEF GovInv, Cascaded, MessagesOf
<1>6. SweepApart'
  BY <1>0 DEF SweepApart, NoSweep
<1>7. HoldWhole'
  BY <1>0, <1>1, <1>3 DEF GovInv, HoldWhole
<1> QED BY <1>4, <1>5, <1>6, <1>7 DEF GovInv

\* Time and reviews touch no mark.
LEMMA WorldKeeps ==
    ASSUME GovInv, NEW c \in Conversation, TimePasses(c) \/ Review(c)
    PROVE  GovInv'
<1>0. /\ UNCHANGED <<stored, held, deleted, erased, purged, sweep, hold>>
      /\ old' \subseteq Conversation /\ graceOver' \subseteq Conversation
      /\ approved' \subseteq Conversation \ purged
  BY DEF TimePasses, Review, GovInv, TypeOK
<1>1. TypeOK' BY <1>0 DEF GovInv, TypeOK, Present
<1>2. Cascaded' BY <1>0 DEF GovInv, Cascaded
<1>3. SweepApart' BY <1>0 DEF GovInv, SweepApart, LockedBy
<1>4. HoldWhole' BY <1>0 DEF GovInv, HoldWhole, Present
<1> QED BY <1>1, <1>2, <1>3, <1>4 DEF GovInv

\* The rows an UPDATE of a hold matches: they exist, and the messages belong to
\* conversations the first statement has marked.
LEMMA ScopeRows ==
    ASSUME GovInv, NEW h \in Hold, HoldUpdate(h),
           NEW rows, rows = Scope(h, HoldTables[hold[h].step])
    PROVE  /\ hold[h].step \in 1..2 /\ rows \subseteq Present
           /\ hold[h].step = 1 => rows = ScopeOf[h] \ purged
           /\ hold[h].step = 2 => rows = MessagesOf(ScopeOf[h])
           /\ \A m \in rows \cap Message : ConvOf[m] \in hold[h].rows
<1>1. hold[h].step \in 1..3 /\ hold[h].step <= 2
  BY HoldStatements DEF GovInv, TypeOK, HoldUpdate
<1>2. CASE hold[h].step = 1
  <2>1. rows = ScopeOf[h] \ purged BY <1>2, HoldStatements DEF Scope
  <2>2. rows \subseteq Conversation \ purged BY <2>1, GovernanceAssumption
  <2> QED BY <1>2, <2>1, <2>2, GovernanceAssumption DEF Present
<1>3. CASE hold[h].step = 2
  <2>1. rows = MessagesOf(ScopeOf[h]) BY <1>3, HoldStatements DEF Scope
  <2>2. ScopeOf[h] \ purged \subseteq hold[h].rows BY <1>3 DEF GovInv, HoldWhole
  <2>3. \A m \in rows : m \in stored /\ ConvOf[m] \in ScopeOf[h] \ purged
    BY <2>1 DEF MessagesOf, GovInv, Cascaded
  <2> QED BY <1>3, <2>1, <2>2, <2>3 DEF Present
<1> QED BY <1>1, <1>2, <1>3

\* An UPDATE of a hold fails on a deleted row, or marks its scope, which the
\* sweep has not taken.
LEMMA HoldUpdateKeeps ==
    ASSUME GovInv, NEW h \in Hold, HoldUpdate(h)
    PROVE  GovInv'
<1> DEFINE rows == Scope(h, HoldTables[hold[h].step])
           after == IF CheckViolated(rows, deleted)
                    THEN [pc |-> "failed", step |-> 1, rows |-> {}]
                    ELSE [pc |-> "open", step |-> hold[h].step + 1,
                          rows |-> hold[h].rows \cup rows]
<1>0. /\ hold[h].pc \in {"asked", "open"}
      /\ rows \cap (sweep.deletes \cup sweep.purges) = {}
      /\ hold' = [hold EXCEPT ![h] = after]
      /\ UNCHANGED <<stored, held, deleted, erased, purged, old, graceOver, approved, sweep>>
  BY DEF HoldUpdate, rowVars
<1>1. /\ hold[h].step \in 1..2 /\ rows \subseteq Present
      /\ hold[h].step = 1 => rows = ScopeOf[h] \ purged
      /\ \A m \in rows \cap Message : ConvOf[m] \in hold[h].rows
  BY ScopeRows
<1> HIDE DEF rows
<1>2. hold'[h] = after /\ \A g \in Hold \ {h} : hold'[g] = hold[g]
  BY <1>0 DEF GovInv, TypeOK
<1>3. Present' = Present /\ Present \subseteq Row
  BY <1>0 DEF Present, GovInv, TypeOK, Row
<1>4. after \in [pc : {"asked", "open", "done", "failed"}, step : 1..3, rows : SUBSET Row]
  <2>1. hold[h].rows \cup rows \subseteq Row BY <1>1, <1>3 DEF GovInv, TypeOK
  <2>2. hold[h].step + 1 \in 1..3 BY <1>1
  <2> QED BY <2>1, <2>2
<1>5. TypeOK' BY <1>0, <1>3, <1>4 DEF GovInv, TypeOK
<1>6. Cascaded' BY <1>0 DEF GovInv, Cascaded
<1>7. SweepApart'
  <2>1. SUFFICES ASSUME NEW x \in sweep.deletes \cup sweep.purges, x \in LockedBy(Hold)'
                 PROVE  FALSE
    BY <1>0 DEF GovInv, SweepApart
  <2>2. PICK g \in Hold : hold'[g].pc = "open" /\ x \in hold'[g].rows
    BY <2>1 DEF LockedBy
  <2>3. CASE g = h
    <3>1. x \in hold[h].rows BY <1>0, <1>2, <2>1, <2>2, <2>3
    <3>2. hold[h].pc = "open" BY <1>0, <3>1 DEF GovInv, HoldWhole
    <3> QED BY <2>1, <3>1, <3>2, LockedRows DEF GovInv, SweepApart
  <2>4. CASE g # h
    BY <1>2, <2>1, <2>2, <2>4, LockedRows DEF GovInv, SweepApart
  <2> QED BY <2>3, <2>4
<1>8. HoldWhole'
  <2>1. ASSUME ~CheckViolated(rows, deleted)
        PROVE  /\ after.rows \cap deleted = {} /\ after.rows \subseteq Present
               /\ \A m \in after.rows \cap Message : ConvOf[m] \in after.rows
               /\ ScopeOf[h] \ purged \subseteq after.rows
               /\ after.pc = "open"
    <3>1. hold[h].step > 1 => ScopeOf[h] \ purged \subseteq hold[h].rows
      BY DEF GovInv, HoldWhole
    <3> QED BY <1>1, <2>1, <3>1 DEF GovInv, HoldWhole, CheckViolated
  <2>2. ASSUME CheckViolated(rows, deleted)
        PROVE  after = [pc |-> "failed", step |-> 1, rows |-> {}]
    BY <2>2
  <2> HIDE DEF after
  <2> QED BY <1>0, <1>2, <1>3, <2>1, <2>2 DEF GovInv, HoldWhole
<1> QED BY <1>5, <1>6, <1>7, <1>8 DEF GovInv

\* The commit of a hold makes its marks visible: they were locked, so the sweep
\* has none of them.
LEMMA HoldCommitKeeps ==
    ASSUME GovInv, NEW h \in Hold, HoldCommit(h)
    PROVE  GovInv'
<1>0. /\ hold[h].pc = "open" /\ held' = held \cup hold[h].rows
      /\ hold' = [hold EXCEPT ![h].pc = "done"]
      /\ UNCHANGED <<stored, deleted, erased, purged, old, graceOver, approved, sweep>>
  BY DEF HoldCommit
<1>1. /\ hold'[h].pc = "done" /\ hold'[h].rows = hold[h].rows /\ hold'[h].step = hold[h].step
      /\ \A g \in Hold \ {h} : hold'[g] = hold[g]
  BY <1>0 DEF GovInv, TypeOK
<1>2. Present' = Present BY <1>0 DEF Present
<1>3. hold[h].rows \subseteq Present BY DEF GovInv, HoldWhole
<1>4. TypeOK' BY <1>0, <1>2, <1>3 DEF GovInv, TypeOK
<1>5. Cascaded' BY <1>0 DEF GovInv, Cascaded
<1>6. SweepApart'
  <2>1. SUFFICES ASSUME NEW x \in sweep.deletes \cup sweep.purges,
                        x \in hold[h].rows \/ x \in LockedBy(Hold)'
                 PROVE  FALSE
    BY <1>0 DEF GovInv, SweepApart
  <2>2. PICK g \in Hold : hold[g].pc = "open" /\ x \in hold[g].rows
    BY <1>0, <1>1, <2>1 DEF LockedBy
  <2> QED BY <2>1, <2>2, LockedRows DEF GovInv, SweepApart
<1>7. HoldWhole' BY <1>0, <1>1, <1>2 DEF GovInv, HoldWhole
<1> QED BY <1>4, <1>5, <1>6, <1>7 DEF GovInv

\* Every step preserves the invariant.
LEMMA StepKeeps == GovInv /\ [Next]_vars => GovInv'
<1> SUFFICES ASSUME GovInv, [Next]_vars PROVE GovInv' OBVIOUS
<1>1. CASE UNCHANGED <<rowVars, sweep, hold>>
  BY <1>1, StatementKeeps DEF GovInv, TypeOK, SweepApart
<1> QED
  BY <1>1, StepCases, IngestKeeps, WorldKeeps, SweepKeeps, CommitKeeps, HoldUpdateKeeps,
     HoldCommitKeeps

\* Marks and approvals stay on rows that exist, whatever the cascade takes.
THEOREM GovernanceTypes == Spec => []TypeOK
<1>1. GovInv => TypeOK BY DEF GovInv
<1> QED BY <1>1, InitInv, StepKeeps, PTL DEF Spec

\* Whatever a hold that succeeded has marked is never deleted or purged
\* (services/retention.py, services/exports.py): any number of holds with
\* overlapping scopes, any number of sweeps and messages.
THEOREM HoldsKept == Spec => []HeldKept
<1>1. GovInv => HeldKept
  BY GovernanceAssumption DEF GovInv, TypeOK, HoldWhole, HeldKept, Present
<1> QED BY <1>1, InitInv, StepKeeps, PTL DEF Spec

-----------------------------------------------------------------------------
(* Deletion in two stages *)

\* Marks, ages and grace periods only grow, except at the sweep's own commit.
LEMMA DueWhileWaiting ==
    ASSUME SweepDue, sweep' = sweep, old \subseteq old', graceOver \subseteq graceOver',
           deleted \subseteq deleted'
    PROVE  SweepDue'
BY DEF SweepDue

\* A sweep that has been rolled back, or has committed, is about to do nothing.
LEMMA DueWhenIdle ==
    ASSUME sweep' = NoSweep
    PROVE  SweepDue'
<1>1. NoSweep.pc = "idle" /\ NoSweep.deletes = {} /\ NoSweep.purges = {} BY DEF NoSweep
<1> QED BY <1>1 DEF SweepDue

\* Every step leaves the sweep with what is due.
LEMMA DueStep == GovInv /\ SweepDue /\ [Next]_vars => SweepDue'
<1> SUFFICES ASSUME GovInv, SweepDue, [Next]_vars PROVE SweepDue' OBVIOUS
<1>s. sweep = [pc |-> sweep.pc, ids |-> sweep.ids, deletes |-> sweep.deletes,
               erases |-> sweep.erases, purges |-> sweep.purges]
  BY DEF GovInv, TypeOK
<1>0. /\ Conversation \cap Message = {}
      /\ sweep.ids \subseteq Conversation
  BY GovernanceAssumption DEF GovInv, TypeOK
<1>1. ASSUME NEW m \in Message, IngestMessage(m) PROVE SweepDue'
  BY <1>1, DueWhileWaiting DEF IngestMessage
<1>2. ASSUME NEW c \in Conversation, TimePasses(c) \/ Review(c) PROVE SweepDue'
  BY <1>2, DueWhileWaiting DEF TimePasses, Review
<1>3. ASSUME NEW h \in Hold, HoldUpdate(h) \/ HoldCommit(h) PROVE SweepDue'
  BY <1>3, DueWhileWaiting DEF HoldUpdate, HoldCommit, rowVars
<1>4. CASE SweepSelect
  <2> DEFINE ids == {c \in Conversation \ (purged \cup deleted \cup held) : c \in old}
             pc == IF ids = {} THEN "purge select" ELSE "conversations"
  <2>1. /\ sweep' = [pc |-> pc, ids |-> ids, deletes |-> {}, erases |-> {}, purges |-> {}]
        /\ UNCHANGED rowVars
    BY <1>4 DEF SweepSelect, NoSweep
  <2>2. ids \subseteq old OBVIOUS
  <2> HIDE DEF ids
  <2> QED BY <2>1, <2>2 DEF SweepDue, rowVars
<1>5. ASSUME NEW rows, NEW next \in {"messages", "versions"}, SweepUpdate(rows, next),
             rows \cap Conversation \subseteq old, sweep.ids \subseteq old
      PROVE  SweepDue'
  <2>1. CASE sweep' = NoSweep BY <2>1, DueWhenIdle
  <2>2. CASE sweep' = [sweep EXCEPT !.deletes = @ \cup Unheld(rows), !.pc = next]
    <3>1. sweep' = [pc |-> next, ids |-> sweep.ids, deletes |-> sweep.deletes \cup Unheld(rows),
                    erases |-> sweep.erases, purges |-> sweep.purges]
      BY <1>s, <2>2
    <3>2. Unheld(rows) \cap Conversation \subseteq old BY <1>5 DEF Unheld
    <3>3. UNCHANGED rowVars BY <1>5 DEF SweepUpdate
    <3> QED BY <1>5, <3>1, <3>2, <3>3 DEF SweepDue, rowVars
  <2> QED BY <1>5, <2>1, <2>2 DEF SweepUpdate
<1>6. CASE SweepConversations
  <2>1. sweep.ids \subseteq old /\ SweepUpdate(sweep.ids, "messages")
    BY <1>6 DEF SweepConversations, SweepDue
  <2> QED BY <1>5, <2>1
<1>7. CASE SweepMessages
  <2>1. sweep.ids \subseteq old /\ SweepUpdate(MessagesOf(sweep.ids), "versions")
    BY <1>7 DEF SweepMessages, SweepDue
  <2>2. MessagesOf(sweep.ids) \cap Conversation = {} BY <1>0 DEF MessagesOf, GovInv, TypeOK
  <2> QED BY <1>5, <2>1, <2>2
<1>8. CASE SweepVersions
  <2>1. /\ sweep' = [pc |-> "purge select", ids |-> sweep.ids, deletes |-> sweep.deletes,
                     erases |-> MessagesOf(sweep.ids), purges |-> sweep.purges]
        /\ UNCHANGED rowVars
    BY <1>8, <1>s DEF SweepVersions
  <2> QED BY <2>1 DEF SweepDue, rowVars
<1>9. CASE PurgeSelect
  <2> DEFINE ids == {c \in (deleted \cap graceOver) \ purged : c \notin held}
  <2>1. /\ sweep' = [pc |-> "purge", ids |-> ids, deletes |-> sweep.deletes,
                     erases |-> sweep.erases, purges |-> sweep.purges]
        /\ UNCHANGED rowVars
    BY <1>9, <1>s DEF PurgeSelect
  <2>2. ids \subseteq deleted \cap graceOver OBVIOUS
  <2> HIDE DEF ids
  <2> QED BY <2>1, <2>2 DEF SweepDue, rowVars
<1>10. CASE Purge
  <2>1. /\ sweep' = [pc |-> "commit", ids |-> sweep.ids, deletes |-> sweep.deletes,
                     erases |-> sweep.erases, purges |-> Unheld(sweep.ids)]
        /\ UNCHANGED rowVars
    BY <1>10, <1>s DEF Purge
  <2>2. Unheld(sweep.ids) \subseteq deleted \cap graceOver BY <1>10 DEF Purge, SweepDue, Unheld
  <2> QED BY <2>1, <2>2 DEF SweepDue, rowVars
<1>11. CASE SweepCommit \/ SweepFails BY <1>11, DueWhenIdle DEF SweepCommit, SweepFails
<1>12. CASE UNCHANGED <<rowVars, sweep, hold>> BY <1>12, DueWhileWaiting DEF rowVars
<1> QED BY <1>1, <1>2, <1>3, <1>4, <1>6, <1>7, <1>8, <1>9, <1>10, <1>11, <1>12, StepCases

\* A conversation is soft deleted when its retention has ended and purged when its
\* grace period has, and neither while it is held (soft_delete_expired,
\* hard_delete_grace_expired): what the sweep read at its SELECTs is still so at its
\* commit, however holds, messages and time come in between.
THEOREM DeletionInTwoStages == Spec => TwoStages
<1> DEFINE Staged == /\ (deleted' \ deleted) \cap held = {}
                     /\ (deleted' \ deleted) \cap Conversation \subseteq old
                     /\ purged' \ purged \subseteq (deleted \cap graceOver) \ held
                     /\ \A m \in stored \ stored' : ConvOf[m] \in purged' \ purged
<1>1. Init => SweepDue BY DEF Init, SweepDue, NoSweep
<1>2. ASSUME GovInv, SweepDue, [Next]_vars PROVE Staged
  <2>1. CASE SweepCommit
    <3> DEFINE gone == sweep.purges \cup MessagesOf(sweep.purges)
    <3>1. /\ deleted' = (deleted \cup sweep.deletes) \ gone /\ stored' = stored \ gone
          /\ purged' = purged \cup sweep.purges
      BY <2>1 DEF SweepCommit
    <3>2. /\ sweep.deletes \cap held = {} /\ sweep.purges \cap held = {}
          /\ sweep.deletes \cap Conversation \subseteq old
          /\ sweep.purges \subseteq deleted \cap graceOver
      BY <1>2 DEF GovInv, SweepApart, SweepDue
    <3>3. ASSUME NEW m \in stored \ stored' PROVE ConvOf[m] \in purged' \ purged
      <4>1. m \in Message /\ m \in gone /\ sweep.purges \subseteq Conversation
        BY <1>2, <3>1 DEF GovInv, TypeOK
      <4>2. ConvOf[m] \in sweep.purges BY <4>1, GovernanceAssumption DEF MessagesOf
      <4>3. ConvOf[m] \notin purged BY <1>2 DEF GovInv, Cascaded
      <4> QED BY <3>1, <4>2, <4>3
    <3> QED BY <3>1, <3>2, <3>3
  <2>2. CASE deleted' = deleted /\ purged' = purged /\ stored \subseteq stored' BY <2>2
  <2>3. ~SweepCommit => deleted' = deleted /\ purged' = purged /\ stored \subseteq stored'
    BY <1>2, StepCases DEF IngestMessage, TimePasses, Review, SweepSelect, SweepConversations,
       SweepMessages, SweepUpdate, SweepVersions, PurgeSelect, Purge, SweepFails, HoldUpdate, HoldCommit,
       rowVars
  <2> QED BY <2>1, <2>2, <2>3
<1>3. GovInv /\ SweepDue /\ [Next]_vars => [Staged]_vars BY <1>2
<1> QED BY <1>1, <1>3, InitInv, StepKeeps, DueStep, PTL DEF Spec, TwoStages

-----------------------------------------------------------------------------
(* The export *)

\* The entries of a manifest are stored under their keys, which are numbered,
\* and are about conversations the attempt found eligible.
Filed(entries) ==
    \A n \in DOMAIN entries :
        LET part == entries[n]
        IN  /\ part.key[1] = n
            /\ part.key \in DOMAIN objects /\ objects[part.key] = part.records
            /\ \A r \in part.records : r.conversation \in eligible

\* A sequence of whatever its entries are.
Listed(s) == s \in Seq({s[n] : n \in DOMAIN s})

\* The inductive invariant: an attempt works on eligible conversations and what
\* it has written is filed; a completed export starts no further attempt, so
\* nothing is written over the parts its manifest lists.
ExportInv ==
    /\ export = [status |-> export.status, pc |-> export.pc, todo |-> export.todo,
                 records |-> export.records, written |-> export.written,
                 parts |-> export.parts]
    /\ Listed(export.written)
    /\ export.todo \subseteq eligible
    /\ \A r \in export.records : r.conversation \in eligible
    /\ Filed(export.written) /\ Filed(export.parts)
    /\ export.status = "completed" => export.pc = "queued"
    /\ export.pc \in {"queued", "build"}
    /\ export.pc = "build" => export.parts = <<>>

\* A list of entries remains one when it grows.
LEMMA Grows ==
    ASSUME NEW s, Listed(s), NEW e
    PROVE  /\ Listed(Append(s, e))
           /\ DOMAIN Append(s, e) = DOMAIN s \cup {Len(s) + 1}
           /\ Append(s, e)[Len(s) + 1] = e
           /\ \A n \in DOMAIN s : Append(s, e)[n] = s[n] /\ n # Len(s) + 1
<1> DEFINE S == {s[n] : n \in DOMAIN s}
           t == Append(s, e)
<1>0. s \in Seq(S) /\ S \subseteq S \cup {e} BY DEF Listed
<1> HIDE DEF S
<1>1. s \in Seq(S \cup {e}) /\ e \in S \cup {e} BY <1>0, SeqMonotonic
<1>2. /\ DOMAIN s = 1..Len(s) /\ Len(s) \in Nat
      /\ DOMAIN t = 1..(Len(s) + 1) /\ t = [n \in DOMAIN t |-> t[n]]
      /\ t[Len(s) + 1] = e /\ \A n \in 1..Len(s) : t[n] = s[n]
  <2>1. DOMAIN s = 1..Len(s) /\ Len(s) \in Nat BY <1>1, LenProperties
  <2>2. /\ t \in Seq(S \cup {e}) /\ Len(t) = Len(s) + 1
        /\ t[Len(s) + 1] = e /\ \A n \in 1..Len(s) : t[n] = s[n]
    BY <1>1, AppendProperties
  <2>3. DOMAIN t = 1..Len(t) /\ t \in [1..Len(t) -> S \cup {e}] BY <2>2, LenProperties
  <2> HIDE DEF t
  <2> QED BY <2>1, <2>2, <2>3
<1> HIDE DEF t
<1>3. Listed(t)
  <2> DEFINE T == {t[n] : n \in DOMAIN t}
  <2>1. \A n \in DOMAIN t : t[n] \in T OBVIOUS
  <2> HIDE DEF T
  <2>2. t \in [1..(Len(s) + 1) -> T] /\ Len(s) + 1 \in Nat BY <1>2, <2>1
  <2>3. t \in Seq(T) BY <2>2, SeqDef
  <2> QED BY <2>3 DEF T, Listed
<1> QED BY <1>2, <1>3 DEF t

\* The empty sequence lists nothing.
LEMMA NothingListed == Listed(<<>>)
<1> DEFINE S == {<<>>[n] : n \in DOMAIN <<>>}
<1>1. <<>> \in Seq(S) BY EmptySeq
<1> QED BY <1>1 DEF Listed

\* The export's row, ids and objects between two attempts.
LEMMA AttemptSound ==
    ASSUME NEW status, export' = Attempt(status), status # "completed"
    PROVE  ExportInv'
BY NothingListed DEF ExportInv, Attempt, Filed

\* A part goes under a number of its own: the entries before it stay filed.
LEMMA PutPartKeeps ==
    ASSUME ExportInv, PutPart
    PROVE  ExportInv'
<1> DEFINE n == Len(export.written) + 1
           split == Parts[n]
           part == [key |-> <<n, split>>, records |-> Bucket(split)]
<1>1. /\ export.pc = "build" /\ objects' = Put(n, split) /\ eligible' = eligible
      /\ export' = [export EXCEPT !.written = Append(@, part)]
  BY DEF PutPart
<1>2. /\ export'.status = export.status /\ export'.pc = export.pc
      /\ export'.todo = export.todo /\ export'.records = export.records
      /\ export'.parts = export.parts
      /\ export'.written = Append(export.written, part)
      /\ export' = [status |-> export'.status, pc |-> export'.pc, todo |-> export'.todo,
                    records |-> export'.records, written |-> export'.written,
                    parts |-> export'.parts]
  BY <1>1 DEF ExportInv
<1>3. /\ part.key = <<n, split>> /\ part.key[1] = n /\ part.records = Bucket(split)
      /\ \A r \in part.records : r.conversation \in eligible
  BY DEF Bucket, ExportInv
<1>4. /\ DOMAIN objects' = DOMAIN objects \cup {part.key}
      /\ objects'[part.key] = part.records
      /\ \A key \in DOMAIN objects : key # part.key => objects'[key] = objects[key]
  BY <1>1, <1>3 DEF Put
<1> HIDE DEF part
<1>5. Filed(export.written)'
  <2> DEFINE s == export.written
             t == Append(s, part)
  <2>1. SUFFICES ASSUME NEW k \in DOMAIN t
                 PROVE  /\ t[k].key[1] = k
                        /\ t[k].key \in DOMAIN objects' /\ objects'[t[k].key] = t[k].records
                        /\ \A r \in t[k].records : r.conversation \in eligible
    BY <1>1, <1>2 DEF Filed
  <2>2. /\ DOMAIN t = DOMAIN s \cup {n} /\ t[n] = part
        /\ \A i \in DOMAIN s : t[i] = s[i] /\ i # n
    BY Grows DEF ExportInv
  <2>3. CASE k = n BY <1>3, <1>4, <2>2, <2>3
  <2>4. CASE k # n
    <3>1. k \in DOMAIN s /\ t[k] = s[k] BY <2>1, <2>2, <2>4
    <3>2. /\ s[k].key[1] = k /\ s[k].key \in DOMAIN objects
          /\ objects[s[k].key] = s[k].records
          /\ \A r \in s[k].records : r.conversation \in eligible
      BY <3>1 DEF ExportInv, Filed
    <3>3. s[k].key # part.key BY <1>3, <2>4, <3>2
    <3> QED BY <1>4, <3>1, <3>2, <3>3
  <2> QED BY <2>3, <2>4
<1>6. Filed(export.parts)' BY <1>1, <1>2 DEF Filed, ExportInv
<1>7. Listed(export'.written)
  BY <1>2, Grows DEF ExportInv
<1> QED BY <1>1, <1>2, <1>5, <1>6, <1>7 DEF ExportInv

\* A conversation is turned into a record, if it is still there.
LEMMA BuildRecordKeeps ==
    ASSUME ExportInv, NEW c \in Conversation, BuildRecord(c)
    PROVE  ExportInv'
<1> DEFINE r == [conversation |-> c, turns |-> MessagesOf({c}) \ deleted]
           after == IF c \in purged \cup deleted THEN export.records
                    ELSE export.records \cup {r}
<1>1. /\ export' = [export EXCEPT !.todo = @ \ {c}, !.records = after]
      /\ c \in export.todo /\ UNCHANGED <<objects, eligible>>
  BY DEF BuildRecord
<1>2. \A x \in after : x.conversation \in eligible BY <1>1 DEF ExportInv
<1> HIDE DEF after
<1>3. /\ export'.status = export.status /\ export'.pc = export.pc
      /\ export'.todo = export.todo \ {c} /\ export'.records = after
      /\ export'.parts = export.parts /\ export'.written = export.written
      /\ export' = [status |-> export'.status, pc |-> export'.pc, todo |-> export'.todo,
                    records |-> export'.records, written |-> export'.written,
                    parts |-> export'.parts]
  BY <1>1 DEF ExportInv
<1>4. Filed(export.written)' /\ Filed(export.parts)'
  BY <1>1, <1>3 DEF Filed, ExportInv
<1> QED BY <1>1, <1>2, <1>3, <1>4 DEF ExportInv

\* Every step preserves it: only the export's own steps touch what it is about.
LEMMA ExportKeeps == ExportInv /\ [Next]_vars => ExportInv'
<1> SUFFICES ASSUME ExportInv, [Next]_vars PROVE ExportInv' OBVIOUS
<1>1. CASE ExportSelect
  <2>1. eligible' = Eligible /\ export.status # "completed" BY <1>1 DEF ExportSelect
  <2>2. export' = [status |-> export.status, pc |-> "build", todo |-> Eligible,
                   records |-> {}, written |-> <<>>, parts |-> <<>>]
    BY <1>1 DEF ExportSelect, Attempt
  <2>3. Filed(<<>>)' BY DEF Filed
  <2>4. /\ export'.todo \subseteq eligible' /\ export'.records = {}
        /\ export'.status # "completed" /\ export'.pc = "build"
        /\ export'.written = <<>> /\ export'.parts = <<>>
    BY <2>1, <2>2
  <2> QED BY <2>2, <2>3, <2>4, NothingListed DEF ExportInv
<1>2. CASE ExportCommit
  <2>1. /\ export' = [Attempt("completed") EXCEPT !.parts = export.written]
        /\ UNCHANGED <<objects, eligible>>
    BY <1>2 DEF ExportCommit
  <2>2. export' = [status |-> "completed", pc |-> "queued", todo |-> {},
                   records |-> {}, written |-> <<>>, parts |-> export.written]
    BY <2>1 DEF Attempt
  <2>3. Filed(export.parts)' BY <2>1, <2>2 DEF ExportInv, Filed
  <2>4. Filed(export.written)' BY <2>2 DEF Filed
  <2> QED BY <2>2, <2>3, <2>4, NothingListed DEF ExportInv
<1>3. CASE ExportFails
  BY <1>3, AttemptSound DEF ExportFails, ExportInv
<1>4. CASE UNCHANGED <<export, objects, eligible>>
  BY <1>4 DEF ExportInv, Filed
<1>5. \/ \E c \in Conversation : BuildRecord(c)
      \/ ExportSelect \/ PutPart \/ ExportCommit \/ ExportFails
      \/ UNCHANGED <<export, objects, eligible>>
  BY DEF Next, SweepNext, HoldNext, vars, IngestMessage, TimePasses, Review, SweepSelect,
         SweepConversations, SweepMessages, SweepUpdate, SweepVersions, PurgeSelect, Purge,
         SweepCommit, SweepFails, HoldUpdate, HoldCommit
<1> QED BY <1>1, <1>2, <1>3, <1>4, <1>5, PutPartKeeps, BuildRecordKeeps

\* A completed export is what its manifest says, whatever earlier attempts left in
\* the bucket and however holds, sweeps and reviews ran meanwhile
\* (services/exports.py, run_export): any conversations, splits and failures.
THEOREM ExportIsItsManifest == Spec => []ManifestMatches
<1>1. Init => ExportInv BY NothingListed DEF Init, ExportInv, Attempt, Filed
<1>2. ExportInv => ManifestMatches BY DEF ExportInv, ManifestMatches, Filed
<1> QED BY <1>1, <1>2, ExportKeeps, PTL DEF Spec

=============================================================================
