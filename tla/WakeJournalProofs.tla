-------------------------- MODULE WakeJournalProofs --------------------------
(* Proofs about the wake journal, for any saves, events and routers. *)
EXTENDS WakeJournal, FiniteSetTheorems, TLAPS

Saving(p) == call[p].at \in {"commit", "discard"}
Settled(e) == e \in accepted \cup expired \/ InOutbox(e)

\* Saves and their rows: a row, a receipt and a running save are of a save that
\* was begun, no two routers run the same save, and a save that still runs has
\* not committed.
SavesInv ==
    /\ \A j \in journal : j.save \in started
    /\ committed \subseteq started
    /\ receipts \subseteq committed
    /\ \A p \in Routers :
          /\ call[p].seen \subseteq committed
          /\ Saving(p) => call[p].save \in started \ committed
          /\ call[p].at = "commit" =>
                \A j \in journal : j.save = call[p].save => j.rev = call[p].rev + 1
    /\ \A p, q \in Routers :
          p # q /\ Saving(p) /\ Saving(q) => call[p].save # call[q].save

\* While the run exists its revision only grows: a snapshot is never ahead of
\* it, a save that could still commit has its row, and a row that a publisher
\* has no receipt for, but the shard has, is newer than its snapshot.
RunInv ==
    ~removed =>
        /\ rev = 0 => committed = {} /\ plain = 0
        /\ \A p \in Routers :
              /\ call[p].at # "finish"
              /\ call[p].at = "materialize" =>
                    /\ call[p].rev <= rev
                    /\ \A j \in journal : j.save \in receipts \ call[p].seen =>
                          j.rev > call[p].rev
              /\ call[p].at = "commit" =>
                    InJournal(call[p].save) \/ rev > call[p].rev
              /\ call[p].at = "forget" => \A s \in call[p].seen : Settled(s)

\* Ids of the outbox are never used twice, and what a router is about to
\* delete was accepted.
RowsInv ==
    /\ \A o \in outbox : o.id <= sequence
    /\ \A o, n \in outbox : o.id = n.id => o = n
    /\ \A p \in Routers :
          /\ \A o \in batch[p] :
                o.id <= sequence /\ \A n \in outbox : o.id = n.id => o = n
          /\ \A id \in done[p] :
                id <= sequence /\ \A n \in outbox : id = n.id => n.event \in accepted

\* What was published has left the journal.
PublishedInv ==
    /\ \A j \in journal : j.save \notin published
    /\ published \cap Direct \subseteq queued

CleanupInv == cleanup => committed # {} \/ plain > 0

JournalInv ==
    /\ TypeOK
    /\ SavesInv
    /\ RunInv
    /\ RowsInv
    /\ PublishedInv
    /\ CleanupInv
    /\ PublishedWasSaved
    /\ NothingIsLost

\* The rows a publisher has receipts for are finitely many.
LEMMA ReceiptedFinite ==
    ASSUME JournalInv, NEW p \in Routers
    PROVE  Cardinality(Receipted(p)) \in Nat
<1>1. IsFiniteSet(Receipted(p))
  BY FS_Subset DEF Receipted, JournalInv, TypeOK
<1> QED
  BY <1>1, FS_CardinalityType

\* Staging an event adds the row of a save that is new.
LEMMA PrepareKeeps ==
    ASSUME JournalInv, NEW p \in Routers, NEW s \in Saves, NEW expected \in Nat,
           Prepare(p, s, expected)
    PROVE  JournalInv'
<1>1. TypeOK'
  <2>1. [Idle EXCEPT !.at = "commit", !.save = s, !.rev = expected] \in Call
    BY DEF JournalInv, TypeOK, Idle, Call
  <2>2. call' \in [Routers -> Call]
    BY <2>1 DEF Prepare, JournalInv, TypeOK, Goto
  <2>3. [save |-> s, rev |-> expected + 1] \in JournalRow
    BY DEF JournalRow
  <2>4. IsFiniteSet(journal')
    BY FS_AddElement DEF Prepare, JournalInv, TypeOK
  <2> QED
    BY <2>2, <2>3, <2>4 DEF Prepare, JournalInv, TypeOK, shard, legacy, delivery, history
<1>2. SavesInv'
  BY DEF Prepare, JournalInv, TypeOK, SavesInv, Saving, Call, JournalRow, Idle, Goto,
      At, shard, legacy, delivery, history
<1>3. RunInv'
  <2>1. [save |-> s, rev |-> expected + 1] \in journal'
    BY DEF Prepare
  <2>2. InJournal(s)'
    BY <2>1 DEF InJournal
  <2>3. \A t : InJournal(t) => InJournal(t)'
    BY DEF Prepare, InJournal
  <2>4. s \notin receipts
    BY DEF Prepare, JournalInv, SavesInv
  <2>5. \A t : Settled(t)' <=> Settled(t)
    BY DEF Prepare, Settled, InOutbox
  <2>6. /\ call'[p].at = "commit" /\ call'[p].save = s
        /\ \A q \in Routers \ {p} : call'[q] = call[q]
    BY DEF Prepare, JournalInv, TypeOK, Goto, Idle, Call
  <2> QED
    BY <2>2, <2>3, <2>4, <2>5, <2>6 DEF Prepare, JournalInv, RunInv, shard, legacy,
        delivery, history
<1>4. RowsInv'
  BY DEF Prepare, JournalInv, TypeOK, RowsInv, Call, OutboxRow, Idle, Goto, At, shard,
      legacy, delivery, history
<1>5. PublishedInv'
  BY JournalAssumption
  DEF Prepare, JournalInv, SavesInv, PublishedInv, PublishedWasSaved, shard, legacy,
      delivery, history
<1>6. CleanupInv'
  BY DEF Prepare, JournalInv, TypeOK, CleanupInv, RunInv, Goto, At, Idle, shard, legacy,
      delivery, history
<1>7. PublishedWasSaved'
  BY JournalAssumption DEF Prepare, JournalInv, TypeOK, SavesInv, PublishedWasSaved,
      Goto, At, JournalRow, Events, shard, legacy, delivery, history
<1>8. NothingIsLost'
  BY JournalAssumption DEF Prepare, JournalInv, TypeOK, SavesInv, RunInv, RowsInv,
      NothingIsLost, InOutbox, InJournal, Settled, Saving, Call, JournalRow, OutboxRow,
      Idle, Goto, At, Events, shard, legacy, delivery, history
<1> QED
  BY <1>1, <1>2, <1>3, <1>4, <1>5, <1>6, <1>7, <1>8 DEF JournalInv

\* A save commits only while its row is still in the journal.
LEMMA CommitKeeps ==
    ASSUME JournalInv, NEW p \in Routers, Commit(p)
    PROVE  JournalInv'
<1>1. TypeOK'
  <2>1. [Idle EXCEPT !.at = "read"] \in Call
    BY DEF JournalInv, TypeOK, Idle, Call
  <2>2. call' \in [Routers -> Call]
    BY <2>1 DEF Commit, JournalInv, TypeOK, Goto
  <2>3. call[p].save \in Saves
    BY DEF Commit, JournalInv, TypeOK, SavesInv, Saving, At
  <2> QED
    BY <2>2, <2>3 DEF Commit, JournalInv, TypeOK, shard, legacy, delivery, history
<1>2. SavesInv'
  BY DEF Commit, JournalInv, TypeOK, SavesInv, Saving, Call, JournalRow, Idle, Goto, At,
      shard, legacy, delivery, history
<1>3. RunInv'
  BY DEF Commit, JournalInv, TypeOK, SavesInv, RunInv, NothingIsLost, Settled, InOutbox,
      InJournal, Saving, Call, JournalRow, OutboxRow, Idle, Goto, At, shard, legacy,
      delivery, history
<1>4. RowsInv'
  BY DEF Commit, JournalInv, TypeOK, RowsInv, Call, OutboxRow, Idle, Goto, At, shard,
      legacy, delivery, history
<1>5. PublishedInv'
  BY JournalAssumption DEF Commit, JournalInv, TypeOK, SavesInv, PublishedInv,
      JournalRow, Goto, At, Idle, Call, shard, legacy, delivery, history
<1>6. CleanupInv'
  BY DEF Commit, JournalInv, TypeOK, CleanupInv, RunInv, Goto, At, Idle, shard, legacy,
      delivery, history
<1>7. PublishedWasSaved'
  BY JournalAssumption DEF Commit, JournalInv, TypeOK, SavesInv, PublishedWasSaved,
      Goto, At, JournalRow, Events, shard, legacy, delivery, history
<1>8. NothingIsLost'
  BY JournalAssumption DEF Commit, JournalInv, TypeOK, SavesInv, RunInv, RowsInv,
      NothingIsLost, InOutbox, InJournal, Settled, Saving, Call, JournalRow, OutboxRow,
      Idle, Goto, At, Events, shard, legacy, delivery, history
<1> QED
  BY <1>1, <1>2, <1>3, <1>4, <1>5, <1>6, <1>7, <1>8 DEF JournalInv

\* A save without an event only moves the revision on.
LEMMA Save_planner_runKeeps ==
    ASSUME JournalInv, NEW p \in Routers, Save_planner_run(p)
    PROVE  JournalInv'
<1>1. TypeOK'
  BY DEF Save_planner_run, JournalInv, TypeOK, legacy, delivery
<1>2. SavesInv'
  BY DEF Save_planner_run, JournalInv, SavesInv, Saving, legacy, delivery
<1>3. RunInv'
  BY DEF Save_planner_run, JournalInv, TypeOK, RunInv, Call, Settled, InOutbox,
      InJournal, legacy, delivery
<1>4. RowsInv' /\ PublishedInv' /\ PublishedWasSaved'
  BY DEF Save_planner_run, JournalInv, RowsInv, PublishedInv, PublishedWasSaved, legacy,
      delivery
<1>5. CleanupInv'
  BY DEF Save_planner_run, JournalInv, TypeOK, CleanupInv, legacy
<1>6. NothingIsLost'
  BY DEF Save_planner_run, JournalInv, NothingIsLost, InOutbox, InJournal, legacy
<1> QED
  BY <1>1, <1>2, <1>3, <1>4, <1>5, <1>6 DEF JournalInv

\* A lost race only moves the call.
LEMMA ConflictKeeps ==
    ASSUME JournalInv, NEW p \in Routers, Conflict(p)
    PROVE  JournalInv'
<1>1. TypeOK'
  BY JournalAssumption DEF Conflict, JournalInv, TypeOK, Call, JournalRow, OutboxRow,
      Idle, Goto, At, Events, shard, legacy, delivery, history
<1>2. SavesInv'
  BY DEF Conflict, JournalInv, TypeOK, SavesInv, Saving, Call, JournalRow, Idle, Goto,
      At, shard, legacy, delivery, history
<1>3. RunInv'
  BY DEF Conflict, JournalInv, TypeOK, SavesInv, RunInv, NothingIsLost, Settled,
      InOutbox, InJournal, Saving, Call, JournalRow, OutboxRow, Idle, Goto, At, shard,
      legacy, delivery, history
<1>4. RowsInv'
  BY DEF Conflict, JournalInv, TypeOK, RowsInv, Call, OutboxRow, Idle, Goto, At, shard,
      legacy, delivery, history
<1>5. PublishedInv'
  BY JournalAssumption DEF Conflict, JournalInv, TypeOK, SavesInv, PublishedInv,
      JournalRow, Goto, At, Idle, Call, shard, legacy, delivery, history
<1>6. CleanupInv'
  BY DEF Conflict, JournalInv, TypeOK, CleanupInv, RunInv, Goto, At, Idle, shard,
      legacy, delivery, history
<1>7. PublishedWasSaved'
  BY JournalAssumption DEF Conflict, JournalInv, TypeOK, SavesInv, PublishedWasSaved,
      Goto, At, JournalRow, Events, shard, legacy, delivery, history
<1>8. NothingIsLost'
  BY JournalAssumption DEF Conflict, JournalInv, TypeOK, SavesInv, RunInv, RowsInv,
      NothingIsLost, InOutbox, InJournal, Settled, Saving, Call, JournalRow, OutboxRow,
      Idle, Goto, At, Events, shard, legacy, delivery, history
<1> QED
  BY <1>1, <1>2, <1>3, <1>4, <1>5, <1>6, <1>7, <1>8 DEF JournalInv

\* A lost race drops its own row, which no committed save has.
LEMMA DiscardKeeps ==
    ASSUME JournalInv, NEW p \in Routers, Discard(p)
    PROVE  JournalInv'
<1>1. TypeOK'
  <2>1. call' \in [Routers -> Call]
    BY DEF Discard, JournalInv, TypeOK, Goto, Idle, Call
  <2>2. journal' \subseteq JournalRow /\ IsFiniteSet(journal')
    BY FS_Subset DEF Discard, JournalInv, TypeOK
  <2> QED
    BY <2>1, <2>2 DEF Discard, JournalInv, TypeOK, shard, legacy, delivery, history
<1>2. SavesInv'
  BY DEF Discard, JournalInv, TypeOK, SavesInv, Saving, Call, JournalRow, Idle, Goto,
      At, shard, legacy, delivery, history
<1>3. RunInv'
  BY DEF Discard, JournalInv, TypeOK, SavesInv, RunInv, NothingIsLost, Settled,
      InOutbox, InJournal, Saving, Call, JournalRow, OutboxRow, Idle, Goto, At, shard,
      legacy, delivery, history
<1>4. RowsInv'
  BY DEF Discard, JournalInv, TypeOK, RowsInv, Call, OutboxRow, Idle, Goto, At, shard,
      legacy, delivery, history
<1>5. PublishedInv'
  BY JournalAssumption DEF Discard, JournalInv, TypeOK, SavesInv, PublishedInv,
      JournalRow, Goto, At, Idle, Call, shard, legacy, delivery, history
<1>6. CleanupInv'
  BY DEF Discard, JournalInv, TypeOK, CleanupInv, RunInv, Goto, At, Idle, shard, legacy,
      delivery, history
<1>7. PublishedWasSaved'
  BY JournalAssumption DEF Discard, JournalInv, TypeOK, SavesInv, PublishedWasSaved,
      Goto, At, JournalRow, Events, shard, legacy, delivery, history
<1>8. NothingIsLost'
  BY JournalAssumption DEF Discard, JournalInv, TypeOK, SavesInv, RunInv, RowsInv,
      NothingIsLost, InOutbox, InJournal, Settled, Saving, Call, JournalRow, OutboxRow,
      Idle, Goto, At, Events, shard, legacy, delivery, history
<1> QED
  BY <1>1, <1>2, <1>3, <1>4, <1>5, <1>6, <1>7, <1>8 DEF JournalInv

\* A snapshot is taken of one state of the shard.
LEMMA Planner_wake_receiptsKeeps ==
    ASSUME JournalInv, NEW p \in Routers, Planner_wake_receipts(p)
    PROVE  JournalInv'
<1>1. TypeOK'
  <2>1. [call[p] EXCEPT !.at = "materialize", !.rev = rev, !.seen = receipts] \in Call
    BY DEF JournalInv, TypeOK, Idle, Call
  <2>2. call' \in [Routers -> Call]
    BY <2>1 DEF Planner_wake_receipts, JournalInv, TypeOK, Goto
  <2> QED
    BY <2>2 DEF Planner_wake_receipts, JournalInv, TypeOK, shard, legacy, delivery, history
<1>2. SavesInv'
  BY DEF Planner_wake_receipts, JournalInv, TypeOK, SavesInv, Saving, Call, JournalRow,
      Idle, Goto, At, shard, legacy, delivery, history
<1>3. RunInv'
  BY DEF Planner_wake_receipts, JournalInv, TypeOK, SavesInv, RunInv, NothingIsLost,
      Settled, InOutbox, InJournal, Saving, Call, JournalRow, OutboxRow, Idle, Goto, At,
      shard, legacy, delivery, history
<1>4. RowsInv'
  BY DEF Planner_wake_receipts, JournalInv, TypeOK, RowsInv, Call, OutboxRow, Idle,
      Goto, At, shard, legacy, delivery, history
<1>5. PublishedInv'
  BY JournalAssumption DEF Planner_wake_receipts, JournalInv, TypeOK, SavesInv,
      PublishedInv, JournalRow, Goto, At, Idle, Call, shard, legacy, delivery, history
<1>6. CleanupInv'
  BY DEF Planner_wake_receipts, JournalInv, TypeOK, CleanupInv, RunInv, Goto, At, Idle,
      shard, legacy, delivery, history
<1>7. PublishedWasSaved'
  BY JournalAssumption DEF Planner_wake_receipts, JournalInv, TypeOK, SavesInv,
      PublishedWasSaved, Goto, At, JournalRow, Events, shard, legacy, delivery, history
<1>8. NothingIsLost'
  BY JournalAssumption DEF Planner_wake_receipts, JournalInv, TypeOK, SavesInv, RunInv,
      RowsInv, NothingIsLost, InOutbox, InJournal, Settled, Saving, Call, JournalRow,
      OutboxRow, Idle, Goto, At, Events, shard, legacy, delivery, history
<1> QED
  BY <1>1, <1>2, <1>3, <1>4, <1>5, <1>6, <1>7, <1>8 DEF JournalInv

\* Publishing moves the receipted rows and keeps every row that may still commit.
LEMMA Materialize_planner_wakesKeeps ==
    ASSUME JournalInv, NEW p \in Routers, Materialize_planner_wakes(p)
    PROVE  JournalInv'
<1>1. TypeOK'
  <2>1. [call[p] EXCEPT !.at = "forget"] \in Call
    BY DEF JournalInv, TypeOK, Call
  <2>2. call' \in [Routers -> Call]
    BY <2>1 DEF Materialize_planner_wakes, JournalInv, TypeOK, Goto
  <2>3. Cardinality(Receipted(p)) \in Nat
    BY ReceiptedFinite
  <2>4. PICK ids \in FreshIds(Receipted(p)) :
          outbox' = outbox \cup {[id |-> ids[j], event |-> j.save] : j \in Receipted(p)}
    BY DEF Materialize_planner_wakes
  <2>5. \A j \in Receipted(p) : [id |-> ids[j], event |-> j.save] \in OutboxRow
    BY <2>3, <2>4 DEF FreshIds, JournalInv, TypeOK, Receipted, OutboxRow, JournalRow, Events
  <2>6. outbox' \subseteq OutboxRow
    BY <2>4, <2>5 DEF JournalInv, TypeOK
  <2>7. /\ journal' \subseteq JournalRow /\ IsFiniteSet(journal')
        /\ published' \subseteq Events
    BY FS_Subset DEF Materialize_planner_wakes, JournalLeft, Undecided, Receipted,
        JournalInv, TypeOK, JournalRow, Events
  <2>8. sequence' \in Nat
    BY <2>3 DEF Materialize_planner_wakes, JournalInv, TypeOK
  <2> QED
    BY <2>2, <2>6, <2>7, <2>8 DEF Materialize_planner_wakes, JournalInv, TypeOK, shard,
        legacy, delivery, history
<1>2. SavesInv'
  BY DEF Materialize_planner_wakes, Receipted, Undecided, JournalLeft, FreshIds,
      JournalInv, TypeOK, SavesInv, Saving, Call, JournalRow, Idle, Goto, At, shard,
      legacy, delivery, history
<1>3. RunInv'
  <2>1. \A s : InOutbox(s) => InOutbox(s)'
    BY DEF Materialize_planner_wakes, InOutbox
  <2>2. \A j \in Receipted(p) : InOutbox(j.save)'
    <3>1. PICK ids \in FreshIds(Receipted(p)) :
            outbox' = outbox \cup {[id |-> ids[j], event |-> j.save] : j \in Receipted(p)}
      BY DEF Materialize_planner_wakes
    <3>2. \A j \in Receipted(p) : [id |-> ids[j], event |-> j.save] \in outbox'
      BY <3>1
    <3> QED
      BY <3>2 DEF InOutbox
  <2>3. \A s : Settled(s) => Settled(s)'
    BY <2>1 DEF Materialize_planner_wakes, Settled
  <2> SUFFICES ASSUME ~removed PROVE RunInv'
    BY DEF Materialize_planner_wakes, RunInv
  <2>4. journal' \subseteq journal
    BY DEF Materialize_planner_wakes, JournalLeft, Undecided
  <2>5. \A s \in call[p].seen : Settled(s)'
    <3> SUFFICES ASSUME NEW s \in call[p].seen PROVE Settled(s)'
      OBVIOUS
    <3>1. CASE Settled(s)
      BY <2>3, <3>1
    <3>2. CASE InJournal(s)
      <4>1. PICK j \in journal : j.save = s
        BY <3>2 DEF InJournal
      <4> QED
        BY <2>2, <4>1 DEF Receipted, Settled
    <3> QED
      BY <3>1, <3>2 DEF JournalInv, SavesInv, NothingIsLost, Settled
  <2>6. ASSUME NEW q \in Routers, call[q].at = "commit", InJournal(call[q].save),
               \A k \in journal' : k.save # call[q].save
        PROVE  rev > call[q].rev
    <3>1. PICK j \in journal : j.save = call[q].save
      BY <2>6 DEF InJournal
    <3>2. j \notin journal'
      BY <2>6, <3>1
    <3>3. j.save \notin committed /\ j.rev = call[q].rev + 1
      BY <2>6, <3>1 DEF JournalInv, SavesInv, Saving
    <3>4. j.save \notin call[p].seen
      BY <3>3 DEF JournalInv, SavesInv
    <3>5. ~(j.rev > call[p].rev)
      BY <3>1, <3>2, <3>4 DEF Materialize_planner_wakes, JournalLeft, Undecided
    <3>6. call[p].rev <= rev /\ rev \in Nat /\ call[p].rev \in Nat /\ call[q].rev \in Nat
      BY DEF Materialize_planner_wakes, At, JournalInv, RunInv, TypeOK, Call
    <3> QED
      BY <3>3, <3>5, <3>6
  <2>7. /\ call'[p].at = "forget" /\ call'[p].seen = call[p].seen
        /\ \A q \in Routers \ {p} : call'[q] = call[q]
    BY DEF Materialize_planner_wakes, JournalInv, TypeOK, Goto, Call
  <2> QED
    BY <2>3, <2>4, <2>5, <2>6, <2>7 DEF Materialize_planner_wakes, JournalInv, RunInv,
        InJournal, shard
<1>4. RowsInv'
  <2>1. Cardinality(Receipted(p)) \in Nat
    BY ReceiptedFinite
  <2>2. PICK ids \in FreshIds(Receipted(p)) :
          outbox' = outbox \cup {[id |-> ids[j], event |-> j.save] : j \in Receipted(p)}
    BY DEF Materialize_planner_wakes
  <2>3. /\ \A j \in Receipted(p) : ids[j] \in Nat /\ ids[j] > sequence /\ ids[j] <= sequence'
        /\ \A j, k \in Receipted(p) : ids[j] = ids[k] => j = k
        /\ sequence' \in Nat /\ sequence' >= sequence
    BY <2>1, <2>2 DEF FreshIds, Materialize_planner_wakes, JournalInv, TypeOK
  <2>4. /\ \A o \in outbox : o.id \in Nat /\ o.id <= sequence
        /\ \A q \in Routers : \A o \in batch[q] : o.id \in Nat /\ o.id <= sequence
        /\ \A q \in Routers : \A i \in done[q] : i \in Nat /\ i <= sequence
        /\ sequence \in Nat
    BY DEF JournalInv, TypeOK, RowsInv, OutboxRow
  <2>5. \A o \in outbox' : \/ o \in outbox
                           \/ /\ o.id > sequence /\ o.id <= sequence' /\ o.id \in Nat
                              /\ \E j \in Receipted(p) : o = [id |-> ids[j], event |-> j.save]
    BY <2>2, <2>3
  <2>6. \A o \in outbox' : o.id <= sequence'
    BY <2>3, <2>4, <2>5
  <2>7. \A o, n \in outbox' : o.id = n.id => o = n
    <3> SUFFICES ASSUME NEW o \in outbox', NEW n \in outbox', o.id = n.id PROVE o = n
      OBVIOUS
    <3>1. CASE o \in outbox /\ n \in outbox
      BY <3>1 DEF JournalInv, RowsInv
    <3>2. CASE o \notin outbox /\ n \notin outbox
      BY <2>3, <2>5, <3>2
    <3> QED
      BY <2>4, <2>5, <3>1, <3>2
  <2>8. /\ \A q \in Routers : \A o \in batch[q] :
                o.id <= sequence' /\ \A n \in outbox' : o.id = n.id => o = n
        /\ \A q \in Routers : \A i \in done[q] :
                i <= sequence' /\ \A n \in outbox' : i = n.id => n.event \in accepted
    BY <2>3, <2>4, <2>5 DEF JournalInv, RowsInv
  <2> QED
    BY <2>6, <2>7, <2>8 DEF Materialize_planner_wakes, RowsInv, delivery
<1>5. PublishedInv'
  BY JournalAssumption DEF Materialize_planner_wakes, Receipted, Undecided, JournalLeft,
      FreshIds, JournalInv, TypeOK, SavesInv, PublishedInv, JournalRow, Goto, At, Idle,
      Call, shard, legacy, delivery, history
<1>6. CleanupInv'
  BY DEF Materialize_planner_wakes, Receipted, Undecided, JournalLeft, FreshIds,
      JournalInv, TypeOK, CleanupInv, RunInv, Goto, At, Idle, shard, legacy, delivery,
      history
<1>7. PublishedWasSaved'
  BY JournalAssumption DEF Materialize_planner_wakes, Receipted, Undecided, JournalLeft,
      FreshIds, JournalInv, TypeOK, SavesInv, PublishedWasSaved, Goto, At, JournalRow,
      Events, shard, legacy, delivery, history
<1>8. NothingIsLost'
  <2>1. \A s : InOutbox(s) => InOutbox(s)'
    BY DEF Materialize_planner_wakes, InOutbox
  <2>2. \A j \in Receipted(p) : InOutbox(j.save)'
    <3>1. PICK ids \in FreshIds(Receipted(p)) :
            outbox' = outbox \cup {[id |-> ids[j], event |-> j.save] : j \in Receipted(p)}
      BY DEF Materialize_planner_wakes
    <3>2. \A j \in Receipted(p) : [id |-> ids[j], event |-> j.save] \in outbox'
      BY <3>1
    <3> QED
      BY <3>2 DEF InOutbox
  <2>3. ASSUME ~removed, NEW s \in receipts, InJournal(s)
        PROVE  InOutbox(s)' \/ InJournal(s)'
    <3>1. PICK j \in journal : j.save = s
      BY <2>3 DEF InJournal
    <3>2. CASE s \in call[p].seen
      BY <2>2, <3>1, <3>2 DEF Receipted
    <3>3. CASE s \notin call[p].seen
      <4>1. j \in journal'
        BY <2>3, <3>1, <3>3 DEF Materialize_planner_wakes, JournalLeft, Undecided, At,
            JournalInv, RunInv
      <4> QED
        BY <3>1, <4>1 DEF InJournal
    <3> QED
      BY <3>2, <3>3
  <2> QED
    BY <2>1, <2>3 DEF Materialize_planner_wakes, JournalInv, NothingIsLost, shard
<1> QED
  BY <1>1, <1>2, <1>3, <1>4, <1>5, <1>6, <1>7, <1>8 DEF JournalInv

\* The receipts that go are of events that are settled.
LEMMA Remove_planner_wake_receiptsKeeps ==
    ASSUME JournalInv, NEW p \in Routers, Remove_planner_wake_receipts(p)
    PROVE  JournalInv'
<1>1. TypeOK'
  BY JournalAssumption DEF Remove_planner_wake_receipts, Forgotten, JournalInv, TypeOK,
      Call, JournalRow, OutboxRow, Idle, Goto, At, Events, shard, legacy, delivery,
      history
<1>2. SavesInv'
  BY DEF Remove_planner_wake_receipts, Forgotten, JournalInv, TypeOK, SavesInv, Saving,
      Call, JournalRow, Idle, Goto, At, shard, legacy, delivery, history
<1>3. RunInv'
  BY DEF Remove_planner_wake_receipts, Forgotten, JournalInv, TypeOK, SavesInv, RunInv,
      NothingIsLost, Settled, InOutbox, InJournal, Saving, Call, JournalRow, OutboxRow,
      Idle, Goto, At, shard, legacy, delivery, history
<1>4. RowsInv'
  BY DEF Remove_planner_wake_receipts, Forgotten, JournalInv, TypeOK, RowsInv, Call,
      OutboxRow, Idle, Goto, At, shard, legacy, delivery, history
<1>5. PublishedInv'
  BY JournalAssumption DEF Remove_planner_wake_receipts, Forgotten, JournalInv, TypeOK,
      SavesInv, PublishedInv, JournalRow, Goto, At, Idle, Call, shard, legacy, delivery,
      history
<1>6. CleanupInv'
  BY DEF Remove_planner_wake_receipts, Forgotten, JournalInv, TypeOK, CleanupInv,
      RunInv, Goto, At, Idle, shard, legacy, delivery, history
<1>7. PublishedWasSaved'
  BY JournalAssumption DEF Remove_planner_wake_receipts, Forgotten, JournalInv, TypeOK,
      SavesInv, PublishedWasSaved, Goto, At, JournalRow, Events, shard, legacy,
      delivery, history
<1>8. NothingIsLost'
  BY JournalAssumption DEF Remove_planner_wake_receipts, Forgotten, JournalInv, TypeOK,
      SavesInv, RunInv, RowsInv, NothingIsLost, InOutbox, InJournal, Settled, Saving,
      Call, JournalRow, OutboxRow, Idle, Goto, At, Events, shard, legacy, delivery,
      history
<1> QED
  BY <1>1, <1>2, <1>3, <1>4, <1>5, <1>6, <1>7, <1>8 DEF JournalInv

\* A deletion is announced only for a run that was saved.
LEMMA Prepare_planner_cleanupKeeps ==
    ASSUME JournalInv, NEW p \in Routers, NEW expected \in Revisions \ {0},
           Prepare_planner_cleanup(p, expected)
    PROVE  JournalInv'
<1>1. TypeOK'
  <2>0. expected \in Nat
    BY DEF Revisions
  <2>1. [Idle EXCEPT !.at = "unlink", !.rev = expected] \in Call
    BY <2>0 DEF JournalInv, TypeOK, Idle, Call
  <2>2. call' \in [Routers -> Call]
    BY <2>1 DEF Prepare_planner_cleanup, JournalInv, TypeOK, Goto
  <2> QED
    BY <2>2, Zenon DEF Prepare_planner_cleanup, JournalInv, TypeOK, shard, legacy,
        delivery, history
<1>2. SavesInv'
  BY DEF Prepare_planner_cleanup, JournalInv, TypeOK, SavesInv, Saving, Call,
      JournalRow, Idle, Goto, At, shard, legacy, delivery, history
<1>3. RunInv'
  BY DEF Prepare_planner_cleanup, JournalInv, TypeOK, SavesInv, RunInv, NothingIsLost,
      Settled, InOutbox, InJournal, Saving, Call, JournalRow, OutboxRow, Idle, Goto, At,
      shard, legacy, delivery, history
<1>4. RowsInv'
  BY DEF Prepare_planner_cleanup, JournalInv, TypeOK, RowsInv, Call, OutboxRow, Idle,
      Goto, At, shard, legacy, delivery, history
<1>5. PublishedInv'
  BY JournalAssumption DEF Prepare_planner_cleanup, JournalInv, TypeOK, SavesInv,
      PublishedInv, JournalRow, Goto, At, Idle, Call, shard, legacy, delivery, history
<1>6. CleanupInv'
  <2>1. committed # {} \/ plain > 0
    BY FS_EmptySet DEF Revisions, JournalInv, TypeOK
  <2> QED
    BY <2>1 DEF Prepare_planner_cleanup, CleanupInv, shard, legacy, delivery, history
<1>7. PublishedWasSaved'
  BY JournalAssumption DEF Prepare_planner_cleanup, JournalInv, TypeOK, SavesInv,
      PublishedWasSaved, Goto, At, JournalRow, Events, shard, legacy, delivery, history
<1>8. NothingIsLost'
  BY JournalAssumption DEF Prepare_planner_cleanup, JournalInv, TypeOK, SavesInv,
      RunInv, RowsInv, NothingIsLost, InOutbox, InJournal, Settled, Saving, Call,
      JournalRow, OutboxRow, Idle, Goto, At, Events, shard, legacy, delivery, history
<1> QED
  BY <1>1, <1>2, <1>3, <1>4, <1>5, <1>6, <1>7, <1>8 DEF JournalInv

\* The deletion of the run ends what the journal promises.
LEMMA Remove_planner_sessionKeeps ==
    ASSUME JournalInv, NEW p \in Routers, Remove_planner_session(p)
    PROVE  JournalInv'
<1>1. TypeOK'
  <2>1. [Idle EXCEPT !.at = "finish"] \in Call /\ Idle \in Call
    BY DEF Idle, Call
  <2>2. call' \in [Routers -> Call]
    BY <2>1 DEF Remove_planner_session, JournalInv, TypeOK, Goto
  <2>3. removed' \in BOOLEAN
    BY Zenon DEF Remove_planner_session, JournalInv, TypeOK
  <2>4. rev' \in Nat /\ receipts' \subseteq Saves
    BY DEF Remove_planner_session, JournalInv, TypeOK, shard
  <2> QED
    BY <2>2, <2>3, <2>4 DEF Remove_planner_session, JournalInv, TypeOK, shard, legacy,
        delivery, history
<1>2. SavesInv'
  BY DEF Remove_planner_session, JournalInv, TypeOK, SavesInv, Saving, Call, JournalRow,
      Idle, Goto, At, shard, legacy, delivery, history
<1>3. RunInv'
  <2>1. CASE removed'
    BY <2>1 DEF RunInv
  <2>2. CASE ~removed'
    <3>1. /\ UNCHANGED <<rev, receipts, removed, journal, outbox, accepted, expired,
                       committed, plain>>
          /\ call' = [call EXCEPT ![p] = Idle]
      BY <2>2 DEF Remove_planner_session, Goto, shard, legacy, delivery, history
    <3> QED
      BY <3>1 DEF JournalInv, TypeOK, RunInv, Settled, InOutbox, InJournal, Idle
  <2> QED
    BY <2>1, <2>2
<1>4. RowsInv'
  BY DEF Remove_planner_session, JournalInv, TypeOK, RowsInv, Call, OutboxRow, Idle,
      Goto, At, shard, legacy, delivery, history
<1>5. PublishedInv'
  BY JournalAssumption DEF Remove_planner_session, JournalInv, TypeOK, SavesInv,
      PublishedInv, JournalRow, Goto, At, Idle, Call, shard, legacy, delivery, history
<1>6. CleanupInv'
  BY DEF Remove_planner_session, JournalInv, TypeOK, CleanupInv, RunInv, Goto, At, Idle,
      shard, legacy, delivery, history
<1>7. PublishedWasSaved'
  BY JournalAssumption DEF Remove_planner_session, JournalInv, TypeOK, SavesInv,
      PublishedWasSaved, Goto, At, JournalRow, Events, shard, legacy, delivery, history
<1>8. NothingIsLost'
  BY JournalAssumption DEF Remove_planner_session, JournalInv, TypeOK, SavesInv, RunInv,
      RowsInv, NothingIsLost, InOutbox, InJournal, Settled, Saving, Call, JournalRow,
      OutboxRow, Idle, Goto, At, Events, shard, legacy, delivery, history
<1> QED
  BY <1>1, <1>2, <1>3, <1>4, <1>5, <1>6, <1>7, <1>8 DEF JournalInv

\* The journal is emptied only once the run is gone.
LEMMA Finish_planner_cleanupKeeps ==
    ASSUME JournalInv, NEW p \in Routers, Finish_planner_cleanup(p)
    PROVE  JournalInv'
<1>1. TypeOK'
  <2>1. [call[p] EXCEPT !.at = "poll"] \in Call /\ Idle \in Call
    BY DEF JournalInv, TypeOK, Idle, Call
  <2>2. call' \in [Routers -> Call]
    BY <2>1 DEF Finish_planner_cleanup, JournalInv, TypeOK, Goto
  <2>3. cleanup' \in BOOLEAN
    BY Zenon DEF Finish_planner_cleanup
  <2>4. IsFiniteSet(journal')
    BY FS_EmptySet DEF Finish_planner_cleanup
  <2> QED
    BY <2>2, <2>3, <2>4 DEF Finish_planner_cleanup, JournalInv, TypeOK, shard, legacy,
        delivery, history
<1>2. SavesInv'
  BY DEF Finish_planner_cleanup, JournalInv, TypeOK, SavesInv, Saving, Call, JournalRow,
      Idle, Goto, At, shard, legacy, delivery, history
<1>3. RunInv'
  BY DEF Finish_planner_cleanup, JournalInv, TypeOK, SavesInv, RunInv, NothingIsLost,
      Settled, InOutbox, InJournal, Saving, Call, JournalRow, OutboxRow, Idle, Goto, At,
      shard, legacy, delivery, history
<1>4. RowsInv'
  BY DEF Finish_planner_cleanup, JournalInv, TypeOK, RowsInv, Call, OutboxRow, Idle,
      Goto, At, shard, legacy, delivery, history
<1>5. PublishedInv'
  BY JournalAssumption DEF Finish_planner_cleanup, JournalInv, TypeOK, SavesInv,
      PublishedInv, JournalRow, Goto, At, Idle, Call, shard, legacy, delivery, history
<1>6. CleanupInv'
  BY DEF Finish_planner_cleanup, JournalInv, TypeOK, CleanupInv, RunInv, Goto, At, Idle,
      shard, legacy, delivery, history
<1>7. PublishedWasSaved'
  BY JournalAssumption DEF Finish_planner_cleanup, JournalInv, TypeOK, SavesInv,
      PublishedWasSaved, Goto, At, JournalRow, Events, shard, legacy, delivery, history
<1>8. NothingIsLost'
  BY JournalAssumption DEF Finish_planner_cleanup, JournalInv, TypeOK, SavesInv, RunInv,
      RowsInv, NothingIsLost, InOutbox, InJournal, Settled, Saving, Call, JournalRow,
      OutboxRow, Idle, Goto, At, Events, shard, legacy, delivery, history
<1> QED
  BY <1>1, <1>2, <1>3, <1>4, <1>5, <1>6, <1>7, <1>8 DEF JournalInv

\* A poll begins.
LEMMA Outbox_pendingKeeps ==
    ASSUME JournalInv, NEW p \in Routers, Outbox_pending(p)
    PROVE  JournalInv'
<1>1. TypeOK'
  BY JournalAssumption DEF Outbox_pending, JournalInv, TypeOK, Call, JournalRow,
      OutboxRow, Idle, Goto, At, Events, shard, legacy, delivery, history
<1>2. SavesInv'
  BY DEF Outbox_pending, JournalInv, TypeOK, SavesInv, Saving, Call, JournalRow, Idle,
      Goto, At, shard, legacy, delivery, history
<1>3. RunInv'
  BY DEF Outbox_pending, JournalInv, TypeOK, SavesInv, RunInv, NothingIsLost, Settled,
      InOutbox, InJournal, Saving, Call, JournalRow, OutboxRow, Idle, Goto, At, shard,
      legacy, delivery, history
<1>4. RowsInv'
  BY DEF Outbox_pending, JournalInv, TypeOK, RowsInv, Call, OutboxRow, Idle, Goto, At,
      shard, legacy, delivery, history
<1>5. PublishedInv'
  BY JournalAssumption DEF Outbox_pending, JournalInv, TypeOK, SavesInv, PublishedInv,
      JournalRow, Goto, At, Idle, Call, shard, legacy, delivery, history
<1>6. CleanupInv'
  BY DEF Outbox_pending, JournalInv, TypeOK, CleanupInv, RunInv, Goto, At, Idle, shard,
      legacy, delivery, history
<1>7. PublishedWasSaved'
  BY JournalAssumption DEF Outbox_pending, JournalInv, TypeOK, SavesInv,
      PublishedWasSaved, Goto, At, JournalRow, Events, shard, legacy, delivery, history
<1>8. NothingIsLost'
  BY JournalAssumption DEF Outbox_pending, JournalInv, TypeOK, SavesInv, RunInv,
      RowsInv, NothingIsLost, InOutbox, InJournal, Settled, Saving, Call, JournalRow,
      OutboxRow, Idle, Goto, At, Events, shard, legacy, delivery, history
<1> QED
  BY <1>1, <1>2, <1>3, <1>4, <1>5, <1>6, <1>7, <1>8 DEF JournalInv

\* A poll finishes the cleanup of a run that is gone.
LEMMA Reconcile_cleanupKeeps ==
    ASSUME JournalInv, NEW p \in Routers, Reconcile_cleanup(p)
    PROVE  JournalInv'
<1>1. TypeOK'
  BY JournalAssumption DEF Reconcile_cleanup, JournalInv, TypeOK, Call, JournalRow,
      OutboxRow, Idle, Goto, At, Events, shard, legacy, delivery, history
<1>2. SavesInv'
  BY DEF Reconcile_cleanup, JournalInv, TypeOK, SavesInv, Saving, Call, JournalRow,
      Idle, Goto, At, shard, legacy, delivery, history
<1>3. RunInv'
  <2>1. cleanup /\ rev = 0 => removed
    BY DEF JournalInv, RunInv, CleanupInv
  <2>2. removed => RunInv'
    BY DEF Reconcile_cleanup, RunInv, history
  <2>3. ASSUME ~removed
        PROVE  call' = [call EXCEPT ![p] = [call[p] EXCEPT !.at = "poll"]]
    BY <2>1, <2>3 DEF Reconcile_cleanup, Goto
  <2> QED
    BY <2>2, <2>3
    DEF Reconcile_cleanup, JournalInv, TypeOK, Call, RunInv, Settled, InOutbox,
        InJournal, shard, legacy, delivery, history
<1>4. RowsInv'
  BY DEF Reconcile_cleanup, JournalInv, TypeOK, RowsInv, Call, OutboxRow, Idle, Goto,
      At, shard, legacy, delivery, history
<1>5. PublishedInv'
  BY JournalAssumption DEF Reconcile_cleanup, JournalInv, TypeOK, SavesInv,
      PublishedInv, JournalRow, Goto, At, Idle, Call, shard, legacy, delivery, history
<1>6. CleanupInv'
  BY DEF Reconcile_cleanup, JournalInv, TypeOK, CleanupInv, RunInv, Goto, At, Idle,
      shard, legacy, delivery, history
<1>7. PublishedWasSaved'
  BY JournalAssumption DEF Reconcile_cleanup, JournalInv, TypeOK, SavesInv,
      PublishedWasSaved, Goto, At, JournalRow, Events, shard, legacy, delivery, history
<1>8. NothingIsLost'
  BY JournalAssumption DEF Reconcile_cleanup, JournalInv, TypeOK, SavesInv, RunInv,
      RowsInv, NothingIsLost, InOutbox, InJournal, Settled, Saving, Call, JournalRow,
      OutboxRow, Idle, Goto, At, Events, shard, legacy, delivery, history
<1> QED
  BY <1>1, <1>2, <1>3, <1>4, <1>5, <1>6, <1>7, <1>8 DEF JournalInv

\* A poll reads rows of the outbox.
LEMMA PollKeeps ==
    ASSUME JournalInv, NEW p \in Routers, Poll(p)
    PROVE  JournalInv'
<1>1. TypeOK'
  BY JournalAssumption DEF Poll, Pending, JournalInv, TypeOK, Call, JournalRow,
      OutboxRow, Idle, Goto, At, Events, shard, legacy, delivery, history
<1>2. SavesInv'
  BY DEF Poll, Pending, JournalInv, TypeOK, SavesInv, Saving, Call, JournalRow, Idle,
      Goto, At, shard, legacy, delivery, history
<1>3. RunInv'
  BY DEF Poll, Pending, JournalInv, TypeOK, SavesInv, RunInv, NothingIsLost, Settled,
      InOutbox, InJournal, Saving, Call, JournalRow, OutboxRow, Idle, Goto, At, shard,
      legacy, delivery, history
<1>4. RowsInv'
  BY DEF Poll, Pending, JournalInv, TypeOK, RowsInv, Call, OutboxRow, Idle, Goto, At,
      shard, legacy, delivery, history
<1>5. PublishedInv'
  BY JournalAssumption DEF Poll, Pending, JournalInv, TypeOK, SavesInv, PublishedInv,
      JournalRow, Goto, At, Idle, Call, shard, legacy, delivery, history
<1>6. CleanupInv'
  BY DEF Poll, Pending, JournalInv, TypeOK, CleanupInv, RunInv, Goto, At, Idle, shard,
      legacy, delivery, history
<1>7. PublishedWasSaved'
  BY JournalAssumption DEF Poll, Pending, JournalInv, TypeOK, SavesInv,
      PublishedWasSaved, Goto, At, JournalRow, Events, shard, legacy, delivery, history
<1>8. NothingIsLost'
  BY JournalAssumption DEF Poll, Pending, JournalInv, TypeOK, SavesInv, RunInv, RowsInv,
      NothingIsLost, InOutbox, InJournal, Settled, Saving, Call, JournalRow, OutboxRow,
      Idle, Goto, At, Events, shard, legacy, delivery, history
<1> QED
  BY <1>1, <1>2, <1>3, <1>4, <1>5, <1>6, <1>7, <1>8 DEF JournalInv

\* A queued event gets an id that no row has had.
LEMMA DeliverKeeps ==
    ASSUME JournalInv, NEW p \in Routers, NEW e \in Direct, Deliver(p, e)
    PROVE  JournalInv'
<1>1. TypeOK'
  BY JournalAssumption DEF Deliver, OutboxId, JournalInv, TypeOK, Call, JournalRow,
      OutboxRow, Idle, Goto, At, Events, shard, legacy, delivery, history
<1>2. SavesInv'
  BY DEF Deliver, OutboxId, JournalInv, TypeOK, SavesInv, Saving, Call, JournalRow,
      Idle, Goto, At, shard, legacy, delivery, history
<1>3. RunInv'
  BY DEF Deliver, OutboxId, JournalInv, TypeOK, SavesInv, RunInv, NothingIsLost,
      Settled, InOutbox, InJournal, Saving, Call, JournalRow, OutboxRow, Idle, Goto, At,
      shard, legacy, delivery, history
<1>4. RowsInv'
  BY DEF Deliver, OutboxId, JournalInv, TypeOK, RowsInv, Call, OutboxRow, Idle, Goto,
      At, shard, legacy, delivery, history
<1>5. PublishedInv'
  BY JournalAssumption DEF Deliver, OutboxId, JournalInv, TypeOK, SavesInv,
      PublishedInv, JournalRow, Goto, At, Idle, Call, shard, legacy, delivery, history
<1>6. CleanupInv'
  BY DEF Deliver, OutboxId, JournalInv, TypeOK, CleanupInv, RunInv, Goto, At, Idle,
      shard, legacy, delivery, history
<1>7. PublishedWasSaved'
  BY JournalAssumption DEF Deliver, OutboxId, JournalInv, TypeOK, SavesInv,
      PublishedWasSaved, Goto, At, JournalRow, Events, shard, legacy, delivery, history
<1>8. NothingIsLost'
  <2>1. /\ [id |-> OutboxId, event |-> e] \in outbox'
        /\ outbox \subseteq outbox'
    BY DEF Deliver
  <2>2. InOutbox(e)' /\ \A f : InOutbox(f) => InOutbox(f)'
    BY <2>1 DEF InOutbox
  <2> QED
    BY <2>2 DEF Deliver, JournalInv, NothingIsLost, InJournal, shard, legacy, delivery,
        history
<1> QED
  BY <1>1, <1>2, <1>3, <1>4, <1>5, <1>6, <1>7, <1>8 DEF JournalInv

\* What the host accepts may be deleted.
LEMMA AcceptKeeps ==
    ASSUME JournalInv, NEW p \in Routers, NEW o, Accept(p, o)
    PROVE  JournalInv'
<1>1. TypeOK'
  BY JournalAssumption DEF Accept, JournalInv, TypeOK, Call, JournalRow, OutboxRow,
      Idle, Goto, At, Events, shard, legacy, delivery, history
<1>2. SavesInv'
  BY DEF Accept, JournalInv, TypeOK, SavesInv, Saving, Call, JournalRow, Idle, Goto, At,
      shard, legacy, delivery, history
<1>3. RunInv'
  BY DEF Accept, JournalInv, TypeOK, SavesInv, RunInv, NothingIsLost, Settled, InOutbox,
      InJournal, Saving, Call, JournalRow, OutboxRow, Idle, Goto, At, shard, legacy,
      delivery, history
<1>4. RowsInv'
  BY DEF Accept, JournalInv, TypeOK, RowsInv, Call, OutboxRow, Idle, Goto, At, shard,
      legacy, delivery, history
<1>5. PublishedInv'
  BY JournalAssumption DEF Accept, JournalInv, TypeOK, SavesInv, PublishedInv,
      JournalRow, Goto, At, Idle, Call, shard, legacy, delivery, history
<1>6. CleanupInv'
  BY DEF Accept, JournalInv, TypeOK, CleanupInv, RunInv, Goto, At, Idle, shard, legacy,
      delivery, history
<1>7. PublishedWasSaved'
  BY JournalAssumption DEF Accept, JournalInv, TypeOK, SavesInv, PublishedWasSaved,
      Goto, At, JournalRow, Events, shard, legacy, delivery, history
<1>8. NothingIsLost'
  BY JournalAssumption DEF Accept, JournalInv, TypeOK, SavesInv, RunInv, RowsInv,
      NothingIsLost, InOutbox, InJournal, Settled, Saving, Call, JournalRow, OutboxRow,
      Idle, Goto, At, Events, shard, legacy, delivery, history
<1> QED
  BY <1>1, <1>2, <1>3, <1>4, <1>5, <1>6, <1>7, <1>8 DEF JournalInv

\* What the host refuses stays.
LEMMA Outbox_attemptedKeeps ==
    ASSUME JournalInv, NEW p \in Routers, NEW o, Outbox_attempted(p, o)
    PROVE  JournalInv'
<1>1. TypeOK'
  BY JournalAssumption DEF Outbox_attempted, JournalInv, TypeOK, Call, JournalRow,
      OutboxRow, Idle, Goto, At, Events, shard, legacy, delivery, history
<1>2. SavesInv'
  BY DEF Outbox_attempted, JournalInv, TypeOK, SavesInv, Saving, Call, JournalRow, Idle,
      Goto, At, shard, legacy, delivery, history
<1>3. RunInv'
  BY DEF Outbox_attempted, JournalInv, TypeOK, SavesInv, RunInv, NothingIsLost, Settled,
      InOutbox, InJournal, Saving, Call, JournalRow, OutboxRow, Idle, Goto, At, shard,
      legacy, delivery, history
<1>4. RowsInv'
  BY DEF Outbox_attempted, JournalInv, TypeOK, RowsInv, Call, OutboxRow, Idle, Goto, At,
      shard, legacy, delivery, history
<1>5. PublishedInv'
  BY JournalAssumption DEF Outbox_attempted, JournalInv, TypeOK, SavesInv, PublishedInv,
      JournalRow, Goto, At, Idle, Call, shard, legacy, delivery, history
<1>6. CleanupInv'
  BY DEF Outbox_attempted, JournalInv, TypeOK, CleanupInv, RunInv, Goto, At, Idle,
      shard, legacy, delivery, history
<1>7. PublishedWasSaved'
  BY JournalAssumption DEF Outbox_attempted, JournalInv, TypeOK, SavesInv,
      PublishedWasSaved, Goto, At, JournalRow, Events, shard, legacy, delivery, history
<1>8. NothingIsLost'
  BY JournalAssumption DEF Outbox_attempted, JournalInv, TypeOK, SavesInv, RunInv,
      RowsInv, NothingIsLost, InOutbox, InJournal, Settled, Saving, Call, JournalRow,
      OutboxRow, Idle, Goto, At, Events, shard, legacy, delivery, history
<1> QED
  BY <1>1, <1>2, <1>3, <1>4, <1>5, <1>6, <1>7, <1>8 DEF JournalInv

\* Deleting by id deletes the accepted event and no other.
LEMMA Outbox_doneKeeps ==
    ASSUME JournalInv, NEW p \in Routers, NEW id, Outbox_done(p, id)
    PROVE  JournalInv'
<1>1. TypeOK'
  BY JournalAssumption DEF Outbox_done, JournalInv, TypeOK, Call, JournalRow, OutboxRow,
      Idle, Goto, At, Events, shard, legacy, delivery, history
<1>2. SavesInv'
  BY DEF Outbox_done, JournalInv, TypeOK, SavesInv, Saving, Call, JournalRow, Idle,
      Goto, At, shard, legacy, delivery, history
<1>3. RunInv'
  <2>1. \A f : Settled(f) => Settled(f)'
    BY DEF Outbox_done, JournalInv, RowsInv, Settled, InOutbox, shard, legacy, delivery,
        history
  <2> QED
    BY <2>1 DEF Outbox_done, JournalInv, RunInv, InJournal, shard, legacy, delivery, history
<1>4. RowsInv'
  BY DEF Outbox_done, JournalInv, TypeOK, RowsInv, Call, OutboxRow, Idle, Goto, At,
      shard, legacy, delivery, history
<1>5. PublishedInv'
  BY JournalAssumption DEF Outbox_done, JournalInv, TypeOK, SavesInv, PublishedInv,
      JournalRow, Goto, At, Idle, Call, shard, legacy, delivery, history
<1>6. CleanupInv'
  BY DEF Outbox_done, JournalInv, TypeOK, CleanupInv, RunInv, Goto, At, Idle, shard,
      legacy, delivery, history
<1>7. PublishedWasSaved'
  BY JournalAssumption DEF Outbox_done, JournalInv, TypeOK, SavesInv, PublishedWasSaved,
      Goto, At, JournalRow, Events, shard, legacy, delivery, history
<1>8. NothingIsLost'
  BY JournalAssumption DEF Outbox_done, JournalInv, TypeOK, SavesInv, RunInv, RowsInv,
      NothingIsLost, InOutbox, InJournal, Settled, Saving, Call, JournalRow, OutboxRow,
      Idle, Goto, At, Events, shard, legacy, delivery, history
<1> QED
  BY <1>1, <1>2, <1>3, <1>4, <1>5, <1>6, <1>7, <1>8 DEF JournalInv

\* Expiry settles what it drops.
LEMMA Prune_expiredKeeps ==
    ASSUME JournalInv, NEW id \in Nat, Prune_expired(id)
    PROVE  JournalInv'
<1>1. TypeOK'
  BY JournalAssumption DEF Prune_expired, JournalInv, TypeOK, Call, JournalRow,
      OutboxRow, Idle, Goto, At, Events, shard, legacy, delivery, history
<1>2. SavesInv'
  BY DEF Prune_expired, JournalInv, TypeOK, SavesInv, Saving, Call, JournalRow, Idle,
      Goto, At, shard, legacy, delivery, history
<1>3. RunInv'
  BY DEF Prune_expired, JournalInv, TypeOK, SavesInv, RunInv, NothingIsLost, Settled,
      InOutbox, InJournal, Saving, Call, JournalRow, OutboxRow, Idle, Goto, At, shard,
      legacy, delivery, history
<1>4. RowsInv'
  BY DEF Prune_expired, JournalInv, TypeOK, RowsInv, Call, OutboxRow, Idle, Goto, At,
      shard, legacy, delivery, history
<1>5. PublishedInv'
  BY JournalAssumption DEF Prune_expired, JournalInv, TypeOK, SavesInv, PublishedInv,
      JournalRow, Goto, At, Idle, Call, shard, legacy, delivery, history
<1>6. CleanupInv'
  BY DEF Prune_expired, JournalInv, TypeOK, CleanupInv, RunInv, Goto, At, Idle, shard,
      legacy, delivery, history
<1>7. PublishedWasSaved'
  BY JournalAssumption DEF Prune_expired, JournalInv, TypeOK, SavesInv,
      PublishedWasSaved, Goto, At, JournalRow, Events, shard, legacy, delivery, history
<1>8. NothingIsLost'
  BY JournalAssumption DEF Prune_expired, JournalInv, TypeOK, SavesInv, RunInv, RowsInv,
      NothingIsLost, InOutbox, InJournal, Settled, Saving, Call, JournalRow, OutboxRow,
      Idle, Goto, At, Events, shard, legacy, delivery, history
<1> QED
  BY <1>1, <1>2, <1>3, <1>4, <1>5, <1>6, <1>7, <1>8 DEF JournalInv

\* A death forgets a call and changes no file.
LEMMA DiesKeeps ==
    ASSUME JournalInv, NEW p \in Routers, Dies(p)
    PROVE  JournalInv'
<1>1. TypeOK'
  BY JournalAssumption DEF Dies, JournalInv, TypeOK, Call, JournalRow, OutboxRow, Idle,
      Goto, At, Events, shard, legacy, delivery, history
<1>2. SavesInv'
  BY DEF Dies, JournalInv, TypeOK, SavesInv, Saving, Call, JournalRow, Idle, Goto, At,
      shard, legacy, delivery, history
<1>3. RunInv'
  BY DEF Dies, JournalInv, TypeOK, SavesInv, RunInv, NothingIsLost, Settled, InOutbox,
      InJournal, Saving, Call, JournalRow, OutboxRow, Idle, Goto, At, shard, legacy,
      delivery, history
<1>4. RowsInv'
  BY DEF Dies, JournalInv, TypeOK, RowsInv, Call, OutboxRow, Idle, Goto, At, shard,
      legacy, delivery, history
<1>5. PublishedInv'
  BY JournalAssumption DEF Dies, JournalInv, TypeOK, SavesInv, PublishedInv, JournalRow,
      Goto, At, Idle, Call, shard, legacy, delivery, history
<1>6. CleanupInv'
  BY DEF Dies, JournalInv, TypeOK, CleanupInv, RunInv, Goto, At, Idle, shard, legacy,
      delivery, history
<1>7. PublishedWasSaved'
  BY JournalAssumption DEF Dies, JournalInv, TypeOK, SavesInv, PublishedWasSaved, Goto,
      At, JournalRow, Events, shard, legacy, delivery, history
<1>8. NothingIsLost'
  BY JournalAssumption DEF Dies, JournalInv, TypeOK, SavesInv, RunInv, RowsInv,
      NothingIsLost, InOutbox, InJournal, Settled, Saving, Call, JournalRow, OutboxRow,
      Idle, Goto, At, Events, shard, legacy, delivery, history
<1> QED
  BY <1>1, <1>2, <1>3, <1>4, <1>5, <1>6, <1>7, <1>8 DEF JournalInv

------------------------------------------------------------------------------

\* JournalInv holds initially and is kept by every step: every transaction of
\* a save, of a publisher and of a deletion, deliveries, expiry and deaths.
THEOREM JournalInvariant == Spec => []JournalInv
<1>1. Init => JournalInv
  <2> SUFFICES ASSUME Init PROVE JournalInv
    OBVIOUS
  <2>1. Idle \in Call
    BY DEF Idle, Call
  <2>2. cleanup \in BOOLEAN /\ removed \in BOOLEAN
    BY Zenon DEF Init
  <2>3. TypeOK
    BY <2>1, <2>2, FS_EmptySet DEF Init, TypeOK
  <2>4. SavesInv /\ RunInv
    BY DEF Init, SavesInv, RunInv, Saving, Idle
  <2>5. RowsInv /\ PublishedInv /\ CleanupInv /\ PublishedWasSaved /\ NothingIsLost
    BY DEF Init, RowsInv, PublishedInv, CleanupInv, PublishedWasSaved, NothingIsLost
  <2> QED
    BY <2>3, <2>4, <2>5 DEF JournalInv
<1>2. JournalInv /\ [Next]_vars => JournalInv'
  <2> SUFFICES ASSUME JournalInv, [Next]_vars PROVE JournalInv'
    OBVIOUS
  <2>1. CASE UNCHANGED vars
    BY <2>1 DEF vars, JournalInv, TypeOK, SavesInv, RunInv, RowsInv, PublishedInv,
        CleanupInv,
        PublishedWasSaved, NothingIsLost, Saving, Settled, InOutbox, InJournal, shard, legacy,
        delivery, history
  <2>2. ASSUME NEW p \in Routers, NEW s \in Saves, NEW expected \in Revisions,
               Prepare(p, s, expected)
        PROVE  JournalInv'
    <3>1. expected \in Nat
      BY DEF Revisions
    <3> QED
      BY <2>2, <3>1, PrepareKeeps
  <2>3. ASSUME NEW p \in Routers, Step(p)
        PROVE  JournalInv'
    BY <2>3, CommitKeeps, ConflictKeeps, DiscardKeeps, Planner_wake_receiptsKeeps,
       Materialize_planner_wakesKeeps, Remove_planner_wake_receiptsKeeps,
       Remove_planner_sessionKeeps, Finish_planner_cleanupKeeps, Reconcile_cleanupKeeps,
       PollKeeps
    DEF Step
  <2>4. ASSUME NEW o \in outbox, Prune_expired(o.id)
        PROVE  JournalInv'
    <3>1. o.id \in Nat
      BY DEF JournalInv, TypeOK, OutboxRow
    <3> QED
      BY <2>4, <3>1, Prune_expiredKeeps
  <2>5. ASSUME NEW p \in Crashers, Dies(p)
        PROVE  JournalInv'
    BY <2>5, JournalAssumption, DiesKeeps
  <2> QED
    BY <2>1, <2>2, <2>3, <2>4, <2>5, Prepare_planner_cleanupKeeps, Outbox_pendingKeeps,
       Save_planner_runKeeps, DeliverKeeps, AcceptKeeps, Outbox_attemptedKeeps,
       Outbox_doneKeeps
    DEF Next
<1> QED
  BY <1>1, <1>2, PTL DEF Spec

\* The host never hears of a save that did not happen.
THEOREM Published == Spec => []PublishedWasSaved
<1>1. JournalInv => PublishedWasSaved
  BY DEF JournalInv
<1> QED
  BY <1>1, JournalInvariant, PTL

\* No death and no race loses the event of a save that happened while its run
\* exists, nor an event that was queued.
THEOREM Kept == Spec => []NothingIsLost
<1>1. JournalInv => NothingIsLost
  BY DEF JournalInv
<1> QED
  BY <1>1, JournalInvariant, PTL

\* No event enters the outbox twice.
THEOREM Once == Spec => PublishedOnce
<1> DEFINE New == \A o \in outbox' \ outbox : o.event \notin published
<1>1. JournalInv /\ [Next]_vars => [New]_vars
  <2> SUFFICES ASSUME JournalInv, Next PROVE New
    OBVIOUS
  <2>1. ASSUME NEW p \in Routers, Materialize_planner_wakes(p)
        PROVE  New
    BY <2>1 DEF Materialize_planner_wakes, Receipted, JournalInv, PublishedInv
  <2>2. ASSUME NEW p \in Routers, NEW e \in Direct, Deliver(p, e)
        PROVE  New
    BY <2>2 DEF Deliver, JournalInv, PublishedInv
  <2>3. ASSUME NEW p \in Routers, Step(p), ~Materialize_planner_wakes(p)
        PROVE  outbox' = outbox
    BY <2>3
    DEF Step, Commit, Conflict, Discard, Planner_wake_receipts,
        Remove_planner_wake_receipts,
        Remove_planner_session, Finish_planner_cleanup, Reconcile_cleanup, Poll, legacy
  <2>4. ASSUME ~\E p \in Routers : Step(p),
               ~\E p \in Routers : \E e \in Direct : Deliver(p, e)
        PROVE  outbox' \subseteq outbox
    BY <2>4
    DEF Next, Prepare, Save_planner_run, Prepare_planner_cleanup, Outbox_pending, Accept,
        Outbox_attempted,
        Outbox_done, Prune_expired, Dies, legacy
  <2> QED
    BY <2>1, <2>2, <2>3, <2>4
<1> QED
  BY <1>1, JournalInvariant, PTL DEF Spec, PublishedOnce

------------------------------------------------------------------------------
(* The outbox of WakeDelivery is implemented *)

\* What the mapping rests on: a save has one row in the journal, an event one
\* row in the outbox, and what was published stays there until it is settled.
DeliveryInv ==
    /\ \A j, k \in journal : j.save = k.save => j = k
    /\ \A o \in outbox : o.event \in published
    /\ \A o, n \in outbox : o.event = n.event => o = n
    /\ \A p \in Routers : \A o \in batch[p] : o.event \in published
    /\ \A e \in published : Settled(e)
    /\ accepted \cup expired \subseteq published
    /\ queued \subseteq published

\* Only the transaction that publishes and a direct delivery add to the outbox.
LEMMA DeliveryInvariant == Spec => []DeliveryInv
<1>1. Init => DeliveryInv
  BY DEF Init, DeliveryInv
<1>2. JournalInv /\ DeliveryInv /\ [Next]_vars => DeliveryInv'
  <2> SUFFICES ASSUME JournalInv, DeliveryInv, [Next]_vars PROVE DeliveryInv'
    OBVIOUS
  <2>1. CASE UNCHANGED vars
    BY <2>1 DEF vars, DeliveryInv, Settled, InOutbox, legacy, delivery, history
  <2>2. ASSUME NEW p \in Routers, NEW s \in Saves, NEW expected \in Revisions,
               Prepare(p, s, expected)
        PROVE  DeliveryInv'
    BY <2>2 DEF Prepare, DeliveryInv, JournalInv, SavesInv, Settled, InOutbox, delivery
  <2>3. ASSUME NEW p \in Routers, Materialize_planner_wakes(p)
        PROVE  DeliveryInv'
    <3>1. PICK ids \in FreshIds(Receipted(p)) :
            outbox' = outbox \cup {[id |-> ids[j], event |-> j.save] : j \in Receipted(p)}
      BY <2>3 DEF Materialize_planner_wakes
    <3>2. \A j \in Receipted(p) :
             [id |-> ids[j], event |-> j.save] \in outbox' /\ j.save \in published'
      BY <2>3, <3>1 DEF Materialize_planner_wakes
    <3>3. \A j \in Receipted(p) : j \in journal /\ j.save \notin published
      BY DEF Receipted, JournalInv, PublishedInv
    <3>4. /\ journal' \subseteq journal
          /\ published' = published \cup {j.save : j \in Receipted(p)}
          /\ UNCHANGED <<batch, accepted, expired, queued>>
      BY <2>3
      DEF Materialize_planner_wakes, JournalLeft, Undecided, delivery
    <3>5. \A o \in outbox' : \/ o \in outbox
                             \/ \E j \in Receipted(p) : o = [id |-> ids[j], event |-> j.save]
      BY <3>1
    <3>6. \A o, n \in outbox' : o.event = n.event => o = n
      <4> SUFFICES ASSUME NEW o \in outbox', NEW n \in outbox', o.event = n.event
                   PROVE  o = n
        OBVIOUS
      <4>1. CASE o \in outbox /\ n \in outbox
        BY <4>1 DEF DeliveryInv
      <4>2. CASE o \notin outbox /\ n \notin outbox
        BY <3>3, <3>5, <4>2 DEF DeliveryInv
      <4>3. CASE (o \in outbox) # (n \in outbox)
        BY <3>3, <3>5, <4>3 DEF DeliveryInv
      <4> QED
        BY <4>1, <4>2, <4>3
    <3>7. \A e \in published' : Settled(e)'
      <4>1. \A e : Settled(e) => Settled(e)'
        BY <3>1, <3>4 DEF Settled, InOutbox
      <4>2. \A j \in Receipted(p) : Settled(j.save)'
        BY <3>2 DEF Settled, InOutbox
      <4> QED
        BY <3>4, <4>1, <4>2 DEF DeliveryInv
    <3> QED
      BY <3>2, <3>4, <3>5, <3>6, <3>7 DEF DeliveryInv
  <2>4. ASSUME NEW p \in Routers, NEW e \in Direct, Deliver(p, e)
        PROVE  DeliveryInv'
    <3>1. e \notin published
      BY <2>4 DEF Deliver, JournalInv, PublishedInv
    <3> DEFINE row == [id |-> OutboxId, event |-> e]
    <3>2. /\ outbox' = outbox \cup {row}
          /\ published' = published \cup {e} /\ queued' = queued \cup {e}
          /\ UNCHANGED <<journal, accepted, expired>>
          /\ \A q \in Routers : batch'[q] \subseteq batch[q] \cup {row}
      BY <2>4 DEF Deliver, JournalInv, TypeOK
    <3>3. row.event = e
      OBVIOUS
    <3>4. \A x : Settled(x) => Settled(x)'
      BY <3>2 DEF Settled, InOutbox
    <3>5. Settled(e)'
      BY <3>2, <3>3 DEF Settled, InOutbox
    <3> HIDE DEF row
    <3> QED
      BY <3>1, <3>2, <3>3, <3>4, <3>5 DEF DeliveryInv
  <2>5. ASSUME NEW p \in Routers, NEW o \in batch[p], Accept(p, o)
        PROVE  DeliveryInv'
    BY <2>5 DEF Accept, JournalInv, TypeOK, DeliveryInv, Settled, InOutbox, legacy
  <2>6. ASSUME NEW p \in Routers, NEW id \in done[p], Outbox_done(p, id)
        PROVE  DeliveryInv'
    <3>1. \A o \in outbox \ outbox' : o.event \in accepted
      BY <2>6 DEF Outbox_done, JournalInv, RowsInv
    <3> QED
      BY <2>6, <3>1 DEF Outbox_done, DeliveryInv, Settled, InOutbox, history
  <2>7. ASSUME NEW id, Prune_expired(id)
        PROVE  DeliveryInv'
    BY <2>7 DEF Prune_expired, DeliveryInv, Settled, InOutbox, delivery
  <2>8. ASSUME NEW p \in Routers, Step(p), ~Materialize_planner_wakes(p)
        PROVE  DeliveryInv'
    <3>1. /\ journal' \subseteq journal
          /\ UNCHANGED <<outbox, published, accepted, expired, queued>>
      BY <2>8
      DEF Step, Commit, Conflict, Discard, Planner_wake_receipts,
          Remove_planner_wake_receipts, Remove_planner_session, Finish_planner_cleanup,
          Reconcile_cleanup, Poll, legacy, history
    <3>2. \A q \in Routers : batch'[q] \subseteq batch[q] \cup outbox
      BY <2>8
      DEF Step, Commit, Conflict, Discard, Planner_wake_receipts,
          Remove_planner_wake_receipts, Remove_planner_session, Finish_planner_cleanup,
          Reconcile_cleanup, Poll, Pending, delivery, JournalInv, TypeOK
    <3> QED
      BY <3>1, <3>2 DEF DeliveryInv, Settled, InOutbox
  <2>9. ASSUME NEW p \in Routers, \/ Save_planner_run(p)
                                  \/ Outbox_pending(p)
                                  \/ \E expected \in Revisions \ {0} :
                                        Prepare_planner_cleanup(p, expected)
                                  \/ \E o \in batch[p] : Outbox_attempted(p, o)
                                  \/ Dies(p)
        PROVE  DeliveryInv'
    <3>1. UNCHANGED <<journal, outbox, published, accepted, expired, queued>>
      BY <2>9
      DEF Save_planner_run, Outbox_pending, Prepare_planner_cleanup, Outbox_attempted,
          Dies, legacy, history
    <3>2. \A q \in Routers : batch'[q] \subseteq batch[q]
      BY <2>9
      DEF Save_planner_run, Outbox_pending, Prepare_planner_cleanup, Outbox_attempted,
          Dies, delivery, JournalInv, TypeOK
    <3> QED
      BY <3>1, <3>2 DEF DeliveryInv, Settled, InOutbox
  <2> QED
    BY <2>1, <2>2, <2>3, <2>4, <2>5, <2>6, <2>7, <2>8, <2>9, JournalAssumption DEF Next
<1> QED
  BY <1>1, <1>2, JournalInvariant, PTL DEF Spec

\* Where an event is, without the cases that never occur.
Place(e) ==
    IF InOutbox(e) THEN "queued"
    ELSE IF e \in published THEN "settled"
    ELSE IF e \notin committed THEN "none"
    ELSE IF InJournal(e) THEN "owed" ELSE "dropped"

\* No event is lost or queued twice.
LEMMA PlaceIsWhereabouts == DeliveryInv => \A e : Whereabouts(e) = Place(e)
<1> SUFFICES ASSUME DeliveryInv, NEW e PROVE Whereabouts(e) = Place(e)
  OBVIOUS
<1>1. CASE InOutbox(e)
  <2>1. PICK o \in outbox : o.event = e
    BY <1>1 DEF InOutbox
  <2>2. Rows(e) = {o}
    BY <2>1 DEF Rows, DeliveryInv
  <2> QED
    BY <1>1, <2>1, <2>2 DEF Whereabouts, Place
<1>2. CASE ~InOutbox(e)
  <2>1. Rows(e) = {} /\ ~\E o \in outbox : Rows(e) = {o}
    BY <1>2 DEF Rows, InOutbox
  <2>2. e \in published => e \in accepted \cup expired
    BY <1>2 DEF DeliveryInv, Settled
  <2>3. CASE e \in published
    BY <1>2, <2>1, <2>2, <2>3 DEF Whereabouts, Place
  <2>4. CASE e \notin published
    BY <1>2, <2>1, <2>4 DEF Whereabouts, Place
  <2> QED
    BY <2>3, <2>4
<1> QED
  BY <1>1, <1>2

Placed == \A e \in Events : Whereabouts(e) = Place(e)

\* A step that leaves every event where it is.
LEMMA StepStutters ==
    ASSUME Placed, Placed', UNCHANGED removed, \A e \in Events : Place(e)' = Place(e)
    PROVE  UNCHANGED <<[e \in Events |-> Whereabouts(e)], removed>>
BY DEF Placed

\* A step that raises one event.
LEMMA StepRaises ==
    ASSUME Placed, Placed', UNCHANGED removed,
           NEW x \in Events, Place(x) = "none",
           \/ x \in Saves /\ Place(x)' = "owed"
           \/ x \notin Saves /\ Place(x)' = "queued"
           \/ removed /\ Place(x)' = "dropped",
           \A e \in Events \ {x} : Place(e)' = Place(e)
    PROVE  Outbox!Raise
<1>1. x \in Outbox!In("none")
  BY DEF Placed, Outbox!In
<1>2. \A where : Place(x)' = where => Outbox!Move({x}, where)
  BY DEF Placed, Outbox!Move
<1> QED
  BY <1>1, <1>2 DEF Outbox!Raise

\* A step that queues what was owed, or drops it if the run is gone.
LEMMA StepPublishes ==
    ASSUME Placed, Placed', UNCHANGED removed,
           \A e \in Events : \/ Place(e)' = Place(e)
                             \/ Place(e) = "owed" /\ Place(e)' = "queued"
                             \/ removed /\ Place(e) = "owed" /\ Place(e)' = "dropped"
    PROVE  Outbox!Publish
<1> DEFINE S == {e \in Events : Place(e) = "owed" /\ Place(e)' = "queued"}
           D == {e \in Events : Place(e) = "owed" /\ Place(e)' = "dropped"}
<1>1. S \in SUBSET Outbox!In("owed") /\ D \in SUBSET Outbox!In("owed")
  BY DEF Placed, Outbox!In
<1>2. removed \/ D = {}
  OBVIOUS
<1>3. [e \in Events |-> Whereabouts(e)]' =
        [e \in Events |-> CASE e \in S -> "queued"
                            [] e \in D \ S -> "dropped"
                            [] OTHER -> [x \in Events |-> Whereabouts(x)][e]]
  <2> SUFFICES ASSUME NEW e \in Events
               PROVE  Whereabouts(e)' = CASE e \in S -> "queued"
                                          [] e \in D \ S -> "dropped"
                                          [] OTHER -> Whereabouts(e)
    OBVIOUS
  <2>1. Whereabouts(e) = Place(e) /\ Whereabouts(e)' = Place(e)'
    BY DEF Placed
  <2> QED
    BY <2>1
<1> HIDE DEF S, D
<1> QED
  BY <1>1, <1>2, <1>3 DEF Outbox!Publish

\* A step that settles what was queued.
LEMMA StepSettles ==
    ASSUME Placed, Placed', UNCHANGED removed,
           \A e \in Events : \/ Place(e)' = Place(e)
                             \/ Place(e) = "queued" /\ Place(e)' = "settled"
    PROVE  Outbox!Settle
<1> DEFINE S == {e \in Events : Place(e) = "queued" /\ Place(e)' = "settled"}
<1>1. S \in SUBSET Outbox!In("queued")
  BY DEF Placed, Outbox!In
<1>2. Outbox!Move(S, "settled")
  BY DEF Placed, Outbox!Move
<1> QED
  BY <1>1, <1>2 DEF Outbox!Settle

\* Every step of the journal maps to one of the outbox or leaves it alone.
LEMMA StepImplements ==
    ASSUME JournalInv, DeliveryInv, DeliveryInv', Placed, Placed', [Next]_vars
    PROVE  [Outbox!Next]_<<[e \in Events |-> Whereabouts(e)], removed>>
<1> DEFINE Implemented == [Outbox!Next]_<<[e \in Events |-> Whereabouts(e)], removed>>
<1> USE DEF Place
<1>1. ASSUME UNCHANGED <<outbox, published, committed, journal, removed>>
      PROVE  Implemented
  <2>1. \A e \in Events : Place(e)' = Place(e)
    BY <1>1 DEF InOutbox, InJournal
  <2> QED
    BY <1>1, <2>1, StepStutters
<1>2. CASE UNCHANGED vars
  BY <1>1, <1>2 DEF vars, legacy, history
<1>3. ASSUME NEW p \in Routers, NEW s \in Saves, NEW expected \in Revisions,
             Prepare(p, s, expected)
      PROVE  Implemented
  <2>1. \A e \in Events : Place(e)' = Place(e)
    BY <1>3 DEF Prepare, JournalInv, SavesInv, InOutbox, InJournal
  <2> QED
    BY <1>3, <2>1, StepStutters DEF Prepare
<1>4. ASSUME NEW p \in Routers, Commit(p)
      PROVE  Implemented
  <2>0. PICK s : s = call[p].save
    OBVIOUS
  <2>1. s \in Saves /\ s \notin committed
    BY <1>4, <2>0 DEF Commit, At, JournalInv, TypeOK, SavesInv, Saving
  <2>2. s \notin published /\ ~InOutbox(s)
    BY <2>1, JournalAssumption
    DEF JournalInv, PublishedWasSaved, DeliveryInv, InOutbox
  <2>3. InJournal(s) \/ removed
    BY <1>4, <2>0 DEF Commit, At, JournalInv, TypeOK, RunInv, Call
  <2>4. /\ committed' = committed \cup {s}
        /\ UNCHANGED <<outbox, published, journal, removed>>
    BY <1>4, <2>0 DEF Commit, legacy
  <2>5. Place(s) = "none" /\ Place(s)' = IF InJournal(s) THEN "owed" ELSE "dropped"
    BY <2>1, <2>2, <2>4 DEF InOutbox, InJournal
  <2>6. \A e \in Events \ {s} : Place(e)' = Place(e)
    BY <2>4 DEF InOutbox, InJournal
  <2>7. s \in Events
    BY <2>1 DEF Events
  <2>8. Outbox!Raise
    BY <2>1, <2>3, <2>4, <2>5, <2>6, <2>7, StepRaises
  <2> QED
    BY <2>8 DEF Outbox!Next
<1>5. ASSUME NEW p \in Routers, Discard(p)
      PROVE  Implemented
  <2>1. call[p].save \notin committed
    BY <1>5 DEF Discard, At, JournalInv, SavesInv, Saving
  <2>2. \A e \in committed : InJournal(e)' <=> InJournal(e)
    BY <1>5, <2>1 DEF Discard, InJournal
  <2>3. \A e \in Events : Place(e)' = Place(e)
    BY <1>5, <2>2 DEF Discard, InOutbox, history
  <2> QED
    BY <1>5, <2>3, StepStutters DEF Discard, history
<1>6. ASSUME NEW p \in Routers, Materialize_planner_wakes(p)
      PROVE  Implemented
  <2>1. PICK ids \in FreshIds(Receipted(p)) :
          outbox' = outbox \cup {[id |-> ids[j], event |-> j.save] : j \in Receipted(p)}
    BY <1>6 DEF Materialize_planner_wakes
  <2>2. /\ published' = published \cup {j.save : j \in Receipted(p)}
        /\ journal' = Undecided(p)
        /\ UNCHANGED <<committed, removed>>
    BY <1>6 DEF Materialize_planner_wakes, JournalLeft
  <2>3. \A j \in Receipted(p) : Place(j.save) = "owed" /\ Place(j.save)' = "queued"
    <3> SUFFICES ASSUME NEW j \in Receipted(p)
                 PROVE  Place(j.save) = "owed" /\ Place(j.save)' = "queued"
      OBVIOUS
    <3>1. j \in journal /\ j.save \notin published /\ j.save \in committed
      BY DEF Receipted, JournalInv, PublishedInv, SavesInv
    <3>2. ~InOutbox(j.save) /\ InJournal(j.save)
      BY <3>1 DEF InOutbox, InJournal, DeliveryInv
    <3>3. [id |-> ids[j], event |-> j.save] \in outbox'
      BY <2>1
    <3>4. InOutbox(j.save)'
      BY <3>3 DEF InOutbox
    <3> QED
      BY <3>1, <3>2, <3>4
  <2>4. ASSUME NEW e \in Events, \A j \in Receipted(p) : j.save # e
        PROVE  \/ Place(e)' = Place(e)
               \/ removed /\ Place(e) = "owed" /\ Place(e)' = "dropped"
    <3>1. InOutbox(e)' <=> InOutbox(e)
      BY <2>1, <2>4 DEF InOutbox
    <3>2. e \in published' <=> e \in published
      BY <2>2, <2>4
    <3>3. InJournal(e)' => InJournal(e)
      BY <2>2 DEF InJournal, Undecided
    <3>4. ASSUME ~removed, e \in committed, e \notin published, InJournal(e)
          PROVE  InJournal(e)'
      <4>1. e \in receipts
        BY <3>4 DEF JournalInv, NothingIsLost, DeliveryInv, InOutbox
      <4>2. PICK j \in journal : j.save = e
        BY <3>4 DEF InJournal
      <4>3. j.save \notin call[p].seen
        BY <2>4, <4>2 DEF Receipted
      <4>4. j.rev > call[p].rev
        BY <1>6, <3>4, <4>1, <4>2, <4>3 DEF Materialize_planner_wakes, At, JournalInv, RunInv
      <4>5. j \in journal'
        BY <2>2, <4>3, <4>4 DEF Undecided
      <4> QED
        BY <4>2, <4>5 DEF InJournal
    <3> QED
      BY <2>2, <3>1, <3>2, <3>3, <3>4
  <2>5. \A e \in Events : \/ Place(e)' = Place(e)
                          \/ Place(e) = "owed" /\ Place(e)' = "queued"
                          \/ removed /\ Place(e) = "owed" /\ Place(e)' = "dropped"
    BY <2>3, <2>4
  <2>6. Outbox!Publish
    BY <2>2, <2>5, StepPublishes
  <2> QED
    BY <2>6 DEF Outbox!Next
<1>7. ASSUME NEW p \in Routers, Remove_planner_session(p)
      PROVE  Implemented
  <2>1. UNCHANGED <<outbox, published, committed, journal>>
    BY <1>7 DEF Remove_planner_session, legacy
  <2>2. \A e \in Events : Place(e)' = Place(e)
    BY <2>1 DEF InOutbox, InJournal
  <2>3. CASE UNCHANGED removed
    BY <2>2, <2>3, StepStutters
  <2>4. CASE removed' = TRUE
    BY <2>2, <2>4 DEF Placed, Outbox!Delete, Outbox!Next
  <2> QED
    BY <1>7, <2>3, <2>4 DEF Remove_planner_session
<1>8. ASSUME NEW p \in Routers, Finish_planner_cleanup(p)
      PROVE  Implemented
  <2>1. removed
    BY <1>8 DEF Finish_planner_cleanup, At, JournalInv, RunInv
  <2>2. /\ UNCHANGED <<outbox, published, committed, removed>>
        /\ \A e : ~InJournal(e)'
    BY <1>8 DEF Finish_planner_cleanup, history, InJournal
  <2>3. \A e \in Events : \/ Place(e)' = Place(e)
                          \/ removed /\ Place(e) = "owed" /\ Place(e)' = "dropped"
    BY <2>1, <2>2 DEF InOutbox
  <2>4. Outbox!Publish
    BY <2>2, <2>3, StepPublishes
  <2> QED
    BY <2>4 DEF Outbox!Next
<1>9. ASSUME NEW p \in Routers, NEW x \in Direct, Deliver(p, x)
      PROVE  Implemented
  <2>1. x \in Events /\ x \notin Saves
    BY JournalAssumption DEF Events
  <2>2. x \notin published /\ ~InOutbox(x) /\ x \notin committed
    BY <1>9, <2>1 DEF Deliver, JournalInv, TypeOK, PublishedInv, DeliveryInv, InOutbox
  <2> DEFINE row == [id |-> OutboxId, event |-> x]
  <2>3. /\ outbox' = outbox \cup {row} /\ published' = published \cup {x}
        /\ UNCHANGED <<committed, journal, removed>>
        /\ row.event = x
    BY <1>9 DEF Deliver
  <2> HIDE DEF row
  <2>4. Place(x) = "none" /\ Place(x)' = "queued"
    BY <2>2, <2>3 DEF InOutbox
  <2>5. \A e \in Events \ {x} : Place(e)' = Place(e)
    BY <2>3 DEF InOutbox, InJournal
  <2>6. Outbox!Raise
    BY <2>1, <2>3, <2>4, <2>5, StepRaises
  <2> QED
    BY <2>6 DEF Outbox!Next
<1>10. ASSUME outbox' \subseteq outbox, UNCHANGED <<published, committed, journal, removed>>
       PROVE  Implemented
  <2>1. \A e \in Events : \/ Place(e)' = Place(e)
                          \/ Place(e) = "queued" /\ Place(e)' = "settled"
    BY <1>10 DEF InOutbox, InJournal, DeliveryInv
  <2>2. Outbox!Settle
    BY <1>10, <2>1, StepSettles
  <2> QED
    BY <2>2 DEF Outbox!Next
<1>11. ASSUME NEW p \in Routers, NEW id \in done[p], Outbox_done(p, id)
       PROVE  Implemented
  BY <1>10, <1>11 DEF Outbox_done, history
<1>12. ASSUME NEW id, Prune_expired(id)
       PROVE  Implemented
  BY <1>10, <1>12 DEF Prune_expired
<1>13. ASSUME NEW p \in Routers,
              \/ Conflict(p) \/ Planner_wake_receipts(p) \/ Remove_planner_wake_receipts(p)
              \/ Reconcile_cleanup(p) \/ Poll(p) \/ Save_planner_run(p) \/ Outbox_pending(p)
              \/ \E expected \in Revisions \ {0} : Prepare_planner_cleanup(p, expected)
              \/ \E o \in batch[p] : Accept(p, o) \/ Outbox_attempted(p, o)
              \/ Dies(p)
       PROVE  Implemented
  <2>1. UNCHANGED <<outbox, published, committed, journal, removed>>
    BY <1>13
    DEF Conflict, Planner_wake_receipts, Remove_planner_wake_receipts, Reconcile_cleanup,
        Poll, Save_planner_run, Outbox_pending, Prepare_planner_cleanup, Accept,
        Outbox_attempted, Dies, legacy, history
  <2> QED
    BY <1>1, <2>1
<1> HIDE DEF Implemented
<1>14. ASSUME NEW p \in Routers, Step(p)
       PROVE  Implemented
  BY <1>4, <1>5, <1>6, <1>7, <1>8, <1>13, <1>14 DEF Step
<1>15. ASSUME NEW p \in Routers,
              \/ Save_planner_run(p) \/ Outbox_pending(p)
              \/ \E expected \in Revisions \ {0} : Prepare_planner_cleanup(p, expected)
              \/ \E o \in batch[p] : Accept(p, o) \/ Outbox_attempted(p, o)
       PROVE  Implemented
  BY <1>13, <1>15
<1>16. ASSUME NEW p \in Routers, \E s \in Saves, expected \in Revisions : Prepare(p, s, expected)
       PROVE  Implemented
  BY <1>3, <1>16
<1>17. ASSUME NEW p \in Routers, \E e \in Direct : Deliver(p, e)
       PROVE  Implemented
  BY <1>9, <1>17
<1>18. ASSUME NEW p \in Routers, \E id \in done[p] : Outbox_done(p, id)
       PROVE  Implemented
  BY <1>11, <1>18
<1>19. ASSUME NEW p \in Crashers, Dies(p)
       PROVE  Implemented
  BY <1>13, <1>19, JournalAssumption
<1>20. ASSUME NEW o \in outbox, Prune_expired(o.id)
       PROVE  Implemented
  BY <1>12, <1>20
<1>21. ASSUME Next PROVE Implemented
  BY <1>14, <1>15, <1>16, <1>17, <1>18, <1>19, <1>20, <1>21 DEF Next
<1> QED
  BY <1>2, <1>21 DEF Implemented

\* The journal, the receipts and the publishers in their separate transactions
\* implement the outbox that WakeDelivery promises.
THEOREM ImplementsOutbox == Spec => DeliversOnce
<1>1. Init => Outbox!Init
  <2> SUFFICES ASSUME Init PROVE Outbox!Init
    OBVIOUS
  <2>1. \A e \in Events : Place(e) = "none"
    BY DEF Init, Place, InOutbox
  <2>2. DeliveryInv
    BY DEF Init, DeliveryInv
  <2> QED
    BY <2>1, <2>2, PlaceIsWhereabouts DEF Init, Outbox!Init
<1>2. Spec => []Placed
  <2>1. DeliveryInv => Placed
    BY PlaceIsWhereabouts DEF Placed
  <2> QED
    BY <2>1, DeliveryInvariant, PTL
<1>3. JournalInv /\ DeliveryInv /\ DeliveryInv' /\ Placed /\ Placed' /\ [Next]_vars
        => [Outbox!Next]_<<[e \in Events |-> Whereabouts(e)], removed>>
  BY StepImplements
<1> QED
  BY <1>1, <1>2, <1>3, JournalInvariant, DeliveryInvariant, PTL
  DEF Spec, DeliversOnce, Outbox!Spec
===============================================================================
