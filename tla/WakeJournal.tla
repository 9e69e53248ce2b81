----------------------------- MODULE WakeJournal -----------------------------
(***************************************************************************)
(* The wakes of one planner session on their way from the save that raised *)
(* them to the lifecycle host (state.rs, delegate_hook.rs).  The run is in *)
(* the checkout's shard, the outbox in the box-wide legacy database, and   *)
(* no transaction spans both: a save stages its event in a journal of the  *)
(* legacy file, commits the run with a receipt in the shard, and moves the *)
(* receipted rows of the journal to the outbox.  Whoever polls the outbox  *)
(* repeats that last part for a router that died in between.               *)
(*                                                                         *)
(* Each step of a call is one transaction of one file.  The state mutex    *)
(* keeps the calls of one router apart, so a router has one at a time.     *)
(***************************************************************************)
EXTENDS Integers, FiniteSets

CONSTANTS
    Saves,    \* saves that raise an event, named by their save id
    Direct,   \* events queued without a save: delegate_stop, parent_repinned
    NoSave,   \* no save
    Routers,  \* router processes that share the files
    Crashers, \* the routers that may die
    Poison,   \* the events the host never accepts
    LIMIT,    \* rows of the outbox that one poll reads
    PLAIN     \* bound: saves that raise no event

Events == Saves \cup Direct

ASSUME JournalAssumption ==
    /\ NoSave \notin Events
    /\ Saves \cap Direct = {}
    /\ IsFiniteSet(Events)
    /\ Crashers \subseteq Routers
    /\ Poison \subseteq Events
    /\ LIMIT \in Nat \ {0}
    /\ PLAIN \in Nat

VARIABLES
    rev,       \* shard: planner_runs.revision, 0 without a run
    receipts,  \* shard: planner_wake_commits
    journal,   \* legacy: planner_wake_journal
    outbox,    \* legacy: hook_outbox
    sequence,  \* legacy: the last id AUTOINCREMENT gave to hook_outbox
    cleanup,   \* legacy: the session is in planner_cleanup_journal
    call,      \* the StateStore call a router is in, and where
    batch,     \* rows a router has read and not yet handed to the host
    done,      \* ids the host accepted and the router has not yet deleted
    started,   \* history: saves that were begun
    committed, \* history: saves whose run was committed
    plain,     \* history: how many saves raised no event
    queued,    \* history: direct events that were queued
    published, \* history: events that entered the outbox
    accepted,  \* history: events the host accepted
    expired,   \* history: events that outlived the retention window
    removed    \* history: the run was deleted

shard == <<rev, receipts>>
legacy == <<journal, outbox, sequence, cleanup>>
delivery == <<batch, done>>
history == <<started, committed, plain, queued, published, accepted, expired, removed>>
vars == <<shard, legacy, call, delivery, history>>

\* A call between two transactions: `rev` is the revision it expects or read,
\* `seen` the receipts it read, `polls` whether it is an outbox poll.
Call == [at : {"idle", "commit", "discard", "read", "materialize", "forget",
               "sweep", "poll", "unlink", "finish"},
         save : Saves \cup {NoSave}, rev : Nat, seen : SUBSET Saves,
         polls : BOOLEAN]

JournalRow == [save : Saves, rev : Nat]
OutboxRow == [id : Nat, event : Events]

Idle == [at |-> "idle", save |-> NoSave, rev |-> 0, seen |-> {}, polls |-> FALSE]

TypeOK ==
    /\ rev \in Nat
    /\ receipts \subseteq Saves
    /\ journal \subseteq JournalRow /\ IsFiniteSet(journal)
    /\ outbox \subseteq OutboxRow
    /\ sequence \in Nat
    /\ cleanup \in BOOLEAN
    /\ call \in [Routers -> Call]
    /\ batch \in [Routers -> SUBSET OutboxRow]
    /\ done \in [Routers -> SUBSET Nat]
    /\ started \subseteq Saves /\ committed \subseteq Saves
    /\ plain \in Nat
    /\ queued \subseteq Direct /\ published \subseteq Events
    /\ accepted \subseteq Events /\ expired \subseteq Events
    /\ removed \in BOOLEAN

Init ==
    /\ rev = 0 /\ receipts = {}
    /\ journal = {} /\ outbox = {} /\ sequence = 0 /\ cleanup = FALSE
    /\ call = [p \in Routers |-> Idle]
    /\ batch = [p \in Routers |-> {}] /\ done = [p \in Routers |-> {}]
    /\ started = {} /\ committed = {} /\ plain = 0 /\ queued = {} /\ published = {}
    /\ accepted = {} /\ expired = {} /\ removed = FALSE

At(p, where) == call[p].at = where
Goto(p, c) == call' = [call EXCEPT ![p] = c]

------------------------------------------------------------------------------
(* A save with its wake *)

\* The caller loaded the run some time ago: the revision it expects is any one
\* the run has had.
Prepare(p, s, expected) ==
    /\ At(p, "idle")
    /\ s \notin started
    /\ journal' = journal \cup {[save |-> s, rev |-> expected + 1]}
    /\ started' = started \cup {s}
    /\ Goto(p, [Idle EXCEPT !.at = "commit", !.save = s, !.rev = expected])
    /\ UNCHANGED <<shard, outbox, sequence, cleanup, delivery, committed, plain, queued,
                   published, accepted, expired, removed>>

\* One transaction of the shard: the run and the receipt, or neither.
Commit(p) ==
    /\ At(p, "commit")
    /\ rev = call[p].rev
    /\ rev' = rev + 1
    /\ receipts' = receipts \cup {call[p].save}
    /\ committed' = committed \cup {call[p].save}
    /\ Goto(p, [Idle EXCEPT !.at = "read"])
    /\ UNCHANGED <<legacy, delivery, started, plain, queued, published, accepted,
                   expired, removed>>

Conflict(p) ==
    /\ At(p, "commit")
    /\ rev # call[p].rev
    /\ Goto(p, [call[p] EXCEPT !.at = "discard"])
    /\ UNCHANGED <<shard, legacy, delivery, history>>

Discard(p) ==
    /\ At(p, "discard")
    /\ journal' = {j \in journal : j.save # call[p].save}
    /\ Goto(p, Idle)
    /\ UNCHANGED <<shard, outbox, sequence, cleanup, delivery, history>>

\* Most saves raise no event: they move the revision on and leave no receipt.
Save_planner_run(p) ==
    /\ At(p, "idle")
    /\ plain < PLAIN
    /\ rev' = rev + 1
    /\ plain' = plain + 1
    /\ UNCHANGED <<receipts, legacy, call, delivery, started, committed, queued,
                   published, accepted, expired, removed>>

------------------------------------------------------------------------------
(* Publishing what is receipted: the end of a save, and every outbox poll *)

\* One snapshot of the shard: the revision and the receipts.
Planner_wake_receipts(p) ==
    /\ At(p, "read")
    /\ Goto(p, [call[p] EXCEPT !.at = "materialize", !.rev = rev, !.seen = receipts])
    /\ UNCHANGED <<shard, legacy, delivery, history>>

\* Mutant: the revision alone proves the save.
ReceiptedByRevision(p) == {j \in journal : j.rev <= call[p].rev}

Receipted(p) == {j \in journal : j.save \in call[p].seen}

\* Mutant: a row without a receipt is dropped.
UndecidedNever(p) == {}

\* A prepared save may still commit: its revision is not reached yet.
Undecided(p) == {j \in journal : j.save \notin call[p].seen /\ j.rev > call[p].rev}

\* Mutant: published rows stay in the journal.
JournalLeftAll(p) == Undecided(p) \cup Receipted(p)

\* What the transaction leaves in the journal: a row that lost its race, like
\* a published one, is deleted.
JournalLeft(p) == Undecided(p)

\* Fresh ids for rows of the journal, in the order of their saves.
FreshIds(rows) ==
    {ids \in [rows -> sequence + 1 .. sequence + Cardinality(rows)] :
        \A j, k \in rows : /\ j # k => ids[j] # ids[k]
                           /\ j.rev < k.rev => ids[j] < ids[k]}

\* One transaction of the legacy file.
Materialize_planner_wakes(p) ==
    /\ At(p, "materialize")
    /\ LET ready == Receipted(p)
       IN  /\ \E ids \in FreshIds(ready) :
                 outbox' = outbox \cup {[id |-> ids[j], event |-> j.save] : j \in ready}
           /\ sequence' = sequence + Cardinality(ready)
           /\ published' = published \cup {j.save : j \in ready}
    /\ journal' = JournalLeft(p)
    /\ Goto(p, [call[p] EXCEPT !.at = "forget"])
    /\ UNCHANGED <<shard, cleanup, delivery, started, committed, plain, queued, accepted,
                   expired, removed>>

\* Mutant: every receipt is removed, also one that was written since.
ForgottenAll(p) == receipts

\* The receipts a publisher removes are the ones it read.
Forgotten(p) == call[p].seen

Remove_planner_wake_receipts(p) ==
    /\ At(p, "forget")
    /\ receipts' = receipts \ Forgotten(p)
    /\ Goto(p, IF call[p].polls THEN [call[p] EXCEPT !.at = "sweep"] ELSE Idle)
    /\ UNCHANGED <<rev, legacy, delivery, history>>

------------------------------------------------------------------------------
(* Deleting the session *)

Prepare_planner_cleanup(p, expected) ==
    /\ At(p, "idle")
    /\ cleanup' = TRUE
    /\ Goto(p, [Idle EXCEPT !.at = "unlink", !.rev = expected])
    /\ UNCHANGED <<shard, journal, outbox, sequence, delivery, history>>

\* One transaction of the shard; a run that moved on refuses.
Remove_planner_session(p) ==
    /\ At(p, "unlink")
    /\ \/ /\ rev = call[p].rev
          /\ rev' = 0
          /\ receipts' = {}
          /\ removed' = TRUE
          /\ Goto(p, [Idle EXCEPT !.at = "finish"])
       \/ /\ rev # call[p].rev
          /\ Goto(p, Idle)
          /\ UNCHANGED <<shard, removed>>
    /\ UNCHANGED <<legacy, delivery, started, committed, plain, queued, published,
                   accepted, expired>>

Finish_planner_cleanup(p) ==
    /\ At(p, "finish")
    /\ journal' = {}
    /\ cleanup' = FALSE
    /\ Goto(p, IF call[p].polls THEN [call[p] EXCEPT !.at = "poll"] ELSE Idle)
    /\ UNCHANGED <<shard, outbox, sequence, delivery, history>>

------------------------------------------------------------------------------
(* The outbox *)

\* Mutant: a poll reads the outbox and nothing else.
Outbox_pendingOnly(p) ==
    /\ At(p, "idle")
    /\ batch[p] = {}
    /\ Goto(p, [Idle EXCEPT !.at = "poll", !.polls = TRUE])
    /\ UNCHANGED <<shard, legacy, delivery, history>>

\* A poll first reconciles the sessions that have rows in the journal.
Outbox_pending(p) ==
    /\ At(p, "idle")
    /\ batch[p] = {}
    /\ Goto(p, [Idle EXCEPT !.at = IF journal = {} THEN "sweep" ELSE "read",
                            !.polls = TRUE])
    /\ UNCHANGED <<shard, legacy, delivery, history>>

\* It finishes the cleanup of a session that is gone.
Reconcile_cleanup(p) ==
    /\ At(p, "sweep")
    /\ Goto(p, [call[p] EXCEPT !.at = IF cleanup /\ rev = 0 THEN "finish"
                                                            ELSE "poll"])
    /\ UNCHANGED <<shard, legacy, delivery, history>>

\* The oldest LIMIT rows.
Pending == {o \in outbox : Cardinality({n \in outbox : n.id < o.id}) < LIMIT}

Poll(p) ==
    /\ At(p, "poll")
    /\ batch' = [batch EXCEPT ![p] = @ \cup Pending]
    /\ Goto(p, Idle)
    /\ UNCHANGED <<shard, legacy, done, history>>

\* Mutant: an id is the largest one plus one, and so used again.
OutboxIdReused == Cardinality(outbox) + 1

OutboxId == sequence + 1

\* `deliver` queues an event and attempts it in a task of its own.
Deliver(p, e) ==
    /\ At(p, "idle")
    /\ e \notin queued
    /\ LET row == [id |-> OutboxId, event |-> e]
       IN  /\ outbox' = outbox \cup {row}
           /\ batch' = [batch EXCEPT ![p] = @ \cup {row}]
    /\ sequence' = sequence + 1
    /\ queued' = queued \cup {e}
    /\ published' = published \cup {e}
    /\ UNCHANGED <<shard, journal, cleanup, call, done, started, committed, plain,
                   accepted, expired, removed>>

\* The host takes the event; its row is deleted in a step of its own.
Accept(p, o) ==
    /\ o \in batch[p]
    /\ o.event \notin Poison
    /\ accepted' = accepted \cup {o.event}
    /\ batch' = [batch EXCEPT ![p] = @ \ {o}]
    /\ done' = [done EXCEPT ![p] = @ \cup {o.id}]
    /\ UNCHANGED <<shard, legacy, call, started, committed, plain, queued, published,
                   expired, removed>>

\* The host refuses, fails or does not answer in time: the row stays.
Outbox_attempted(p, o) ==
    /\ o \in batch[p]
    /\ batch' = [batch EXCEPT ![p] = @ \ {o}]
    /\ UNCHANGED <<shard, legacy, call, done, history>>

Outbox_done(p, id) ==
    /\ id \in done[p]
    /\ outbox' = {o \in outbox : o.id # id}
    /\ done' = [done EXCEPT ![p] = @ \ {id}]
    /\ UNCHANGED <<shard, journal, sequence, cleanup, call, batch, history>>

\* Maintenance drops the events that are older than the history window.
Prune_expired(id) ==
    /\ \E o \in outbox : o.id = id
    /\ outbox' = {o \in outbox : o.id > id}
    /\ expired' = expired \cup {o.event : o \in outbox \ outbox'}
    /\ UNCHANGED <<shard, journal, sequence, cleanup, call, delivery, started,
                   committed, plain, queued, published, accepted, removed>>

\* A router dies, or one of its transactions fails: its call ends where it is.
Dies(p) ==
    /\ Goto(p, Idle)
    /\ batch' = [batch EXCEPT ![p] = {}]
    /\ done' = [done EXCEPT ![p] = {}]
    /\ UNCHANGED <<shard, legacy, history>>

------------------------------------------------------------------------------

Revisions == 0 .. Cardinality(committed) + plain

\* The steps a call takes by itself.
Step(p) ==
    \/ Commit(p) \/ Conflict(p) \/ Discard(p)
    \/ Planner_wake_receipts(p) \/ Materialize_planner_wakes(p)
    \/ Remove_planner_wake_receipts(p)
    \/ Remove_planner_session(p) \/ Finish_planner_cleanup(p)
    \/ Reconcile_cleanup(p) \/ Poll(p)

Next ==
    \/ \E p \in Routers :
          \/ \E s \in Saves, expected \in Revisions : Prepare(p, s, expected)
          \/ \E expected \in Revisions \ {0} : Prepare_planner_cleanup(p, expected)
          \/ Save_planner_run(p)
          \/ Step(p)
          \/ Outbox_pending(p)
          \/ \E e \in Direct : Deliver(p, e)
          \/ \E o \in batch[p] : Accept(p, o) \/ Outbox_attempted(p, o)
          \/ \E id \in done[p] : Outbox_done(p, id)
    \/ \E o \in outbox : Prune_expired(o.id)
    \/ \E p \in Crashers : Dies(p)

Spec == Init /\ [][Next]_vars

\* A router that lives finishes its calls, polls every thirty seconds and hands
\* what it read to the host; the host takes an event it is offered again and
\* again, unless it never takes it.
Fairness ==
    /\ \A p \in Routers \ Crashers :
          /\ WF_vars(Step(p))
          /\ SF_vars(Outbox_pending(p))
          /\ WF_vars(\E id \in done[p] : Outbox_done(p, id))
          /\ WF_vars(\E o \in batch[p] : Accept(p, o) \/ Outbox_attempted(p, o))
          /\ \A e \in Events \ Poison :
                SF_vars(\E o \in batch[p] : o.event = e /\ Accept(p, o))

FairSpec == Spec /\ Fairness

------------------------------------------------------------------------------
(* Properties *)

InOutbox(e) == \E o \in outbox : o.event = e
InJournal(s) == \E j \in journal : j.save = s

\* The host never hears of a save that did not happen, however the router that
\* prepared it lost its race or died (materialize_planner_wakes).
PublishedWasSaved == published \cap Saves \subseteq committed

\* An event of a save that did happen is always on its way or settled: its row
\* waits in the journal with its receipt, or in the outbox, or the host took
\* it or it expired.  A queued event too.  Deaths between any two transactions,
\* competing publishers and repeated deliveries lose none while the run exists
\* (save_planner_run_with_wakes, pending_planner_wakes, attempt).
NothingIsLost ==
    /\ \A s \in committed :
          \/ removed
          \/ s \in accepted \cup expired
          \/ InOutbox(s)
          \/ InJournal(s) /\ s \in receipts
    /\ \A e \in queued : InOutbox(e) \/ e \in accepted \cup expired

\* An event enters the outbox once, whoever else publishes the same journal
\* ("concurrent materializers emit one outbox row").
PublishedOnce ==
    [][\A o \in outbox' \ outbox : o.event \notin published]_vars

\* Where an event is, as a host sees the outbox.
Rows(e) == {o \in outbox : o.event = e}
Whereabouts(e) ==
    CASE \E o \in outbox : Rows(e) = {o} -> "queued"
      [] Rows(e) = {} /\ e \in published ->
            IF e \in accepted \cup expired THEN "settled" ELSE "lost"
      [] Rows(e) = {} /\ e \notin published ->
            IF e \notin committed THEN "none"
            ELSE IF InJournal(e) THEN "owed" ELSE "dropped"
      [] OTHER -> "repeated"

Outbox == INSTANCE WakeDelivery WITH status <- [e \in Events |-> Whereabouts(e)],
                                     gone <- removed

\* The journal in one file, the receipts in another and the publishers that
\* repeat each other's work keep the outbox's promise: an event is queued once,
\* is not lost and leaves only when it is settled (save_planner_run_with_wakes,
\* reconcile_planner_wakes, outbox_done).
DeliversOnce == Outbox!Spec

\* Every event of a save that happened reaches the host, or expires, or its
\* run is deleted (spawn_outbox_flusher, reconcile_planner_wakes).
EventuallySettled ==
    \A s \in Saves : s \in committed ~> (s \in accepted \cup expired \/ removed)

\* "The legacy journal prevents a process crash between the shard commit and
\* hook outbox delivery from losing a wake" (save_planner_run_with_wakes), with
\* no exception for a run that is deleted meanwhile.
CommittedIsPublished ==
    \A s \in committed :
        s \in published \/ InJournal(s)

\* "A failed or interrupted delivery is retried by any router process sharing
\* that DB until the host accepts it" (delegate_hook.rs): an event that waits
\* is again and again in the hands of a router.
RetriedUntilAccepted ==
    \A e \in Direct :
        [](InOutbox(e) =>
              <>(~InOutbox(e) \/ \E p \in Routers : \E o \in batch[p] : o.event = e))
===============================================================================
