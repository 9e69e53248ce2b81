--------------------------- MODULE PlannerWorkflow ---------------------------
(***************************************************************************)
(* The planner's operations as they run (planner_workflow.rs over the       *)
(* revision compare-and-swap of state.rs).  operate_once and begin_work_once *)
(* load the run, check it, await git, the repository host or an audit, and   *)
(* save what they loaded with their change; in between any other handler of  *)
(* any router may save.  A save succeeds only on the revision that was       *)
(* loaded; otherwise the handler starts again from a new load.               *)
(*                                                                          *)
(* The revision number is abstracted to what the compare-and-swap tells      *)
(* apart: an operation in flight is "fresh" until somebody else saves.       *)
(* This module refines PlannerLedger, where each operation is one step.      *)
(***************************************************************************)
EXTENDS PlannerLedger

CONSTANTS
    NoWork,       \* the work of an operation on the whole run
    MaxInflight   \* bound: operations between their load and their save

ASSUME WorkflowAssumption == NoWork \notin Works /\ MaxInflight \in Nat

VARIABLE inflight  \* operations loaded and checked, not yet saved

vars == <<runStatus, phase, exec, works, releases, nextAttempt, allocs,
          delegates, stops, drain, alive, inflight>>

OpKinds == {"retire", "reconcile", "artifact", "review", "finished",
            "finalize", "integrate", "disposition", "begin", "complete"}

\* flag: unresolved for an artifact, accepted for a review, a changed spec for
\* reconcile, watching rather than blocked for a disposition.  attempt: the
\* worker identity of the caller's token.
Op == [kind : OpKinds, work : Works \cup {NoWork}, rev : OptRev,
       flag : BOOLEAN, attempt : Nat, by : Routers, fresh : BOOLEAN]

WorkflowInit == Init /\ inflight = {}

\* What the handler of an operation checks on the run it loaded.
Ready(o) ==
    \/ o.kind = "complete" /\ CompleteReady
    \/ /\ o.work \in Works
       /\ \/ o.kind = "retire" /\ RetireReady(o.work)
          \/ o.kind = "disposition" /\ DispositionReady(o.work)
          \/ o.kind = "begin" /\ BeginReady(o.work)
          \/ /\ o.kind = "artifact" /\ o.rev \in Revs
             /\ ArtifactReady(o.work, o.attempt, o.by)
          \/ /\ o.kind = "reconcile" /\ o.rev \in Revs
             /\ ReconcileReady(o.work, o.flag)
          \/ /\ o.kind = "review" /\ o.rev \in Revs
             /\ ReviewReady(o.work, o.rev, o.flag)
          \/ /\ o.kind = "finished" /\ o.rev \in Revs
             /\ FinishedReady(o.work, o.rev, o.attempt, o.by)
          \/ /\ o.kind = "finalize" /\ o.rev \in Revs
             /\ FinalizeReady(o.work, o.rev)
          \/ /\ o.kind = "integrate" /\ o.rev \in Revs
             /\ IntegrateReady(o.work, o.rev)

\* What it writes into that run before it saves.
Commit(o) ==
    \/ o.kind = "complete" /\ CompleteCommit
    \/ o.kind = "retire" /\ RetireCommit(o.work)
    \/ o.kind = "disposition" /\ DispositionCommit(o.work, o.flag)
    \/ o.kind = "begin" /\ BeginCommit(o.work, o.by)
    \/ /\ o.kind = "artifact"
       /\ ArtifactCommit(o.work, [rev |-> o.rev, unresolved |-> o.flag])
    \/ o.kind = "reconcile" /\ ReconcileCommit(o.work, o.rev, o.flag)
    \/ o.kind = "review" /\ ReviewCommit(o.work, o.rev, o.flag)
    \/ o.kind \in {"finished", "finalize"} /\ FinishCommit(o.work, o.rev)
    \/ o.kind = "integrate" /\ IntegrateCommit(o.work, o.rev)

\* The operations a caller may ask router r for: a worker's carry its own
\* attempt, the others carry none.
Requests(r) ==
    {o \in [kind : OpKinds, work : Works \cup {NoWork}, rev : OptRev,
            flag : BOOLEAN, attempt : 0 .. MaxAttempts, by : {r},
            fresh : {TRUE}] :
        /\ o.kind = "complete" <=> o.work = NoWork
        /\ o.rev = NoRev <=>
              o.kind \in {"complete", "retire", "disposition", "begin"}
        /\ o.flag => o.kind \in {"artifact", "review", "reconcile",
                                 "disposition"}
        /\ o.attempt = 0 <=> o.kind \notin {"artifact", "finished"}}

\* A save by anyone makes every other loaded copy of the run out of date.
Stale(ops) == {[o EXCEPT !.fresh = FALSE] : o \in ops}

\* The handler loads the run, its checks pass, and it awaits.  A worker's call
\* comes from its open sub-session, which may close while the handler awaits.
Load(o) ==
    /\ Cardinality(inflight) < MaxInflight
    /\ o.attempt # 0 =>
          [work |-> o.work, attempt |-> o.attempt, by |-> o.by] \in delegates
    /\ Ready(o)
    /\ inflight' = inflight \cup {o}
    /\ UNCHANGED ledgerVars

\* Mutant: the last writer wins.
SaveAnyway(o) ==
    /\ Commit(o)
    /\ inflight' = Stale(inflight \ {o})

\* save: compare-and-swap on the revision.
Save(o) ==
    /\ o.fresh
    /\ Commit(o)
    /\ inflight' = Stale(inflight \ {o})

\* The awaited check refuses, or the save conflicts; a retry is a new load.
Abandon(o) ==
    /\ inflight' = inflight \ {o}
    /\ UNCHANGED ledgerVars

\* Mutant: the save does not advance the revision.
MutateUnversioned(r) == Mutation(r) /\ UNCHANGED inflight

\* mutate: a read-modify-write without an await, which always saves.
Mutate(r) == Mutation(r) /\ inflight' = Stale(inflight)

\* Mutant: the operations of a dead router linger.
OccursKept(r) == Event(r) /\ UNCHANGED inflight

\* What saves nothing; a dead router's operations are gone.
Occurs(r) == Event(r) /\ inflight' = {o \in inflight : o.by \in alive'}

Next ==
    \/ \E r \in alive : \/ \E o \in Requests(r) : Load(o)
                        \/ Mutate(r)
                        \/ Occurs(r)
    \/ \E o \in inflight : Save(o) \/ Abandon(o)

Spec == WorkflowInit /\ [][Next]_vars

------------------------------------------------------------------------------
(* Properties *)

\* What a handler checked before it awaited still holds when it may save: the
\* acceptance, the attempt, the frozen release, the dependencies and the run
\* status it relied on (operate_once, begin_work_once, save).
FreshIsReady == \A o \in inflight : o.fresh => Ready(o) /\ o.by \in alive
==============================================================================
