---------------------------- MODULE PlannerLedger ----------------------------
(***************************************************************************)
(* The durable work ledger of one planner run (planner_workflow.rs), with   *)
(* every operation as one atomic step.  A parent session admits works,      *)
(* worker attempts produce artifacts, the parent reviews, finalizes and     *)
(* integrates them; a person or a client suspends, resumes and drains the   *)
(* run; any of several router processes may act and may die.                *)
(*                                                                          *)
(* An operation is split in two: XReady is what its handler checks on the   *)
(* record it loaded, XCommit is what it writes.  Here they are one step;    *)
(* module PlannerWorkflow puts the awaits and the compare-and-swap between  *)
(* them and refines this module.                                            *)
(*                                                                          *)
(* Evidence texts, check results, git and the repository host are external: *)
(* an operation they refuse changes nothing, so it is a step not taken.     *)
(***************************************************************************)
EXTENDS Integers, FiniteSets

CONSTANTS
    Works,        \* work identities a run may admit
    Revs,         \* source revisions (commit SHAs)
    NoRev,        \* an optional revision that is None
    Routers,      \* router process incarnations (pid + start time)
    NoRouter,     \* the router of an attempt that does not exist
    ReleaseIds,   \* release round identities
    V2,           \* the works admitted under completion contract version 2
    Deps,         \* <<w, d>>: w lists d under `dependencies`
    ReadyDeps,    \* <<w, d, r>>: w lists d@r under `ready_dependencies`
    HasHost,      \* routers.planner.integrate_check is configured
    Drainers,     \* environment: routers whose client may ask for a shutdown
    Crashers,     \* environment: routers that may die
    MaxAttempts   \* bound: attempts ever claimed

ASSUME LedgerAssumption ==
    /\ NoRev \notin Revs
    /\ NoRouter \notin Routers
    /\ V2 \subseteq Works
    /\ Deps \subseteq Works \X Works
    /\ ReadyDeps \subseteq Works \X Works \X Revs
    /\ HasHost \in BOOLEAN
    /\ Drainers \subseteq Routers
    /\ Crashers \subseteq Routers
    /\ MaxAttempts \in Nat

VARIABLES
    runStatus,    \* PlannerRun.status
    phase,        \* PlannerRun.phase
    exec,         \* PlannerRun.execution_request is Some
    works,        \* PlannerRun.works; a work not in the map is "absent"
    releases,     \* PlannerRun.releases
    nextAttempt,  \* the next fresh attempt identity (a uuid in the code)
    allocs,       \* claimed attempts whose workspace allocation is running
    delegates,    \* open worker sub-sessions, each in its router's memory
    stops,        \* works with a delegate_stop event queued for the host
    drain,        \* each router's in-process drain of this run
    alive         \* the router processes that are running

record == <<runStatus, phase, exec, works, releases, nextAttempt>>
ledgerVars == <<runStatus, phase, exec, works, releases, nextAttempt, allocs,
                delegates, stops, drain, alive>>

------------------------------------------------------------------------------
(* Types *)

RunStatus == {"running", "paused", "complete", "draining"}
Phases == {"planning", "implementation"}

WorkStatus == {"absent", "retired", "admitted", "allocating", "running",
               "review-pending", "corrections", "accepted", "finished",
               "integrated", "blocked", "watching", "interrupted"}

Stages == {"selected", "candidate-passed", "staging-deployed",
           "staging-passed", "production-merged", "production-deployed",
           "production-passed", "disposed", "failed", "abandoned"}

OptRev == Revs \cup {NoRev}

Attempt == [id : Nat, router : Routers \cup {NoRouter}, ended : BOOLEAN]
NoAttempt == [id |-> 0, router |-> NoRouter, ended |-> TRUE]

\* The packet a worker reports, by its revision and whether it lists
\* unresolved requirements.
Artifact == [rev : OptRev, unresolved : BOOLEAN]
NoArtifact == [rev |-> NoRev, unresolved |-> FALSE]

Review == [rev : OptRev, accepted : BOOLEAN]
NoReview == [rev |-> NoRev, accepted |-> FALSE]

Work == [status : WorkStatus,
         workspace : BOOLEAN,       \* Work.workspace is Some
         attempt : Attempt,
         artifact : Artifact,
         review : Review,
         finish : OptRev,           \* Work.finish, by its revision
         integration : OptRev,      \* Work.integration, by its revision
         paused : BOOLEAN,
         required : BOOLEAN,        \* reconciliation.required
         asks : BOOLEAN,            \* handoff asks for ownership/reassignment
         prior : SUBSET Revs]       \* integrations in prior_completions

AbsentWork == [status |-> "absent", workspace |-> FALSE,
               attempt |-> NoAttempt, artifact |-> NoArtifact,
               review |-> NoReview, finish |-> NoRev, integration |-> NoRev,
               paused |-> FALSE, required |-> FALSE, asks |-> FALSE,
               prior |-> {}]

\* A release freezes the selected revision of each work (NoRev: not selected).
Release == [used : BOOLEAN,               \* the id is in PlannerRun.releases
            selection : [Works -> OptRev],
            stage : Stages,
            merged : BOOLEAN,             \* some checkpoint is production-*
            superseded : BOOLEAN,         \* superseded_by is Some
            replacement : BOOLEAN]        \* its selection replaced another
NoRelease == [used |-> FALSE, selection |-> [w \in Works |-> NoRev],
              stage |-> "selected", merged |-> FALSE, superseded |-> FALSE,
              replacement |-> FALSE]

Alloc == [work : Works, attempt : Nat, by : Routers, finishing : BOOLEAN]
LiveDelegate == [work : Works, attempt : Nat, by : Routers]

\* No drain, requested, or running after it saved `draining` over the status
\* it found (its `prior`).
Drains == {"none", "requested"} \cup RunStatus

TypeOK ==
    /\ runStatus \in RunStatus
    /\ phase \in Phases
    /\ exec \in BOOLEAN
    /\ works \in [Works -> Work]
    /\ releases \in [ReleaseIds -> Release]
    /\ nextAttempt \in Nat
    /\ allocs \subseteq Alloc
    /\ delegates \subseteq LiveDelegate
    /\ stops \subseteq Works
    /\ drain \in [Routers -> Drains]
    /\ alive \subseteq Routers

Init ==
    /\ runStatus = "running"
    /\ phase = "planning"
    /\ exec = FALSE
    /\ works = [w \in Works |-> AbsentWork]
    /\ releases = [i \in ReleaseIds |-> NoRelease]
    /\ nextAttempt = 1
    /\ allocs = {}
    /\ delegates = {}
    /\ stops = {}
    /\ drain = [r \in Routers |-> "none"]
    /\ alive = Routers

------------------------------------------------------------------------------
(* What the handlers ask of a work *)

Present(w) == works[w].status # "absent"
Live(w) == ~works[w].attempt.ended

\* Mutant: an attempt that still allocates its workspace holds no claim.
Owner_aliveOnceStarted(w) ==
    /\ Live(w)
    /\ works[w].status # "allocating"
    /\ works[w].attempt.router \in alive
Owner_alive(w) == Live(w) /\ works[w].attempt.router \in alive

\* No work has a live attempt.
\* Mutant: live attempts are overlooked.
IdleAlways == TRUE
Idle == \A w \in Works : ~Live(w)

\* The run takes parent mutations; only a running one takes new scope.
Mutable == runStatus \in {"running", "draining"}
Executing == runStatus = "running" /\ exec /\ phase = "implementation"

Frozen(w) == \E i \in ReleaseIds :
                releases[i].used /\ releases[i].selection[w] # NoRev

Accepted_revision(w, r) ==
    /\ works[w].review.accepted
    /\ works[w].review.rev = r
    /\ works[w].artifact.rev = r

\* Mutant: the worker's attempt may still be live.
Finished_revisionLive(w, r) ==
    /\ works[w].status \in {"finished", "watching"}
    /\ works[w].finish = r
    /\ Accepted_revision(w, r)

\* `watching` always carries a reason: disposition requires one.
Finished_revision(w, r) ==
    /\ works[w].status \in {"finished", "watching"}
    /\ works[w].finish = r
    /\ Accepted_revision(w, r)
    /\ works[w].workspace
    /\ ~Live(w)
    /\ ~works[w].artifact.unresolved

Dependencies_ready(w) ==
    /\ \A d \in Works : <<w, d>> \in Deps => works[d].status = "integrated"
    /\ \A d \in Works, r \in Revs : <<w, d, r>> \in ReadyDeps =>
            /\ works[d].status \in {"accepted", "finished", "integrated"}
            /\ Accepted_revision(d, r)
            /\ ~Live(d)

\* The role of the next turn: finish the accepted revision, or implement.
Continuation_finishes(w) ==
    /\ works[w].status \in {"accepted", "interrupted"}
    /\ works[w].artifact.rev # NoRev
    /\ works[w].review.accepted
    /\ works[w].review.rev = works[w].artifact.rev

\* What a new turn needs of its work, whoever starts it.
\* Mutant: the dependencies are not looked at.
DispatchableAlone(w) == ~works[w].required /\ ~works[w].paused
Dispatchable(w) ==
    /\ ~works[w].required
    /\ ~works[w].paused
    /\ Dependencies_ready(w)

\* Mutant: the child of an attempt that ended is still heard.
Require_workerEnded(w, id, r) ==
    /\ works[w].attempt.id = id
    /\ works[w].attempt.router = r
    /\ works[w].status # "allocating"

\* A child acts under the live attempt that its own router claimed; its token
\* is minted after the allocation, so it never acts on an allocating work.
Require_worker(w, id, r) ==
    /\ Live(w)
    /\ works[w].attempt.id = id
    /\ works[w].attempt.router = r
    /\ works[w].status # "allocating"

\* mark_reconciliation_required, on a work's record.
Marked(work) ==
    IF /\ work.status \in {"admitted", "allocating", "running", "interrupted",
                           "corrections", "accepted"}
       /\ work.workspace
    THEN [work EXCEPT !.required = TRUE]
    ELSE work

Write(w, work) == works' = [works EXCEPT ![w] = work]
KeepRun == UNCHANGED <<runStatus, phase, exec, releases>>
KeepProcesses == UNCHANGED <<nextAttempt, allocs, delegates, stops, drain, alive>>

------------------------------------------------------------------------------
(* The parent's and the workers' operations: operate_once *)

AdmitReady(w) == Executing /\ ~Present(w)
AdmitCommit(w) ==
    /\ Write(w, [AbsentWork EXCEPT !.status = "admitted"])
    /\ KeepRun /\ KeepProcesses

RetireReady(w) ==
    /\ Mutable
    /\ HasHost
    /\ Present(w)
    /\ ~Live(w)
    /\ works[w].status \notin {"integrated", "finished"}
    /\ ~Frozen(w)
RetireCommit(w) ==
    /\ Write(w, [works[w] EXCEPT !.status = "retired", !.paused = TRUE,
                                 !.required = FALSE])
    /\ KeepRun /\ KeepProcesses

\* A version 2 work that is finished or integrated reopens by a changed scope;
\* any other work is reconciled before it is finished or frozen.
Terminal_correction(w) ==
    w \in V2 /\ works[w].status \in {"finished", "integrated"}

ReconcileReady(w, specChanged) ==
    /\ runStatus = "running"
    /\ exec
    /\ Present(w)
    /\ IF Terminal_correction(w)
       THEN specChanged /\ ~Live(w)
       ELSE /\ ~Owner_alive(w)
            /\ works[w].status \notin {"finished", "integrated", "watching",
                                       "retired"}
            /\ ~Frozen(w)
    /\ works[w].asks => specChanged

\* The integration that reopening a work moves to its prior completions.
\* Mutants: none is moved; an empty one is moved.
CompletionDropped(work) == {}
CompletionUnchecked(work) == {work.integration}
Completion(work) == {work.integration} \ {NoRev}

ReconcileCommit(w, source, specChanged) ==
    LET old == works[w]
        changed == specChanged \/ (/\ old.artifact.rev # NoRev
                                   /\ old.artifact.rev # source)
        base == [old EXCEPT !.workspace = TRUE, !.required = FALSE,
                            !.attempt = NoAttempt, !.asks = FALSE,
                            !.paused = FALSE]
        kept == [base EXCEPT !.status = IF old.review.accepted
                                        THEN "accepted" ELSE "admitted"]
        cleared == [base EXCEPT !.artifact = NoArtifact, !.review = NoReview,
                                !.finish = NoRev, !.status = "admitted"]
        reopened == [cleared EXCEPT !.integration = NoRev,
                        !.prior = @ \cup Completion(old)]
    IN  /\ Write(w, IF Terminal_correction(w) THEN reopened
                    ELSE IF changed THEN cleared ELSE kept)
        /\ KeepRun /\ KeepProcesses

\* require_worker, then the packet: an identical one changes nothing.
ArtifactReady(w, id, r) ==
    /\ Mutable
    /\ Require_worker(w, id, r)
    /\ works[w].workspace
ArtifactCommit(w, packet) ==
    /\ Write(w, IF works[w].artifact = packet THEN works[w]
                ELSE [works[w] EXCEPT !.artifact = packet,
                                      !.review = NoReview,
                                      !.finish = NoRev,
                                      !.integration = NoRev,
                                      !.status = "review-pending"])
    /\ KeepRun /\ KeepProcesses

ReviewReady(w, r, accepted) ==
    /\ Mutable
    /\ works[w].artifact.rev = r
    /\ works[w].status \in {"review-pending", "accepted", "corrections"}
    /\ works[w].workspace
    /\ accepted => ~works[w].artifact.unresolved
\* Mutant: a review leaves an earlier finishing receipt in place.
ReviewCommitKeepsFinish(w, r, accepted) ==
    /\ Write(w, [works[w] EXCEPT
                    !.review = [rev |-> r, accepted |-> accepted],
                    !.status = IF accepted THEN "accepted" ELSE "corrections"])
    /\ KeepRun /\ KeepProcesses
ReviewCommit(w, r, accepted) ==
    /\ Write(w, [works[w] EXCEPT
                    !.review = [rev |-> r, accepted |-> accepted],
                    !.finish = NoRev,
                    !.integration = NoRev,
                    !.status = IF accepted THEN "accepted" ELSE "corrections"])
    /\ KeepRun /\ KeepProcesses

\* The child's own receipt; version 2 needs the trusted finish verifier.
FinishedReady(w, r, id, by) ==
    /\ Mutable
    /\ Require_worker(w, id, by)
    /\ Accepted_revision(w, r)
    /\ works[w].workspace
    /\ w \in V2 => HasHost
FinishCommit(w, r) ==
    /\ Write(w, [works[w] EXCEPT !.finish = r, !.status = "finished"])
    /\ KeepRun /\ KeepProcesses

\* The parent's receipt for a child that has stopped.
FinalizeReady(w, r) ==
    /\ Mutable
    /\ HasHost
    /\ Accepted_revision(w, r)
    /\ works[w].status \in {"accepted", "interrupted"}
    /\ ~Live(w)
    /\ works[w].workspace

\* Mutant: any unreplaced release will do, whatever its stage.
Integration_allowedEarly(w, r) ==
    \/ \A i \in ReleaseIds : releases[i].selection[w] # r
    \/ \E i \in ReleaseIds : /\ releases[i].selection[w] = r
                            /\ ~releases[i].superseded

\* A selected revision integrates through a release that passed production
\* and was not replaced; an unselected one needs no release round.
Integration_allowed(w, r) ==
    LET selecting == {i \in ReleaseIds : /\ releases[i].used
                                         /\ releases[i].selection[w] = r}
    IN  \/ selecting = {}
        \/ \E i \in selecting :
              /\ ~releases[i].superseded
              /\ releases[i].stage \in {"production-passed", "disposed"}

IntegrateReady(w, r) ==
    /\ Mutable
    /\ Integration_allowed(w, r)
    /\ Finished_revision(w, r)
IntegrateCommit(w, r) ==
    /\ Write(w, [works[w] EXCEPT !.integration = r, !.status = "integrated"])
    /\ KeepRun /\ KeepProcesses

DispositionReady(w) ==
    /\ Mutable
    /\ Present(w)
    /\ ~Live(w)
    /\ works[w].status # "integrated"
DispositionCommit(w, watching) ==
    /\ Write(w, [works[w] EXCEPT
                    !.status = IF watching THEN "watching" ELSE "blocked"])
    /\ KeepRun /\ KeepProcesses

Active(i) ==
    /\ releases[i].used
    /\ ~releases[i].superseded
    /\ releases[i].stage \notin {"disposed", "abandoned"}

Reconciled(w) ==
    /\ works[w].status \in {"absent", "integrated", "retired"}
    /\ ~Live(w)

\* Inputs and wakes, the capacity host and the auditor may also refuse it.
CompleteReady ==
    /\ runStatus = "running"
    /\ \A i \in ReleaseIds : ~Active(i)
    /\ \A w \in Works : Reconciled(w)
CompleteCommit ==
    /\ runStatus' = "complete"
    /\ UNCHANGED <<phase, exec, releases, works>>
    /\ KeepProcesses

------------------------------------------------------------------------------
(* Attempts: begin_work, the allocation it awaits, the turn and its end *)

BeginReady(w) ==
    /\ Executing
    /\ nextAttempt <= MaxAttempts
    /\ Present(w)
    /\ Dispatchable(w)
    /\ ~Owner_alive(w)
    /\ works[w].status \in {"admitted", "allocating", "corrections",
                            "interrupted", "accepted", "blocked", "running"}
    /\ Continuation_finishes(w) => works[w].workspace

BeginCommit(w, r) ==
    /\ Write(w, [works[w] EXCEPT
                    !.attempt = [id |-> nextAttempt, router |-> r,
                                 ended |-> FALSE],
                    !.status = "allocating",
                    !.asks = FALSE])
    /\ nextAttempt' = nextAttempt + 1
    /\ allocs' = allocs \cup {[work |-> w, attempt |-> nextAttempt, by |-> r,
                               finishing |-> Continuation_finishes(w)]}
    /\ KeepRun /\ UNCHANGED <<delegates, stops, drain, alive>>

\* Mutant: the error is returned and the claim left standing.
AllocationFailsQuietly(a) ==
    /\ a \in allocs
    /\ allocs' = allocs \ {a}
    /\ UNCHANGED works
    /\ KeepRun /\ UNCHANGED <<nextAttempt, delegates, stops, drain, alive>>

\* The allocator failed, timed out, or its workspace belongs to another work:
\* the claim is given up if it still stands.
AllocationFails(a) ==
    /\ a \in allocs
    /\ IF works[a.work].attempt.id = a.attempt
       THEN Write(a.work, [works[a.work] EXCEPT !.attempt.ended = TRUE,
                                                !.status = "interrupted"])
       ELSE UNCHANGED works
    /\ allocs' = allocs \ {a}
    /\ KeepRun /\ UNCHANGED <<nextAttempt, delegates, stops, drain, alive>>

\* The workspace is ready: the turn starts, unless the run was suspended
\* while the allocation ran or the claim was lost to another attempt.
AllocationReturns(a) ==
    /\ a \in allocs
    /\ LET suspended == runStatus # "running" \/ phase # "implementation"
           work == [works[a.work] EXCEPT !.workspace = TRUE]
       IN  IF works[a.work].attempt.id # a.attempt THEN UNCHANGED works
           ELSE Write(a.work,
                  IF suspended
                  THEN [work EXCEPT !.attempt.ended = TRUE,
                                    !.status = "interrupted"]
                  ELSE [work EXCEPT !.status = IF a.finishing THEN "accepted"
                                               ELSE "running"])
    /\ allocs' = allocs \ {a}
    /\ KeepRun /\ UNCHANGED <<nextAttempt, delegates, stops, drain, alive>>

\* Mutant: the status of a running work outlives its attempt.
EndedStatusKept(work) == [work EXCEPT !.attempt.ended = TRUE]

\* attempt_ended, on a work's record.
Ended(work) ==
    [work EXCEPT !.attempt.ended = TRUE,
                 !.status = IF @ \in {"running", "allocating"}
                            THEN "interrupted" ELSE @]

\* The sub-session of the current attempt, in the router that claimed it.
Delegate(w) == [work |-> w, attempt |-> works[w].attempt.id,
                by |-> works[w].attempt.router]

\* Closing a sub-session queues a stop event for the lifecycle host.
CloseDelegates(ds) ==
    /\ delegates' = delegates \ ds
    /\ stops' = stops \cup {d.work : d \in ds}

\* A turn of the attempt is under way in its router: begin_work returned.
TurnRuns(w) == Owner_alive(w) /\ works[w].status # "allocating"

\* The turn opens its sub-session, again after a failover.
OpenDelegate(w) ==
    /\ TurnRuns(w)
    /\ Delegate(w) \notin delegates
    /\ delegates' = delegates \cup {Delegate(w)}
    /\ UNCHANGED <<works, nextAttempt, allocs, stops, drain, alive>> /\ KeepRun

\* A sub-session closes: its turn failed, the parent closed it, its attempt
\* was replaced, or the drain cancelled it.
CloseDelegate(d) ==
    /\ CloseDelegates({d})
    /\ UNCHANGED <<works, nextAttempt, allocs, drain, alive>> /\ KeepRun

\* The turn returns to its router; the child of a finished work is closed.
TurnEnds(w) ==
    /\ TurnRuns(w)
    /\ Write(w, Ended(works[w]))
    /\ CloseDelegates(IF works[w].status \in {"finished", "integrated"}
                      THEN {d \in delegates : d.work = w
                                               /\ d.by = works[w].attempt.router}
                      ELSE {})
    /\ KeepRun /\ UNCHANGED <<nextAttempt, allocs, drain, alive>>

\* Mutant: attempts that still allocated are overlooked.
ReapOrphanStarted(w) ==
    /\ alive # {} /\ works[w].status # "allocating"
    /\ Live(w) /\ ~Owner_alive(w)
    /\ Write(w, Ended(works[w]))
    /\ KeepRun /\ KeepProcesses

\* The wake loop of a surviving router ends the attempt of a dead one.
ReapOrphan(w) ==
    /\ alive # {}
    /\ Live(w) /\ ~Owner_alive(w)
    /\ Write(w, Ended(works[w]))
    /\ KeepRun /\ KeepProcesses

\* A turn's handoff; one that asks for ownership or reassignment also
\* requires the parent's reconciliation.
Record_handoff(w, asks) ==
    /\ TurnRuns(w)
    /\ Delegate(w) \in delegates
    /\ LET work == [works[w] EXCEPT !.asks = asks]
       IN  Write(w, IF asks THEN Marked(work) ELSE work)
    /\ KeepRun /\ KeepProcesses

\* Another turn in the sub-session that the attempt's router still holds.
Begin_followup(w) ==
    /\ Mutable
    /\ phase = "implementation"
    /\ Dispatchable(w)
    /\ Delegate(w) \in delegates
    /\ ~Live(w)
    /\ works[w].status \in {"accepted", "corrections", "interrupted"}
    /\ Write(w, [works[w] EXCEPT
                    !.attempt.ended = FALSE,
                    !.status = IF Continuation_finishes(w) THEN "accepted"
                               ELSE "running"])
    /\ KeepRun /\ KeepProcesses

\* A queued stop leaves the outbox once the lifecycle host accepted it.
StopDelivered(w) ==
    /\ w \in stops
    /\ stops' = stops \ {w}
    /\ UNCHANGED <<works, nextAttempt, allocs, delegates, drain, alive>>
    /\ KeepRun

\* The host refuses a stop that left dirty or unpushed source.  The outbox
\* delivers at least once: the event may be judged again before it leaves.
Planner_stop_refused(w) ==
    /\ w \in stops
    /\ ~works[w].paused
    /\ ~Live(w)
    /\ works[w].status \notin {"finished", "integrated", "blocked", "watching"}
    /\ Write(w, [works[w] EXCEPT !.status = "interrupted", !.asks = FALSE])
    /\ KeepRun /\ KeepProcesses

------------------------------------------------------------------------------
(* The person, the client and the shutdown *)

\* This router drains the run now; a `draining` it does not drain is stale.
LiveDrain(r) == runStatus = "draining" /\ drain[r] # "none"

\* Mutant: a drain that is running is taken for a stale one.
HumanResumesDrain(r) ==
    IF runStatus \in {"complete", "paused", "draining"}
    THEN "running" ELSE runStatus

HumanResumes(r) ==
    IF \/ runStatus \in {"complete", "paused"}
       \/ runStatus = "draining" /\ drain[r] = "none"
    THEN "running" ELSE runStatus

\* user_command_once: /plan or /implement.  Resuming an idle run makes the
\* parent reconcile every allocated work first; a queued replay does not.
User_command(r, p, queued) ==
    /\ ~LiveDrain(r)
    /\ LET resuming == runStatus \in {"paused", "draining"}
       IN  works' = IF ~queued /\ resuming /\ p = "implementation" /\ Idle
                    THEN [w \in Works |-> Marked(works[w])] ELSE works
    /\ phase' = p
    /\ runStatus' = IF p = "implementation" \/ runStatus = "complete"
                    THEN "running" ELSE runStatus
    /\ exec' = (exec \/ p = "implementation")
    /\ UNCHANGED releases
    /\ KeepProcesses

\* observe_input: a prompt, perhaps a person's, perhaps with a directed phase.
Observe_input(r, human, directed) ==
    LET status == IF human THEN HumanResumes(r) ELSE runStatus
        follows == /\ directed # "none"
                   /\ ~(status = "draining" /\ drain[r] # "none")
        implements == follows /\ directed = "implementation"
    IN  /\ runStatus = "complete" => human \/ directed = "implementation"
        /\ phase' = IF follows THEN directed ELSE phase
        /\ runStatus' = IF implements THEN "running" ELSE status
        /\ exec' = (exec \/ implements)
        /\ UNCHANGED <<works, releases>>
        /\ KeepProcesses

\* enqueue_parent_input: a prompt retained while the parent is busy.  Its
\* command runs later, but a return to planning stops dispatch at once.
Enqueue_parent_input(plans) ==
    /\ runStatus' = IF runStatus = "complete" THEN "running" ELSE runStatus
    /\ phase' = IF plans THEN "planning" ELSE phase
    /\ UNCHANGED <<exec, works, releases>>
    /\ KeepProcesses

\* The client stops one child (cancel or close), or a person prompts it.
ChildStop(r, w) ==
    /\ Present(w)
    /\ Write(w, [works[w] EXCEPT !.paused = TRUE])
    /\ CloseDelegates({d \in delegates : d.work = w /\ d.by = r})
    /\ KeepRun /\ UNCHANGED <<nextAttempt, allocs, drain, alive>>
ChildPrompt(r, w) ==
    /\ Present(w)
    /\ runStatus' = HumanResumes(r)
    /\ Write(w, [works[w] EXCEPT !.paused = FALSE])
    /\ UNCHANGED <<phase, exec, releases>>
    /\ KeepProcesses

\* close_live_delegates_for: the client closed or deleted the parent session.
CloseSession(r) ==
    /\ runStatus' = IF runStatus = "running" THEN "paused" ELSE runStatus
    /\ CloseDelegates({d \in delegates : d.by = r})
    /\ UNCHANGED <<phase, exec, works, releases, nextAttempt, allocs, drain,
                   alive>>

\* planner_shutdown: the request, the drain's first save over whatever status
\* it finds, and its last save when every worker stopped or was cancelled.
RequestDrain(r) ==
    /\ r \in Drainers
    /\ drain[r] = "none"
    /\ drain' = [drain EXCEPT ![r] = "requested"]
    /\ UNCHANGED <<works, nextAttempt, allocs, delegates, stops, alive>>
    /\ KeepRun
StartDrain(r) ==
    /\ drain[r] = "requested"
    /\ drain' = [drain EXCEPT ![r] = runStatus]
    /\ runStatus' = "draining"
    /\ UNCHANGED <<phase, exec, works, releases, nextAttempt, allocs,
                   delegates, stops, alive>>
EndDrain(r) ==
    /\ drain[r] \in RunStatus
    /\ runStatus' = IF drain[r] = "complete" THEN "complete" ELSE "paused"
    /\ drain' = [drain EXCEPT ![r] = "none"]
    /\ UNCHANGED <<phase, exec, works, releases, nextAttempt, allocs,
                   delegates, stops, alive>>

\* A router process dies: what it awaited, held open and drained dies with it,
\* and no stop is queued for its workers.
RouterCrash(r) ==
    /\ r \in Crashers
    /\ alive' = alive \ {r}
    /\ allocs' = {a \in allocs : a.by # r}
    /\ delegates' = {d \in delegates : d.by # r}
    /\ drain' = [drain EXCEPT ![r] = "none"]
    /\ UNCHANGED <<works, nextAttempt, stops>> /\ KeepRun

------------------------------------------------------------------------------
(* The specification *)

Admit(w) == AdmitReady(w) /\ AdmitCommit(w)
Retire(w) == RetireReady(w) /\ RetireCommit(w)
Reconcile(w, source, changed) ==
    ReconcileReady(w, changed) /\ ReconcileCommit(w, source, changed)
ReportArtifact(w, r, packet) ==
    ArtifactReady(w, works[w].attempt.id, r) /\ ArtifactCommit(w, packet)
ReviewArtifact(w, rev, accepted) ==
    ReviewReady(w, rev, accepted) /\ ReviewCommit(w, rev, accepted)
Finished(w, r, rev) ==
    FinishedReady(w, rev, works[w].attempt.id, r) /\ FinishCommit(w, rev)
Finalize(w, rev) == FinalizeReady(w, rev) /\ FinishCommit(w, rev)
Integrate(w, rev) == IntegrateReady(w, rev) /\ IntegrateCommit(w, rev)
Disposition(w, watching) ==
    DispositionReady(w) /\ DispositionCommit(w, watching)
Complete == CompleteReady /\ CompleteCommit
Begin_work(w, r) == BeginReady(w) /\ BeginCommit(w, r)

\* The operations that their handlers check, await on and then save.
Operation(r) ==
    \/ Complete
    \/ \E w \in Works :
          \/ Retire(w)
          \/ Begin_work(w, r)
          \/ \E rev \in Revs, b \in BOOLEAN : Reconcile(w, rev, b)
          \/ \E rev \in Revs, b \in BOOLEAN :
                ReportArtifact(w, r, [rev |-> rev, unresolved |-> b])
          \/ \E rev \in Revs, b \in BOOLEAN : ReviewArtifact(w, rev, b)
          \/ \E rev \in Revs : Finished(w, r, rev)
          \/ \E rev \in Revs : Finalize(w, rev)
          \/ \E rev \in Revs : Integrate(w, rev)
          \/ \E b \in BOOLEAN : Disposition(w, b)

\* The handlers that run under one read-modify-write of the record.
Mutation(r) ==
    \/ \E p \in Phases, queued \in BOOLEAN : User_command(r, p, queued)
    \/ \E human \in BOOLEAN, d \in Phases \cup {"none"} :
          Observe_input(r, human, d)
    \/ \E plans \in BOOLEAN : Enqueue_parent_input(plans)
    \/ CloseSession(r)
    \/ \E w \in Works :
          \/ Admit(w)
          \/ TurnEnds(w)
          \/ ReapOrphan(w)
          \/ \E asks \in BOOLEAN : Record_handoff(w, asks)
          \/ Begin_followup(w)
          \/ Planner_stop_refused(w)
          \/ ChildStop(r, w)
          \/ ChildPrompt(r, w)
    \/ \E a \in allocs : AllocationFails(a) \/ AllocationReturns(a)
    \/ StartDrain(r)
    \/ EndDrain(r)

\* Steps that save nothing.
Event(r) ==
    \/ RequestDrain(r)
    \/ RouterCrash(r)
    \/ \E w \in Works : StopDelivered(w) \/ OpenDelegate(w)
    \/ \E d \in delegates : CloseDelegate(d)

LedgerNext == \E r \in alive : Operation(r) \/ Mutation(r) \/ Event(r)

LedgerSpec == Init /\ [][LedgerNext]_ledgerVars

\* The wake loop of a live router looks at every attempt on each tick, and an
\* allocation is a bounded host command or a local clone: each of these steps
\* is taken once it stays possible.  Nothing else is promised to happen.
FairLedgerSpec ==
    /\ LedgerSpec
    /\ \A w \in Works :
          /\ WF_ledgerVars(ReapOrphan(w))
          /\ WF_ledgerVars(\E a \in allocs :
                a.work = w /\ (AllocationFails(a) \/ AllocationReturns(a)))

------------------------------------------------------------------------------
(* Safety *)

\* An integration receipt stands on an unbroken chain: the finishing receipt,
\* the accepting review and the artifact all name its revision, nothing was
\* unresolved, the workspace is known and no attempt can still change it
\* (operate_once: artifact, review, finished, finalize, integrate).
ChainOfCustody ==
    \A w \in Works :
        /\ works[w].status = "integrated" <=> works[w].integration # NoRev
        /\ works[w].integration # NoRev =>
                /\ works[w].finish = works[w].integration
                /\ works[w].workspace
                /\ ~Live(w)

\* A finishing receipt always names the current, accepted, fully resolved
\* artifact, whatever reviews, corrections, dispositions and resumptions
\* happened after it was written.
FinishIsAccepted ==
    \A w \in Works :
        /\ works[w].status = "finished" => works[w].finish # NoRev
        /\ works[w].finish # NoRev =>
                /\ Accepted_revision(w, works[w].finish)
                /\ ~works[w].artifact.unresolved

\* The ledger's status tells whether a worker can act: a running or allocating
\* work has a live attempt, and a retired, integrated, blocked or watching one
\* has none (begin_work, attempt_ended, begin_followup, retire, disposition).
StatusMatchesAttempt ==
    \A w \in Works :
        /\ works[w].status \in {"running", "allocating"} => Live(w)
        /\ works[w].status \in {"absent", "admitted", "retired", "integrated",
                                "blocked", "watching"} => ~Live(w)

\* The router that allocates a workspace still owns the claim when it returns:
\* "workspace allocation lost its ownership fence" is never reported, and no
\* two routers allocate for one work (begin_work_once).
AllocationKeepsClaim ==
    \A a \in allocs :
        /\ a.by \in alive
        /\ works[a.work].attempt =
               [id |-> a.attempt, router |-> a.by, ended |-> FALSE]
        /\ works[a.work].status = "allocating"

\* Only the child of the live attempt, while its own router is alive, records
\* a new artifact: a replaced, ended or orphaned worker is fenced out
\* (require_worker).
ArtifactFenced ==
    [][\A w \in Works :
          works'[w].artifact \notin {works[w].artifact, NoArtifact} =>
              /\ Owner_alive(w)
              /\ works'[w].attempt = works[w].attempt]_ledgerVars

\* Work proven integrated is never lost: its receipt stays on the work or is
\* kept among its prior completions when version 2 reopens it (reconcile).
IntegrationRetained ==
    [][\A w \in Works, r \in Revs :
          r \in works[w].prior \cup {works[w].integration} =>
              r \in works'[w].prior \cup {works'[w].integration}]_ledgerVars

\* A turn starts (a new attempt, or another turn of the last one) only on an
\* executing run, on a work that no client stopped and that owes no parent
\* reconciliation, over dependencies that are in place
\* (begin_work_once, begin_followup).
TurnsStartAuthorized ==
    [][\A w \in Works : ~works'[w].attempt.ended /\
                        (works'[w].attempt.id # works[w].attempt.id
                            \/ works[w].attempt.ended) =>
              /\ Mutable /\ phase = "implementation" /\ exec
              /\ ~works[w].paused
              /\ ~works[w].required
              /\ ~Owner_alive(w)
              /\ Dependencies_ready(w)]_ledgerVars

\* A claimed attempt gets its turn only on a run that still executes and a
\* work that owes no reconciliation: no resumption marks a work between the
\* claim and the dispatch, and a suspension in between is noticed
\* (begin_work_once, user_command_once).
DispatchAuthorized ==
    [][\A w \in Works :
          (/\ works[w].status = "allocating"
           /\ works'[w].status # "allocating"
           /\ ~works'[w].attempt.ended) =>
              Executing /\ ~works[w].required]_ledgerVars

\* While every live router drains the run, nothing that arrives through them
\* resumes it or ends its drain: commands, prompts, retained input, child
\* prompts, a closed session, completion (stale_drain, planner_shutdown.rs).
DrainHolds ==
    [][/\ runStatus = "draining"
       /\ \A r \in alive : drain[r] # "none" /\ drain'[r] = drain[r]
       => runStatus' = "draining"]_ledgerVars

------------------------------------------------------------------------------
(* Liveness, under FairLedgerSpec *)

\* The attempt of a dead router is eventually ended or replaced: a work is
\* never held for ever by a process that is gone (planner_wake.rs).
OrphanReaped ==
    \A w \in Works : (Live(w) /\ ~Owner_alive(w)) ~> ~(Live(w) /\ ~Owner_alive(w))

\* A claimed attempt gets its workspace or gives its claim up, also when the
\* router dies while it allocates (begin_work_once).
ClaimResolves ==
    \A w \in Works :
        works[w].status = "allocating" ~> works[w].status # "allocating"

------------------------------------------------------------------------------
(* What the documentation or a comment says and the code does not do *)

\* "Parent `retire ...` is a terminal disposition for obsolete work"
\* (docs/planner-throughput.md): a retired work stays retired.
RetiredStaysRetired ==
    [][\A w \in Works : works[w].status = "retired" =>
                        works'[w].status = "retired"]_ledgerVars

\* "completion requires all admitted scope, input and wakes to be reconciled;
\* blocked/watching scope remains explicitly pending" (operate_once): a
\* complete run has only integrated or retired works and no live attempt.
CompleteIsReconciled ==
    runStatus = "complete" => \A w \in Works : Reconciled(w)

\* "Replaying the same brief cannot resolve missing ownership. Use the existing
\* parent reconciliation path before dispatch." (record_handoff): a work whose
\* worker asked for ownership gets no new attempt before it is reconciled.
AsksReconciledFirst ==
    [][\A w \in Works : works[w].asks =>
          works'[w].attempt.id \in {works[w].attempt.id, 0}]_ledgerVars
==============================================================================
