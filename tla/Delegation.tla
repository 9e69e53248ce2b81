----------------------------- MODULE Delegation -----------------------------
(***************************************************************************)
(* Delegated subtasks of one parent session (src/src/delegate_mcp.rs and   *)
(* the delegate parts of session.rs and lifecycle.rs).                     *)
(*                                                                         *)
(* A delegation waits for a permit, ranks the eligible accounts, takes a   *)
(* slot of one, opens a session there, registers the worker with the host, *)
(* prompts it, lets the host judge every turn end and either tears it down *)
(* or keeps it open for follow-ups.  An account that becomes unavailable   *)
(* hands the same worker to another one.  Meanwhile the parent may be      *)
(* cancelled, prompted again, closed and opened again, and delegates may   *)
(* be closed.                                                              *)
(*                                                                         *)
(* Abstractions: a strategy's ranking is any order of the eligible         *)
(* accounts; texts, token counts and the state rows are left out; a        *)
(* delegate has at most one follow-up at a time.                           *)
(***************************************************************************)
EXTENDS Naturals, FiniteSets

CONSTANTS
    Delegates,   \* delegations the parent asks for
    Background,  \* those that run as background jobs
    Kept,        \* those opened with keep_open
    Agents,      \* accounts with one delegate slot each
    Limits,      \* values of delegation.max_concurrent
    MaxTurns,    \* continuations a host may ask of one call
    MaxAttempts, \* failover.max_attempts
    Budgets      \* [faults, acts] of a behaviour: account failures and
                 \* refusals; cancels, closes, suspensions and follow-ups

ASSUME DelegationAssumption ==
    /\ Background \subseteq Delegates /\ Kept \subseteq Delegates
    /\ Limits \subseteq Nat \ {0} /\ MaxTurns \in Nat /\ MaxAttempts \in Nat \ {0}
    /\ Budgets \subseteq [faults : Nat, acts : Nat]

VARIABLES
    parent,     \* the parent session: [open, cancelled, planner]
    suspended,  \* the planner run is not Running
    permits,    \* the configured delegation.max_concurrent
    call,       \* per delegate: its running call
    sess,       \* per delegate: is its downstream session open
    handles,    \* the session's list of delegates to cancel
    live,       \* live_delegates: kept open between calls
    tokens,     \* delegates whose worker token is valid
    host,       \* per delegate: none, started or stopped, as the host knows
    handoff,    \* per delegate: the turn of its recorded handoff, 0 for none
    job,        \* per delegate: none, running, done or collected
    left,       \* what remains of the budget
    closed,     \* delegates closed by delegate_close (ghost)
    excused     \* workers whose stop nobody reports (ghost, see the actions)

vars == <<parent, suspended, permits, call, sess, handles, live, tokens, host, handoff,
          job, left, closed, excused>>

session == <<parent, suspended, permits>>
worker == <<sess, handles, live, tokens, host, handoff>>

NoCall == [at |-> "none", follow |-> FALSE, rest |-> {}, agent |-> {}, failed |-> {},
           cont |-> 0, turn |-> 0]
HasSlot == {"opening", "starting", "running", "judging"}
HasPermit == HasSlot \cup {"ranked", "slot"}
Active == HasPermit \cup {"queued"}

CallSet == [at : Active \cup {"none", "idle", "over"}, follow : BOOLEAN,
            rest : SUBSET Agents, agent : SUBSET Agents, failed : SUBSET Agents,
            cont : Nat, turn : Nat]

TypeOK ==
    /\ parent \in [open : BOOLEAN, cancelled : BOOLEAN, planner : BOOLEAN]
    /\ suspended \in BOOLEAN /\ permits \in Limits
    /\ call \in [Delegates -> CallSet]
    /\ sess \in [Delegates -> BOOLEAN]
    /\ handles \subseteq Delegates /\ live \subseteq Delegates /\ tokens \subseteq Delegates
    /\ host \in [Delegates -> {"none", "started", "stopped"}]
    /\ handoff \in [Delegates -> Nat]
    /\ job \in [Delegates -> {"none", "running", "done", "collected"}]
    /\ left \in [faults : Nat, acts : Nat]
    /\ closed \subseteq Delegates /\ excused \subseteq Delegates

Spend(f) == [left EXCEPT ![f] = @ - 1]
Fault == left.faults > 0
Act == left.acts > 0

At(d, s) == call[d].at = s

\* A delegate that is kept open keeps its permit.
PermittedKept == {d \in Delegates : call[d].at \in HasPermit \cup {"idle"}}

\* The holders of the concurrency permits: calls past their wait for one.
Permitted == {d \in Delegates : call[d].at \in HasPermit}

PermitFree == Cardinality(Permitted) < permits

\* The account's slot is taken by a call that opens or runs a session there.
Busy(a) == \E d \in Delegates : call[d].at \in HasSlot /\ a \in call[d].agent

\* What a delegation asks before it goes on: the session exists and is not
\* cancelled, and a planner run is dispatching.
Unwanted == ~parent.open \/ parent.cancelled
Suspended == parent.planner /\ suspended

(***************************************************************************)
(* Ends of a call.                                                         *)
(***************************************************************************)
\* A background job records its result if the parent still has the job.
JobAfter(d) == IF job[d] = "running" THEN [job EXCEPT ![d] = "done"] ELSE job

\* The call is over; a live delegate waits for the next one.
Ended(d) ==
    /\ call' = [call EXCEPT ![d] = [NoCall EXCEPT
                  !.at = IF d \in live' THEN "idle" ELSE "over",
                  !.turn = IF d \in live' THEN call[d].turn ELSE 0,
                  !.agent = IF d \in live' THEN call[d].agent ELSE {}]]
    /\ job' = JobAfter(d)

\* Teardown: the handle, the session, the handoff and this delegate's token go,
\* and the host hears of the stop unless another account takes the worker over.
Teardown(d, told) ==
    /\ sess' = [sess EXCEPT ![d] = FALSE]
    /\ handles' = handles \ {d}
    /\ tokens' = tokens \ {d}
    /\ handoff' = [handoff EXCEPT ![d] = 0]
    /\ host' = [host EXCEPT ![d] = IF told /\ @ = "started" THEN "stopped" ELSE @]

\* A call that ends before it reached a session of its own: a worker the host
\* has known since an earlier account is then nobody's.
Refused(d) ==
    /\ live' = live
    /\ Ended(d)
    /\ excused' = IF host[d] = "started" /\ d \notin live THEN excused \cup {d} ELSE excused
    /\ UNCHANGED <<session, sess, handles, tokens, host, handoff, left, closed>>

(***************************************************************************)
(* A delegation, from the call to the prompt.                              *)
(***************************************************************************)
\* delegate_task; a background job is registered before its task runs.
Delegate(d) ==
    /\ At(d, "none") /\ ~Unwanted /\ ~Suspended
    /\ call' = [call EXCEPT ![d].at = "queued"]
    /\ job' = [job EXCEPT ![d] = IF d \in Background /\ ~parent.planner THEN "running" ELSE @]
    /\ UNCHANGED <<session, worker, left, closed, excused>>

\* The permit; then the parent is looked at and the pool is ranked without
\* the accounts that have failed.
Rank(d) ==
    /\ At(d, "queued") /\ ~call[d].follow /\ PermitFree
    /\ IF Unwanted \/ Agents \subseteq call[d].failed
       THEN Refused(d)
       ELSE /\ call' = [call EXCEPT ![d] = [@ EXCEPT !.at = "ranked",
                                                     !.rest = Agents \ call[d].failed]]
            /\ UNCHANGED <<session, worker, job, left, closed, excused>>

\* The next candidate: a full account is skipped while another remains, the
\* last one is waited for. A worker token is issued for the new session.
TakeSlot(d) ==
    /\ At(d, "ranked")
    /\ IF Suspended \/ call[d].rest = {}
       THEN Refused(d)
       ELSE \E a \in call[d].rest :
              /\ Busy(a) => Cardinality(call[d].rest) > 1
              /\ call' = [call EXCEPT ![d] = [@ EXCEPT
                    !.rest = call[d].rest \ {a},
                    !.at = IF Busy(a) THEN "ranked" ELSE "opening",
                    !.agent = IF Busy(a) THEN {} ELSE {a}]]
              /\ tokens' = IF Busy(a) THEN tokens ELSE tokens \cup {d}
              /\ UNCHANGED <<session, sess, handles, live, host, handoff, job, left, closed,
                             excused>>

\* The account does not open a session, or the session refuses the effort or
\* the mode: its token and session go and the next candidate is tried.
OpenFails(d) ==
    /\ At(d, "opening") /\ Fault
    /\ left' = Spend("faults")
    /\ tokens' = tokens \ {d}
    /\ call' = [call EXCEPT ![d] = [@ EXCEPT !.at = "ranked", !.agent = {}]]
    /\ UNCHANGED <<session, sess, handles, live, host, handoff, job, closed, excused>>

Opened(d) ==
    /\ At(d, "opening")
    /\ sess' = [sess EXCEPT ![d] = TRUE]
    /\ call' = [call EXCEPT ![d].at = "starting"]
    /\ UNCHANGED <<session, handles, live, tokens, host, handoff, job, left, closed, excused>>

\* The host refuses the worker or does not answer, and may have registered it.
StartRefused(d) ==
    /\ At(d, "starting") /\ Fault
    /\ left' = Spend("faults")
    /\ Teardown(d, TRUE)
    /\ live' = live
    /\ Ended(d)
    /\ UNCHANGED <<session, closed, excused>>

\* The host has registered the worker. A parent that was cancelled or closed
\* meanwhile ends it; otherwise the prompt is sent.
StartAccepted(d) ==
    /\ At(d, "starting")
    /\ live' = live
    /\ IF Unwanted \/ Suspended
       THEN /\ sess' = [sess EXCEPT ![d] = FALSE]
            /\ handles' = IF parent.open THEN handles \cup {d} ELSE handles
            /\ tokens' = tokens \ {d}
            /\ host' = [host EXCEPT ![d] = "stopped"]
            /\ Ended(d)
       ELSE /\ host' = [host EXCEPT ![d] = "started"]
            /\ handles' = handles \cup {d}
            /\ call' = [call EXCEPT ![d] = [@ EXCEPT !.at = "running", !.turn = call[d].turn + 1]]
            /\ UNCHANGED <<sess, tokens, job>>
    /\ UNCHANGED <<session, handoff, left, closed, excused>>

(***************************************************************************)
(* The turn and its end.                                                   *)
(***************************************************************************)
\* worker_handoff: any time its token is valid.
WorkerHandoff(d) ==
    /\ d \in tokens /\ call[d].at \in {"running", "judging", "idle"} /\ sess[d]
    /\ handoff[d] # call[d].turn
    /\ handoff' = [handoff EXCEPT ![d] = call[d].turn]
    /\ UNCHANGED <<session, call, sess, handles, live, tokens, host, job, left, closed, excused>>

\* The turn ends normally and the host is asked to judge it.
TurnEnds(d) ==
    /\ At(d, "running")
    /\ call' = [call EXCEPT ![d].at = "judging"]
    /\ UNCHANGED <<session, worker, job, left, closed, excused>>

\* The host sends the worker back: its handoff is forgotten and a new turn
\* starts, unless the parent was cancelled.
HostContinues(d) ==
    /\ At(d, "judging") /\ call[d].cont < MaxTurns
    /\ handoff' = [handoff EXCEPT ![d] = 0]
    /\ call' = [call EXCEPT ![d] = [@ EXCEPT
                  !.at = "running", !.cont = call[d].cont + 1, !.turn = call[d].turn + 1]]
    /\ UNCHANGED <<session, sess, handles, live, tokens, host, job, left, closed, excused>>

\* The host releases the turn. A first call leaves a kept delegate in the
\* registry even when its parent was closed while the host was judging, and
\* then nobody reports its stop.
HostReleases(d) ==
    /\ At(d, "judging")
    /\ IF call[d].follow
       THEN live' = live /\ UNCHANGED <<sess, handles, tokens, host, handoff, excused>>
       ELSE IF d \in Kept
       THEN /\ live' = live \cup {d}
            /\ excused' = IF d \in handles THEN excused ELSE excused \cup {d}
            /\ UNCHANGED <<sess, handles, tokens, host, handoff>>
       ELSE live' = live /\ Teardown(d, TRUE) /\ UNCHANGED excused
    /\ Ended(d)
    /\ UNCHANGED <<session, left, closed>>

\* A delegate opened with keep_open outlives its failed first call.
FailsKept(d) ==
    /\ live' = live
    /\ IF call[d].follow \/ d \in Kept THEN UNCHANGED <<sess, handles, tokens, host, handoff>>
       ELSE Teardown(d, TRUE)
    /\ Ended(d)

\* A failed call gives its worker up; a failed follow-up leaves it open.
Fails(d) ==
    /\ live' = live
    /\ IF call[d].follow THEN UNCHANGED <<sess, handles, tokens, host, handoff>>
       ELSE Teardown(d, TRUE)
    /\ Ended(d)

\* Cancelled by the agent or by the quarter-second check of the parent, which
\* does not ask whether the parent is a planner.
TurnCancelled(d) ==
    /\ At(d, "running") /\ Unwanted
    /\ Fails(d)
    /\ UNCHANGED <<session, left, closed, excused>>

\* The adapter stays silent past the stall limits, refuses to go on or loses
\* the session: not a routing failure.
TurnBreaks(d) ==
    /\ At(d, "running") /\ (Fault \/ ~sess[d])
    /\ left' = IF sess[d] THEN Spend("faults") ELSE left
    /\ Fails(d)
    /\ UNCHANGED <<session, closed, excused>>

\* The failover forgets that its delegate may be gone.
FailoverBlind(d) == TRUE

\* The follow-up's failover needs its entry in the registry.
FailoverOwned(d) == call[d].follow => d \in live

\* The account became unavailable: unless the parent is cancelled or the
\* attempts are used up, the worker goes on with another one, under the same
\* identity; its slot and its permit are released first and the host is not
\* told of a stop.
TurnFailsOver(d) ==
    /\ At(d, "running") /\ Fault
    /\ left' = Spend("faults")
    /\ IF Unwanted \/ Cardinality(call[d].failed) + 1 >= MaxAttempts \/ ~FailoverOwned(d)
       THEN Fails(d) /\ UNCHANGED <<session, closed, excused>>
       ELSE /\ Teardown(d, FALSE)
            /\ live' = live \ {d}
            /\ call' = [call EXCEPT ![d] = [NoCall EXCEPT
                  !.at = "queued", !.turn = call[d].turn,
                  !.failed = (IF call[d].follow THEN {} ELSE call[d].failed) \cup call[d].agent]]
            /\ UNCHANGED <<session, job, closed, excused>>

(***************************************************************************)
(* Follow-ups, closing and collecting.                                     *)
(***************************************************************************)
\* delegate_followup by the parent, or an operator's message to an idle child.
Followup(d) ==
    /\ At(d, "idle") /\ d \in live /\ parent.open /\ ~Suspended /\ Act
    /\ left' = Spend("acts")
    /\ call' = [call EXCEPT ![d] = [@ EXCEPT !.at = "queued", !.follow = TRUE]]
    /\ job' = [job EXCEPT ![d] = IF d \in Background /\ ~parent.planner THEN "running" ELSE @]
    /\ UNCHANGED <<session, worker, closed, excused>>

\* The permit and the lookup, then the account's slot.
FollowupFound(d) ==
    /\ At(d, "queued") /\ call[d].follow /\ PermitFree
    /\ IF d \notin live
       THEN Refused(d)
       ELSE /\ call' = [call EXCEPT ![d].at = "slot"]
            /\ UNCHANGED <<session, worker, job, left, closed, excused>>

\* The next turn keeps the handoff of the last one.
NextHandoffKept(d) == handoff

\* A new turn starts without a handoff.
NextHandoff(d) == [handoff EXCEPT ![d] = 0]

FollowupRuns(d) ==
    /\ At(d, "slot") /\ call[d].follow /\ \A a \in call[d].agent : ~Busy(a)
    /\ handoff' = NextHandoff(d)
    /\ live' = live
    /\ IF parent.open /\ parent.cancelled
       THEN Ended(d)
       ELSE /\ call' = [call EXCEPT ![d] = [@ EXCEPT !.at = "running", !.turn = call[d].turn + 1]]
            /\ UNCHANGED job
    /\ UNCHANGED <<session, sess, handles, tokens, host, left, closed, excused>>

\* delegate_close: the session ends and the host hears of it, a running
\* follow-up or not.
Close(d) ==
    /\ d \in live /\ parent.open /\ Act
    /\ left' = Spend("acts")
    /\ live' = live \ {d}
    /\ Teardown(d, TRUE)
    /\ closed' = closed \cup {d}
    /\ call' = [call EXCEPT ![d] = IF At(d, "idle") THEN [NoCall EXCEPT !.at = "over"] ELSE @]
    /\ UNCHANGED <<session, job, excused>>

\* Awaiting takes unfinished jobs out of the registry as well.
CollectedAll == [d \in Delegates |-> IF job[d] = "running" THEN "none"
                                     ELSE IF job[d] = "done" THEN "collected" ELSE job[d]]

\* Finished results are taken out of the registry, each once.
Collected == [d \in Delegates |-> IF job[d] = "done" THEN "collected" ELSE job[d]]

\* delegate_await returns with the finished results of an ordinary parent; a
\* planner's workers report through wakes.
Await ==
    /\ parent.open /\ ~parent.planner /\ \E d \in Delegates : job[d] = "done"
    /\ job' = Collected
    /\ UNCHANGED <<session, call, worker, left, closed, excused>>

(***************************************************************************)
(* The parent.                                                             *)
(***************************************************************************)
\* session/cancel: the flag; an ordinary parent's delegates are told as well,
\* which ends a turn through TurnCancelled.
CancelParent ==
    /\ parent.open /\ ~parent.cancelled /\ Act
    /\ left' = Spend("acts")
    /\ parent' = [parent EXCEPT !.cancelled = TRUE]
    /\ UNCHANGED <<suspended, permits, call, worker, job, closed, excused>>

\* The next prompt clears the flag.
PromptParent ==
    /\ parent.open /\ parent.cancelled /\ Act
    /\ left' = Spend("acts")
    /\ parent' = [parent EXCEPT !.cancelled = FALSE]
    /\ UNCHANGED <<suspended, permits, call, worker, job, closed, excused>>

\* The live delegates are closed without a word to the host.
HostAfterCloseSilent == host

\* The host hears of the end of every live delegate.
HostAfterClose == [d \in Delegates |-> IF d \in live /\ host[d] = "started" THEN "stopped"
                                       ELSE host[d]]

\* Every session the parent has a handle of, and every live delegate.
CloseSessions == live \cup handles

\* session/close or delete: handles are cancelled and closed, live delegates
\* are finished, jobs are dropped and a planner run is paused.
CloseParent ==
    /\ parent.open /\ Act
    /\ left' = Spend("acts")
    /\ parent' = [parent EXCEPT !.open = FALSE, !.cancelled = TRUE]
    /\ suspended' = TRUE
    /\ sess' = [d \in Delegates |-> sess[d] /\ d \notin CloseSessions]
    /\ handles' = {} /\ live' = {}
    /\ tokens' = tokens \ live
    /\ handoff' = [d \in Delegates |-> IF d \in live THEN 0 ELSE handoff[d]]
    /\ host' = HostAfterClose
    /\ job' = [d \in Delegates |-> IF job[d] = "collected" THEN "collected" ELSE "none"]
    /\ call' = [d \in Delegates |-> IF At(d, "idle") THEN [NoCall EXCEPT !.at = "over"]
                                    ELSE call[d]]
    /\ UNCHANGED <<permits, closed, excused>>

\* Loading the session again starts without the flag.
ReopenParent ==
    /\ ~parent.open /\ Act
    /\ left' = Spend("acts")
    /\ parent' = [parent EXCEPT !.open = TRUE, !.cancelled = FALSE]
    /\ UNCHANGED <<suspended, permits, call, worker, job, closed, excused>>

\* The planner's run is paused or resumed.
SuspendRun ==
    /\ parent.planner /\ Act
    /\ left' = Spend("acts")
    /\ suspended' = ~suspended
    /\ UNCHANGED <<parent, permits, call, worker, job, closed, excused>>

-----------------------------------------------------------------------------
Init ==
    /\ parent \in [open : {TRUE}, cancelled : {FALSE}, planner : BOOLEAN]
    /\ suspended = FALSE /\ permits \in Limits
    /\ call = [d \in Delegates |-> NoCall]
    /\ sess = [d \in Delegates |-> FALSE]
    /\ handles = {} /\ live = {} /\ tokens = {} /\ closed = {} /\ excused = {}
    /\ host = [d \in Delegates |-> "none"]
    /\ handoff = [d \in Delegates |-> 0]
    /\ job = [d \in Delegates |-> "none"]
    /\ left \in Budgets

\* What the router does by itself, and the answers and timers it waits for.
CallStep(d) ==
    \/ Rank(d) \/ TakeSlot(d) \/ Opened(d) \/ StartAccepted(d)
    \/ TurnEnds(d) \/ HostReleases(d) \/ TurnCancelled(d)
    \/ FollowupFound(d) \/ FollowupRuns(d)

\* A tool call of the parent, or the one tool of a worker, each served in a task
\* of its own.
ToolCall(d) == Delegate(d) \/ Followup(d) \/ Close(d) \/ Await \/ WorkerHandoff(d)

Next ==
    \/ \E d \in Delegates :
         \/ CallStep(d) \/ ToolCall(d) \/ OpenFails(d) \/ StartRefused(d)
         \/ HostContinues(d) \/ TurnBreaks(d) \/ TurnFailsOver(d)
    \/ CancelParent \/ PromptParent \/ CloseParent \/ ReopenParent \/ SuspendRun

Spec == Init /\ [][Next]_vars

\* A call that can go on does: the semaphores are first come, first served, a
\* session opens or fails, a turn replies or stalls, the host's hook is bounded
\* by a timeout.
Fairness == \A d \in Delegates : SF_vars(CallStep(d))

LiveSpec == Spec /\ Fairness

(***************************************************************************)
(* Properties.                                                             *)
(***************************************************************************)
\* The host is told of every stop: a worker it has registered belongs to a
\* call that is going on or to the registry of live delegates. Two ways out
\* are excused: no account is left when a failover ranks again, and a parent
\* that is closed while the host judges a turn.
HostAccounted ==
    \A d \in Delegates : host[d] = "started" =>
        call[d].at \in Active \/ d \in live \/ d \in excused

\* No session leaks: an open delegate session belongs to a call that is going
\* on or to a live delegate, and a worker token outlives neither.
NothingLeaks ==
    \A d \in Delegates : sess[d] \/ d \in tokens => call[d].at \in Active \/ d \in live

\* A closed delegate stays closed: no failover of a follow-up that was running
\* opens a session for it again.
ClosedStaysClosed ==
    \A d \in closed : ~sess[d] /\ d \notin live

\* The host judges the handoff of the turn that ended, never of one before it.
HandoffOfThisTurn ==
    [][\A d \in Delegates : At(d, "running") /\ call'[d].at = "judging"
          => handoff[d] \in {0, call[d].turn}]_vars

\* A background result is not lost: whatever the parent collects meanwhile,
\* an unfinished job stays registered until it has a result, unless the parent
\* is closed.
ResultKept ==
    [][\A d \in Background : job[d] = "running" /\ parent'.open
          => job'[d] \in {"running", "done"}]_vars

\* Every call ends: nobody waits for a permit or a slot forever.
CallEnds == \A d \in Delegates : (call[d].at \in Active) ~> (call[d].at \notin Active)

\* Cancelling a planner's turn stops that turn only: the turn of one of its
\* workers that the host does not release ends only by a fault or because its
\* session is gone.
PlannerWorkersGoOn ==
    [][\A d \in Delegates :
         parent.planner /\ parent.open /\ At(d, "running") /\ call'[d].at \in {"idle", "over"}
            => ~sess[d] \/ left'.faults < left.faults]_vars
=============================================================================
