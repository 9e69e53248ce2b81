------------------------------ MODULE ParentTurns ------------------------------
(***************************************************************************)
(* Who holds the turn of a planner parent.  Two sources prompt the same    *)
(* session: the client, for the operator (session::on_prompt), and the     *)
(* router's own wake loop, which delivers queued input and pending wakes   *)
(* (planner_wake).  An operator prompt is steered into a router-owned turn *)
(* or cancels it (planner_preempt); behind an operator's turn it is queued *)
(* in the durable run.  A watchdog ends turns whose adapter went quiet     *)
(* (planner_watchdog).                                                     *)
(*                                                                         *)
(* The run's queue, inputs, wakes and approval waits are durable; the      *)
(* flags of the turn in progress are this process's and die with it.       *)
(* Whether a tool call is running, what an adapter answers to a steer, and *)
(* how a turn ends are the environment's choices.  Retry times are a       *)
(* Boolean: a wake is due or it is backing off.                            *)
(***************************************************************************)
EXTENDS Naturals, Sequences, FiniteSets

CONSTANTS
    Prompts,       \* prompts the client sends for the operator
    Corrections,   \* inputs a monitor sends with `send-input`
    Commands,      \* the prompts that are an /implement
    Children,      \* wakes about child work, which the parent acknowledges
    Handoffs,      \* the child wakes that ask for ownership
    Reminders,     \* router-owned capacity wakes: one delivery answers each
    MaxCrashes,    \* how often the router may die
    NoInput        \* no queued input

ASSUME TurnAssumption ==
    /\ Commands \subseteq Prompts
    /\ Handoffs \subseteq Children
    /\ MaxCrashes \in Nat
    /\ NoInput \notin Prompts \cup Corrections
    /\ (Prompts \cup Corrections) \cap (Children \cup Reminders) = {}
    /\ "loop" \notin Prompts

Inputs == Prompts \cup Corrections
WakeIds == Inputs \cup Children \cup Reminders
Loop == "loop"
Holders == Prompts \cup {Loop}

VARIABLES
    \* durable: the planner run
    queue,      \* PlannerRun::parent_queue
    input,      \* PlannerRun::inputs, the receipts
    wake,       \* PlannerRun::wakes
    approvals,  \* PlannerRun::approval_waits: a live callback's, a dead one's
    \* this process
    client,     \* where each client prompt is
    task,       \* the delivery task of the wake loop
    turn,       \* the primary turn of each holder
    told,       \* who asked the adapter to cancel a holder's turn
    cancelled,  \* RouterSession::cancelled
    rt,         \* planner_guard::SessionRuntime: router_turn, preempted, ...
    steer,      \* the key a steer in flight carries
    crashes

durable == <<queue, input, wake, approvals>>
vars == <<queue, input, wake, approvals, client, task, turn, told, cancelled,
          rt, steer, crashes>>

Receipt == [recorded : BOOLEAN, interrupt : BOOLEAN, delivered : BOOLEAN, acked : BOOLEAN]
WakeRecord == [made : BOOLEAN, acked : BOOLEAN, due : BOOLEAN,
               claim : {"none", "live", "dead"}]

TypeOK ==
    /\ queue \in Seq(Inputs)
    /\ input \in [Inputs -> Receipt]
    /\ wake \in [WakeIds -> WakeRecord]
    /\ approvals \in SUBSET {"open", "orphan"}
    /\ client \in [Prompts -> {"unsent", "steering", "preempting", "dispatch",
                               "waiting", "turn", "kept", "answered", "lost"}]
    /\ task \in [at : {"none", "load", "claim", "turn", "settle"},
                 input : Inputs \cup {NoInput}, ids : SUBSET WakeIds,
                 owned : BOOLEAN, outcome : {"ok", "cancelled", "err"}]
    /\ turn \in [Holders -> {"none", "running", "stalled"}]
    /\ told \in [Holders -> {"no", "cancel", "prompt", "router", "watchdog"}]
    /\ cancelled \in BOOLEAN
    /\ rt \in [routerTurn : BOOLEAN, preempted : BOOLEAN, stalled : BOOLEAN,
               commandTurn : BOOLEAN, steered : SUBSET WakeIds]
    /\ steer \in WakeIds \cup {NoInput}
    /\ crashes \in 0..MaxCrashes

NoTask == [at |-> "none", input |-> NoInput, ids |-> {}, owned |-> FALSE,
           outcome |-> "ok"]
Quiet == [routerTurn |-> FALSE, preempted |-> FALSE, stalled |-> FALSE,
          commandTurn |-> FALSE, steered |-> {}]

\* A loaded run with an idle parent, which is done with the items of `past`.
Start(past, n) ==
    /\ queue = <<>>
    /\ input = [i \in Inputs |-> [recorded |-> i \in past, interrupt |-> FALSE,
                                  delivered |-> i \in past, acked |-> i \in past]]
    /\ wake = [w \in WakeIds |-> [made |-> w \in past, acked |-> w \in past,
                                  due |-> TRUE, claim |-> "none"]]
    /\ approvals = {}
    /\ client = [p \in Prompts |-> IF p \in past THEN "answered" ELSE "unsent"]
    /\ task = NoTask
    /\ turn = [h \in Holders |-> "none"]
    /\ told = [h \in Holders |-> "no"]
    /\ cancelled = FALSE
    /\ rt = Quiet
    /\ steer = NoInput
    /\ crashes = n

Init == Start({}, 0)

------------------------------------------------------------------------------
\* PromptActivity: one count per client prompt being handled and one for the
\* wake loop's task.
InHand == {"steering", "preempting", "dispatch", "waiting", "turn"}
HeldBy == {p \in Prompts : client[p] \in InHand}
WakeActive == task.at # "none"
\* Mutant: only the wake loop's own activity counts.
BusyWakeOnly == WakeActive

Busy == HeldBy # {} \/ WakeActive

\* Mutant: a claim holds whether its process lives or not.
HeldByAny(w) == wake[w].claim # "none"

\* A delivery of the wake is in progress: its claim names a process that lives.
Held(w) == wake[w].claim = "live"

Pending(w) == wake[w].made /\ ~wake[w].acked
InQueue(i) == \E k \in 1..Len(queue) : queue[k] = i
Human(i) == i \in Prompts
Without(i) == SelectSeq(queue, LAMBDA x : x # i)

\* queue_parent_request: the receipt, the queue entry and its wake.
Enqueue(i, interrupt) ==
    /\ input' = [input EXCEPT ![i].recorded = TRUE, ![i].interrupt = interrupt]
    /\ IF input[i].acked
       THEN UNCHANGED <<queue, wake>>
       ELSE /\ queue' = IF InQueue(i) THEN queue ELSE Append(queue, i)
            /\ wake' = [wake EXCEPT ![i].made = TRUE]

\* reconcile_delivered_inputs: when the last activity ends, an input that was
\* delivered to the parent and not acknowledged becomes a pending wake again.
\* A command's own input is left out.
Reconciled(receipts, wakes) ==
    [w \in WakeIds |->
        IF /\ w \in Inputs \ Commands
           /\ receipts[w].delivered /\ ~receipts[w].acked
        THEN [wakes[w] EXCEPT !.made = TRUE, !.acked = FALSE]
        ELSE wakes[w]]

\* planner_guard::parent_turn_ended, for the runtime flags.
TurnEnded(flags) ==
    IF flags.commandTurn
    THEN [flags EXCEPT !.commandTurn = FALSE, !.steered = {}]
    ELSE flags

\* planner_preempt::end_router_turn.
EndRouterTurn(flags) ==
    [flags EXCEPT !.routerTurn = FALSE, !.preempted = FALSE, !.steered = {}]

\* The prompt p is answered: its activity ends, and with the last activity the
\* parent's turn.
Answer(p, how, receipts, wakes, flags) ==
    /\ client' = [client EXCEPT ![p] = how]
    /\ input' = receipts
    /\ IF HeldBy = {p} /\ ~WakeActive
       THEN wake' = Reconciled(receipts, wakes) /\ rt' = TurnEnded(flags)
       ELSE wake' = wakes /\ rt' = flags

\* planner_preempt::preempt up to its wait: the session is cancelled and so is
\* whatever turn its adapter runs.
Preempt(by) ==
    /\ rt' = [rt EXCEPT !.preempted = TRUE]
    /\ cancelled' = TRUE
    /\ told' = [h \in Holders |-> IF turn[h] # "none" THEN by ELSE told[h]]
------------------------------------------------------------------------------
(* The client's prompts: session::on_prompt and dispatch_prompt.           *)

\* A prompt during a router-owned turn is steered or preempts; during any
\* other turn it is queued; else it is this prompt's own turn.
OnPrompt(p) ==
    /\ client[p] = "unsent"
    /\ \/ /\ rt.routerTurn /\ Busy
          /\ client' = [client EXCEPT ![p] = "steering"]
          /\ UNCHANGED <<queue, input, wake>>
       \/ /\ ~rt.routerTurn /\ Busy
          /\ client' = [client EXCEPT ![p] = "kept"]
          /\ Enqueue(p, FALSE)
       \/ /\ ~Busy
          /\ client' = [client EXCEPT ![p] = "dispatch"]
          /\ UNCHANGED <<queue, input, wake>>
    /\ UNCHANGED <<approvals, task, turn, told, cancelled, rt, steer, crashes>>

\* The adapter took the steered prompt: record_steered_input.
PromptSteered(p) ==
    /\ client[p] = "steering" /\ p \notin Commands
    /\ Answer(p, "answered",
              [input EXCEPT ![p].recorded = TRUE, ![p].delivered = TRUE], wake, rt)
    /\ UNCHANGED <<queue, approvals, task, turn, told, cancelled, steer, crashes>>

\* The adapter declined it, or the prompt is a command: cancel the turn.
PromptPreempts(p) ==
    /\ client[p] = "steering"
    /\ client' = [client EXCEPT ![p] = "preempting"]
    /\ Preempt("prompt")
    /\ UNCHANGED <<durable, task, turn, steer, crashes>>

\* preempt's wait: the router-owned turn ended, or it ignored its cancel and
\* the prompt is queued.
PreemptEnds(p) ==
    /\ client[p] = "preempting"
    /\ \/ /\ ~rt.routerTurn
          /\ client' = [client EXCEPT ![p] = "dispatch"]
          /\ UNCHANGED <<queue, input, wake, rt>>
       \/ /\ rt.routerTurn
          /\ client' = [client EXCEPT ![p] = "kept"]
          /\ Enqueue(p, FALSE)
          /\ UNCHANGED rt
    /\ UNCHANGED <<approvals, task, turn, told, cancelled, steer, crashes>>

\* continue_prompt up to dispatch_prompt's wait: the prompt is recorded
\* (observe_input, or user_command for a command).
Prepare(p) ==
    /\ client[p] = "dispatch"
    /\ client' = [client EXCEPT ![p] = "waiting"]
    /\ input' = [input EXCEPT ![p].recorded = TRUE]
    /\ rt' = [rt EXCEPT !.commandTurn = @ \/ p \in Commands]
    /\ UNCHANGED <<queue, wake, approvals, task, turn, told, cancelled, steer, crashes>>

\* prepare_parent_prompt refuses it (an unusable directive or command).
PrepareFails(p) ==
    /\ client[p] = "dispatch"
    /\ Answer(p, "lost", input, wake, rt)
    /\ UNCHANGED <<queue, approvals, task, turn, told, cancelled, steer, crashes>>

\* dispatch_prompt: the turn starts once no automatic turn is active; after
\* five seconds the prompt is refused instead.
Dispatch(p) ==
    /\ client[p] = "waiting"
    /\ IF WakeActive
       THEN /\ Answer(p, "lost", input, wake, rt)
            /\ UNCHANGED <<turn, told, cancelled>>
       ELSE /\ client' = [client EXCEPT ![p] = "turn"]
            /\ cancelled' = FALSE
            /\ turn' = [turn EXCEPT ![p] = "running"]
            /\ told' = [told EXCEPT ![p] = "no"]
            /\ rt' = [rt EXCEPT !.stalled = FALSE]
            /\ UNCHANGED <<input, wake>>
    /\ UNCHANGED <<queue, approvals, task, steer, crashes>>

\* session::on_cancel.
OnCancel ==
    /\ \E h \in Holders : turn[h] # "none"
    /\ cancelled' = TRUE
    /\ told' = [h \in Holders |-> IF turn[h] # "none" THEN "cancel" ELSE told[h]]
    /\ UNCHANGED <<durable, client, task, turn, rt, steer, crashes>>
------------------------------------------------------------------------------
(* The wake loop: planner_wake::spawn, deliver and deliver_queued_input.   *)

\* The loop has something to deliver: queued input first, and only when due.
Deliverable ==
    /\ approvals = {}
    /\ IF queue # <<>>
       THEN wake[Head(queue)].due
       ELSE \E w \in WakeIds : Pending(w)

\* PromptActivity::idle and begin_router_turn.  Only an operator's own queued
\* prompt is a protected turn.
Tick ==
    /\ Deliverable
    /\ ~Busy
    /\ LET owned == queue = <<>> \/ ~Human(Head(queue))
       IN /\ task' = [NoTask EXCEPT !.at = "load", !.owned = owned]
          /\ rt' = IF owned THEN [rt EXCEPT !.routerTurn = TRUE, !.preempted = FALSE]
                            ELSE rt
    /\ cancelled' = FALSE
    /\ UNCHANGED <<durable, client, turn, told, steer, crashes>>

\* deliver reads the run: the head of the queue, or the pending wakes.
Load ==
    /\ task.at = "load"
    /\ IF queue # <<>>
       THEN /\ task' = [task EXCEPT !.at = "claim", !.input = Head(queue)]
            /\ rt' = IF Human(Head(queue)) THEN EndRouterTurn(rt) ELSE rt
       ELSE task' = [task EXCEPT !.at = "claim"] /\ UNCHANGED rt
    /\ UNCHANGED <<durable, client, turn, told, cancelled, steer, crashes>>

Claimable(w) == Pending(w) /\ wake[w].due /\ ~Held(w)

Claim(ids) ==
    wake' = [w \in WakeIds |->
                IF w \in ids THEN [wake[w] EXCEPT !.claim = "live", !.due = FALSE]
                             ELSE wake[w]]

StartLoopTurn(ids) ==
    /\ task' = [task EXCEPT !.at = "turn", !.ids = ids]
    /\ turn' = [turn EXCEPT ![Loop] = "running"]
    /\ told' = [told EXCEPT ![Loop] = "no"]
    /\ rt' = [rt EXCEPT !.stalled = FALSE]

\* Mutant: the flag of a router-owned turn is left up.
FinishTaskFlagUp(wakes, flags) ==
    /\ task' = NoTask
    /\ wake' = IF HeldBy = {} THEN Reconciled(input, wakes) ELSE wakes
    /\ rt' = IF HeldBy = {} THEN TurnEnded(flags) ELSE flags

\* The delivery ends: the router-owned turn is over, and so is the activity.
FinishTask(wakes, flags) ==
    LET after == IF task.owned THEN EndRouterTurn(flags) ELSE flags
    IN /\ task' = NoTask
       /\ wake' = IF HeldBy = {} THEN Reconciled(input, wakes) ELSE wakes
       /\ rt' = IF HeldBy = {} THEN TurnEnded(after) ELSE after

\* planner_watchdog::take_stalled.
TakeStalled == [rt EXCEPT !.stalled = FALSE]

\* The claim of the pending wakes, in one save of the run.
ClaimWakes ==
    /\ task.at = "claim" /\ task.input = NoInput
    /\ LET ids == IF approvals # {} THEN {} ELSE {w \in WakeIds : Claimable(w)}
       IN IF ids = {}
          THEN FinishTask(wake, rt) /\ UNCHANGED <<turn, told>>
          ELSE Claim(ids) /\ StartLoopTurn(ids)
    /\ UNCHANGED <<queue, input, approvals, client, cancelled, steer, crashes>>

\* The claim of the queued input.  It is refused when the input was resolved
\* meanwhile, is not first any more, or has a live delivery.
ClaimInput ==
    /\ task.at = "claim" /\ task.input # NoInput
    /\ IF /\ ~input[task.input].acked
          /\ queue # <<>> /\ Head(queue) = task.input
          /\ ~Held(task.input)
       THEN Claim({task.input}) /\ StartLoopTurn({task.input})
       ELSE FinishTask(wake, rt) /\ UNCHANGED <<turn, told>>
    /\ UNCHANGED <<queue, input, approvals, client, cancelled, steer, crashes>>

\* Mutant: an interrupted delivery keeps its claim.
SettledWakeClaimed(w) ==
    IF rt.preempted \/ rt.stalled THEN wake[w]
    ELSE [wake[w] EXCEPT !.claim = "none", !.acked = @ \/ w \in Reminders]

\* Mutant: one delivery answers a wake of any kind.
SettledWakeAcked(w) ==
    IF ~Held(w) THEN wake[w]
    ELSE IF rt.preempted \/ rt.stalled
         THEN [wake[w] EXCEPT !.claim = "none", !.due = TRUE]
         ELSE [wake[w] EXCEPT !.claim = "none", !.acked = TRUE]

\* After the turn.  A preempted or stalled turn answered nothing: its wakes
\* stay pending and are due at once.  Otherwise one delivery answers a
\* router-owned wake.
SettledWake(w) ==
    IF ~Held(w) THEN wake[w]
    ELSE IF rt.preempted \/ rt.stalled
         THEN [wake[w] EXCEPT !.claim = "none", !.due = TRUE]
         ELSE [wake[w] EXCEPT !.claim = "none", !.acked = @ \/ w \in Reminders]

SettleWakes ==
    /\ task.at = "settle" /\ task.input = NoInput
    /\ FinishTask([w \in WakeIds |-> IF w \in task.ids THEN SettledWake(w) ELSE wake[w]],
                  TakeStalled)
    /\ UNCHANGED <<queue, input, approvals, client, turn, told, cancelled, steer, crashes>>

\* An interrupted correction stays first; an input whose turn returned leaves
\* the queue.
Interrupted(i) ==
    ~Human(i) /\ (rt.preempted \/ rt.stalled \/ task.outcome = "cancelled")

SettleInput ==
    /\ task.at = "settle" /\ task.input # NoInput
    /\ LET i == task.input
           mine == Held(i)
           wakes == IF ~mine THEN wake
                    ELSE [wake EXCEPT ![i].claim = "none",
                                      ![i].due = @ \/ Interrupted(i)]
       IN /\ queue' = IF /\ mine /\ ~Interrupted(i) /\ task.outcome # "err"
                         /\ queue # <<>> /\ Head(queue) = i
                      THEN Tail(queue) ELSE queue
          /\ FinishTask(wakes, TakeStalled)
    /\ UNCHANGED <<input, approvals, client, turn, told, cancelled, steer, crashes>>

\* pending_steer: an interrupting correction, else the first unacknowledged
\* queued input unless it is an operator's, else an urgent wake.
SteerKeys(done) ==
    LET open == SelectSeq(queue, LAMBDA i : ~wake[i].acked)
        loud == SelectSeq(open, LAMBDA i : input[i].interrupt /\ i \notin done)
        first == IF loud # <<>> THEN {Head(loud)}
                 ELSE IF open # <<>> THEN {Head(open)} ELSE {}
        inputs == {i \in first : i \notin done /\ ~Held(i) /\ ~Human(i)}
        urgent == {w \in Handoffs \cup Reminders :
                      Pending(w) /\ w \notin done /\ ~Held(w)}
    IN IF inputs # {} THEN inputs
       ELSE IF urgent \cap Handoffs # {} THEN urgent \cap Handoffs ELSE urgent

\* steer_pending: the parent is busy with a router-owned turn or a command's.
\* A command's turn takes only interrupting input and idle capacity.
SteerPending ==
    /\ Deliverable /\ Busy
    /\ rt.routerTurn \/ rt.commandTurn
    /\ steer = NoInput
    /\ \E key \in SteerKeys(rt.steered) :
          /\ \/ rt.routerTurn
             \/ key \in Reminders
             \/ key \in Inputs /\ input[key].interrupt
          /\ steer' = key
    /\ UNCHANGED <<durable, client, task, turn, told, cancelled, rt, crashes>>

SteerInjected ==
    /\ steer # NoInput
    /\ rt' = IF rt.routerTurn \/ rt.commandTurn
             THEN [rt EXCEPT !.steered = @ \cup {steer}] ELSE rt
    /\ steer' = NoInput
    /\ UNCHANGED <<durable, client, task, turn, told, cancelled, crashes>>

\* Mutant: whose turn it is now is not asked again.
StillDueAnyTurn(key) ==
    /\ approvals = {}
    /\ queue = <<>> \/ ~Human(Head(queue))
    /\ key \in SteerKeys({})

\* A declined correction or handoff cancels the router-owned turn, if it is
\* still the thing to steer once the answer is there.
StillDue(key) ==
    /\ rt.routerTurn
    /\ approvals = {}
    /\ queue = <<>> \/ ~Human(Head(queue))
    /\ key \in SteerKeys({})

SteerDeclined ==
    /\ steer # NoInput
    /\ IF steer \in Corrections \cup Handoffs /\ StillDue(steer)
       THEN Preempt("router")
       ELSE UNCHANGED <<rt, cancelled, told>>
    /\ steer' = NoInput
    /\ UNCHANGED <<durable, client, task, turn, crashes>>
------------------------------------------------------------------------------
(* The turns: run_primary_turn under guard_parent_turn.                    *)

\* The inputs a holder's prompt carries, whose delivery it confirms.
Carried(h) == IF h = Loop THEN task.ids \cap Inputs ELSE {h}

Delivered(h) == [i \in Inputs |-> IF i \in Carried(h)
                                  THEN [input[i] EXCEPT !.delivered = TRUE]
                                  ELSE input[i]]

\* confirm_delivery at the first output of the agent.
Output(h) ==
    /\ turn[h] # "none"
    /\ \E i \in Carried(h) : ~input[i].delivered
    /\ input' = Delivered(h)
    /\ UNCHANGED <<queue, wake, approvals, client, task, turn, told, cancelled,
                   rt, steer, crashes>>

\* The turn of h is over.  The wake loop's task goes on; a client prompt is
\* answered.
LeaveTurn(h, outcome, receipts, flags) ==
    /\ turn' = [turn EXCEPT ![h] = "none"]
    /\ told' = [told EXCEPT ![h] = "no"]
    /\ IF h = Loop
       THEN /\ task' = [task EXCEPT !.at = "settle", !.outcome = outcome]
            /\ input' = receipts
            /\ rt' = flags
            /\ UNCHANGED <<wake, client>>
       ELSE Answer(h, "answered", receipts, wake, flags) /\ UNCHANGED task

\* The adapter answers, or send_primary_prompt sees the session cancelled.  An
\* answer of either kind confirms the delivery; an error does not.
TurnReturns(h) ==
    /\ turn[h] # "none"
    /\ \E outcome \in {"ok", "cancelled", "err"} :
          /\ outcome = "cancelled" => cancelled \/ told[h] # "no"
          /\ LeaveTurn(h, outcome, IF outcome = "err" THEN input ELSE Delivered(h), rt)
    /\ UNCHANGED <<queue, approvals, cancelled, steer, crashes>>

\* The watchdog: no progress for the limit, and nobody owes an answer.
Stall(h) ==
    /\ turn[h] = "running"
    /\ approvals = {}
    /\ turn' = [turn EXCEPT ![h] = "stalled"]
    /\ told' = [told EXCEPT ![h] = "watchdog"]
    /\ rt' = [rt EXCEPT !.stalled = TRUE]
    /\ UNCHANGED <<durable, client, task, cancelled, steer, crashes>>

\* The stalled turn came back during its grace.
Revive(h) ==
    /\ turn[h] = "stalled"
    /\ turn' = [turn EXCEPT ![h] = "running"]
    /\ rt' = [rt EXCEPT !.stalled = FALSE]
    /\ UNCHANGED <<durable, client, task, told, cancelled, steer, crashes>>

\* It ignored its cancel: the router lets it go and restarts the adapter.
Release(h) ==
    /\ turn[h] = "stalled"
    /\ cancelled' = TRUE
    /\ LeaveTurn(h, "cancelled", input, rt)
    /\ UNCHANGED <<queue, approvals, steer, crashes>>

\* track_approval: a permission request or a question to the operator.
AskApproval ==
    /\ "open" \notin approvals
    /\ \E h \in Holders : turn[h] = "running"
    /\ approvals' = approvals \cup {"open"}
    /\ UNCHANGED <<queue, input, wake, client, task, turn, told, cancelled, rt,
                   steer, crashes>>

\* The client answers it.  Only the process that asked has the callback.
AnswerApproval ==
    /\ "open" \in approvals
    /\ approvals' = approvals \ {"open"}
    /\ UNCHANGED <<queue, input, wake, client, task, turn, told, cancelled, rt,
                   steer, crashes>>

\* The parent's agent acknowledges an input that was delivered to it.
AcknowledgeInput(i) ==
    /\ \E h \in Holders : turn[h] # "none"
    /\ input[i].delivered /\ ~input[i].acked
    /\ input' = [input EXCEPT ![i].acked = TRUE]
    /\ wake' = [wake EXCEPT ![i].acked = @ \/ wake[i].made]
    /\ queue' = Without(i)
    /\ UNCHANGED <<approvals, client, task, turn, told, cancelled, rt, steer, crashes>>

\* The parent's agent acknowledges a child's wake.
AcknowledgeWake(w) ==
    /\ \E h \in Holders : turn[h] # "none"
    /\ w \in Children /\ Pending(w)
    /\ wake' = [wake EXCEPT ![w].acked = TRUE]
    /\ UNCHANGED <<queue, input, approvals, client, task, turn, told, cancelled,
                   rt, steer, crashes>>
------------------------------------------------------------------------------
(* Other processes and time.                                               *)

\* planner_input::send_from.  The same id again is only reported.
SendInput(i) ==
    /\ ~input[i].recorded
    /\ \E interrupt \in BOOLEAN : Enqueue(i, interrupt)
    /\ UNCHANGED <<approvals, client, task, turn, told, cancelled, rt, steer, crashes>>

\* planner_input::withdraw, refused while a delivery is active.
Withdraw(i) ==
    /\ input[i].recorded /\ ~input[i].acked
    /\ ~Held(i)
    /\ input' = [input EXCEPT ![i].acked = TRUE]
    /\ wake' = [wake EXCEPT ![i].acked = @ \/ wake[i].made, ![i].claim = "none"]
    /\ queue' = Without(i)
    /\ UNCHANGED <<approvals, client, task, turn, told, cancelled, rt, steer, crashes>>

\* A child's transition or a capacity condition makes a wake.
MakeWake(w) ==
    /\ ~wake[w].made
    /\ wake' = [wake EXCEPT ![w].made = TRUE]
    /\ UNCHANGED <<queue, input, approvals, client, task, turn, told, cancelled,
                   rt, steer, crashes>>

\* A wake's retry time passes.
BackoffEnds(w) ==
    /\ Pending(w) /\ ~wake[w].due /\ ~Held(w)
    /\ wake' = [wake EXCEPT ![w].due = TRUE]
    /\ UNCHANGED <<queue, input, approvals, client, task, turn, told, cancelled,
                   rt, steer, crashes>>

\* The router dies and the session is loaded again.  The run survives; its
\* claims now name a dead process.
Crash ==
    /\ crashes < MaxCrashes
    /\ crashes' = crashes + 1
    /\ wake' = [w \in WakeIds |-> IF wake[w].claim = "live"
                                  THEN [wake[w] EXCEPT !.claim = "dead"] ELSE wake[w]]
    /\ client' = [p \in Prompts |-> IF p \in HeldBy THEN "lost" ELSE client[p]]
    /\ task' = NoTask
    /\ turn' = [h \in Holders |-> "none"]
    /\ told' = [h \in Holders |-> "no"]
    /\ cancelled' = FALSE
    /\ rt' = Quiet
    /\ steer' = NoInput
    /\ approvals' = {"orphan" : a \in approvals}
    /\ UNCHANGED <<queue, input>>

Next ==
    \/ \E p \in Prompts :
          \/ OnPrompt(p) \/ PromptSteered(p) \/ PromptPreempts(p) \/ PreemptEnds(p)
          \/ Prepare(p) \/ PrepareFails(p) \/ Dispatch(p)
    \/ OnCancel
    \/ Tick \/ Load \/ ClaimWakes \/ ClaimInput \/ SettleWakes \/ SettleInput
    \/ SteerPending \/ SteerInjected \/ SteerDeclined
    \/ \E h \in Holders :
          Output(h) \/ TurnReturns(h) \/ Stall(h) \/ Revive(h) \/ Release(h)
    \/ AskApproval \/ AnswerApproval
    \/ \E i \in Inputs : AcknowledgeInput(i) \/ Withdraw(i)
    \/ \E i \in Corrections : SendInput(i)
    \/ \E w \in Children \cup Reminders : MakeWake(w)
    \/ \E w \in Children : AcknowledgeWake(w)
    \/ \E w \in WakeIds : BackoffEnds(w)
    \/ Crash

Spec == Init /\ [][Next]_vars

\* The router's tasks run, timers fire, adapters answer or the watchdog lets
\* them go, the operator answers what is asked, and of the deliveries that try
\* an input again and again one is neither interrupted nor stalled and completes.
TurnCompletes(h, i) ==
    /\ turn[h] # "none" /\ i \in Carried(h)
    /\ ~rt.preempted /\ ~rt.stalled
    /\ LeaveTurn(h, "ok", Delivered(h), rt)
    /\ UNCHANGED <<queue, approvals, cancelled, steer, crashes>>

\* Each of the first four is a chain of steps of which one at a time is enabled.
LoopStep == Tick \/ Load \/ ClaimWakes \/ ClaimInput \/ SettleWakes \/ SettleInput
PromptStep(p) ==
    \/ PromptSteered(p) \/ PromptPreempts(p) \/ PreemptEnds(p)
    \/ Prepare(p) \/ Dispatch(p)

Fairness ==
    /\ WF_vars(LoopStep)
    /\ WF_vars(\E p \in Prompts : PromptStep(p))
    /\ WF_vars(\E h \in Holders : TurnReturns(h))
    /\ WF_vars(SteerInjected \/ SteerDeclined)
    /\ WF_vars(AnswerApproval)
    /\ \A i \in Inputs : WF_vars(BackoffEnds(i))
    /\ SF_vars(~rt.preempted /\ Load)
    /\ SF_vars(~rt.preempted /\ (ClaimInput \/ ClaimWakes))
    /\ \A i \in Inputs : SF_vars(\E h \in Holders : TurnCompletes(h, i))

FairSpec == Spec /\ Fairness
------------------------------------------------------------------------------
(* Properties                                                              *)

\* The wake loop and an operator's prompt never run their turns at the same
\* time: PromptActivity::idle refuses a busy session, and dispatch_prompt waits
\* for the automatic turn to end.
OperatorAlone ==
    turn[Loop] # "none" => \A p \in Prompts : turn[p] = "none"

\* The router preempts for a queued correction or a handoff only its own turn,
\* neither the turn of an operator's prompt nor the delivery of a queued one,
\* though it decides so before the adapter's answer to the steer is there.
OperatorTurnKept ==
    /\ \A p \in Prompts : told[p] # "router"
    /\ task.input \in Prompts => told[Loop] # "router"

\* No prompt that meets a router-owned turn ends an operator's turn instead:
\* "An operator turn in flight keeps the queue" (planner_preempt).
PromptKeepsOperatorTurn ==
    /\ \A p \in Prompts : told[p] # "prompt"
    /\ task.input \in Prompts => told[Loop] # "prompt"

\* A wake's claim by this process belongs to the delivery in progress.  A claim
\* that outlived its delivery would hold the wake until the router exits.
ClaimsHeld ==
    \A w \in WakeIds : wake[w].claim = "live" =>
        task.at \in {"turn", "settle"} /\ w \in task.ids

\* The flag that sends an operator's prompt to preemption is up only while the
\* wake loop delivers, so that no prompt waits for a turn that is not there.
RouterTurnEnds == rt.routerTurn => WakeActive /\ task.owned

\* An input the client or the monitor was told is retained stays a pending wake
\* until it is acknowledged or withdrawn, whatever happens to its turns.
KeptStaysPending ==
    \A i \in Inputs :
        /\ IF Human(i) THEN client[i] = "kept" ELSE input[i].recorded
        /\ ~input[i].acked
        => Pending(i)

\* And it reaches the parent, unless it is withdrawn first.
KeptReachesParent ==
    \A i \in Inputs :
        InQueue(i) ~> input[i].delivered \/ input[i].acked \/ "orphan" \in approvals
================================================================================
