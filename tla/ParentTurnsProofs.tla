-------------------------- MODULE ParentTurnsProofs --------------------------
(***************************************************************************)
(* Proofs about the turns of a planner parent, for any number of prompts,  *)
(* corrections, wakes and crashes (src/src/planner_wake.rs,                *)
(* planner_preempt.rs, planner_guard.rs, session.rs).                      *)
(*                                                                         *)
(* Who runs a turn follows from where the client's prompts and the wake    *)
(* loop's task are (Roles); the router-owned flag and the claims belong to *)
(* the task in progress (Flag, Claims); what was retained is a wake that   *)
(* is acknowledged only with its input (Retained).                         *)
(*                                                                         *)
(* The order of the queue matters to none of them, and what SelectSeq      *)
(* leaves of it is beyond the prover, so the invariant says nothing of the *)
(* queue and leaves open what the task's input, an answer of the queue, is.*)
(*                                                                         *)
(* The second part is about the capacity that starts the works' turns      *)
(* (PlannerCapacity), for any set of works, any limits and any plan: how   *)
(* often a work that makes no progress is resumed follows from its backoff *)
(* state (TriesOK).                                                        *)
(***************************************************************************)
EXTENDS ParentTurns, PlannerCapacity, FiniteSetTheorems, TLAPS

-----------------------------------------------------------------------------
(* The inductive invariant *)

ClientStates == {"unsent", "steering", "preempting", "dispatch", "waiting", "turn", "kept",
                 "answered", "lost"}
TaskFields == {"at", "input", "ids", "owned", "outcome"}
FlagFields == {"routerTurn", "preempted", "stalled", "commandTurn", "steered"}

Shape ==
    /\ input \in [Inputs -> Receipt]
    /\ wake \in [WakeIds -> WakeRecord]
    /\ client \in [Prompts -> ClientStates]
    /\ turn \in [Holders -> {"none", "running", "stalled"}]
    /\ told \in [Holders -> {"no", "cancel", "prompt", "router", "watchdog"}]
    /\ DOMAIN task = TaskFields
    /\ DOMAIN rt = FlagFields

\* A prompt has a turn exactly while its call runs one, the loop while its task
\* does, and the two exclude each other.
Roles ==
    /\ \A p \in Prompts :
          /\ turn[p] # "none" <=> client[p] = "turn"
          /\ client[p] = "turn" => ~WakeActive
    /\ turn[Loop] # "none" <=> task.at = "turn"
    /\ \A h \in Holders : told[h] # "no" => turn[h] # "none"

\* The flag is up for a task of the router's own, and never while an
\* operator's prompt is what it delivers.
Flag ==
    /\ rt.routerTurn => WakeActive /\ task.owned
    /\ task.input \in Prompts => ~rt.routerTurn
    /\ task.at \in {"none", "load"} => task.input = NoInput

Claims ==
    /\ ClaimsHeld
    /\ task.at \in {"turn", "settle"} /\ task.input # NoInput => task.ids = {task.input}

\* A retained input has a wake, acknowledged only with the input.
Retained ==
    \A i \in Inputs :
        /\ wake[i].acked => input[i].acked
        /\ (IF Human(i) THEN client[i] = "kept" ELSE input[i].recorded)
              => input[i].acked \/ wake[i].made

TurnInv == Shape /\ Roles /\ Flag /\ Claims /\ OperatorTurnKept /\ Retained

LEMMA Names ==
    /\ Prompts \subseteq Holders /\ Loop \in Holders /\ Loop \notin Prompts
    /\ Prompts \subseteq Inputs /\ Corrections \subseteq Inputs /\ Inputs \subseteq WakeIds
    /\ NoInput \notin Inputs
    /\ Children \subseteq WakeIds /\ Reminders \subseteq WakeIds
    /\ Children \cap Inputs = {} /\ Reminders \cap Inputs = {}
  BY TurnAssumption DEF Holders, Loop, Inputs, WakeIds

-----------------------------------------------------------------------------
(* What the shared operators write *)

\* Nothing retained or claimed is lost from one set of wakes to another.
Milder(old, new) ==
    /\ new \in [WakeIds -> WakeRecord]
    /\ \A w \in WakeIds :
          /\ old[w].made => new[w].made
          /\ new[w].acked => old[w].acked

LEMMA ReconciledWakes ==
    ASSUME NEW receipts, NEW held \in [WakeIds -> WakeRecord]
    PROVE  /\ Milder(held, Reconciled(receipts, held))
           /\ \A w \in WakeIds : Reconciled(receipts, held)[w].claim = held[w].claim
  <1> DEFINE R == Reconciled(receipts, held)
  <1>1. ASSUME NEW w \in WakeIds
        PROVE  /\ R[w] \in WakeRecord /\ R[w].claim = held[w].claim
               /\ held[w].made => R[w].made
               /\ R[w].acked => held[w].acked
    <2>1. R[w] \in {held[w], [held[w] EXCEPT !.made = TRUE, !.acked = FALSE]}
      BY DEF Reconciled
    <2>2. held[w] \in WakeRecord
      OBVIOUS
    <2> QED
      BY <2>1, <2>2 DEF WakeRecord
  <1>2. R = [w \in WakeIds |-> R[w]]
    BY DEF Reconciled
  <1> QED
    BY <1>1, <1>2 DEF Milder

LEMMA EndedFlags ==
    ASSUME NEW flags, DOMAIN flags = FlagFields
    PROVE  /\ DOMAIN TurnEnded(flags) = FlagFields
           /\ TurnEnded(flags).routerTurn = flags.routerTurn
           /\ DOMAIN EndRouterTurn(flags) = FlagFields
           /\ EndRouterTurn(flags).routerTurn = FALSE
  BY DEF TurnEnded, EndRouterTurn, FlagFields

\* The end of a client prompt.
LEMMA AnswerEffect ==
    ASSUME NEW p \in Prompts, NEW how, NEW receipts,
           NEW held \in [WakeIds -> WakeRecord], NEW flags, DOMAIN flags = FlagFields,
           Answer(p, how, receipts, held, flags)
    PROVE  /\ client' = [client EXCEPT ![p] = how] /\ input' = receipts
           /\ Milder(held, wake')
           /\ \A w \in WakeIds : wake'[w].claim = held[w].claim
           /\ DOMAIN rt' = FlagFields /\ rt'.routerTurn = flags.routerTurn
  <1>1. wake' = held \/ wake' = Reconciled(receipts, held)
    BY DEF Answer
  <1>2. rt' = flags \/ rt' = TurnEnded(flags)
    BY DEF Answer
  <1>3. Milder(held, held)
    BY DEF Milder
  <1>4. Milder(held, wake') /\ \A w \in WakeIds : wake'[w].claim = held[w].claim
    BY <1>1, <1>3, ReconciledWakes
  <1> QED
    BY <1>2, <1>4, EndedFlags DEF Answer

\* The end of a delivery.
LEMMA FinishEffect ==
    ASSUME NEW held \in [WakeIds -> WakeRecord], NEW flags, DOMAIN flags = FlagFields,
           flags.routerTurn => task.owned, FinishTask(held, flags)
    PROVE  /\ task' = NoTask
           /\ Milder(held, wake')
           /\ \A w \in WakeIds : wake'[w].claim = held[w].claim
           /\ DOMAIN rt' = FlagFields /\ ~rt'.routerTurn
  <1> DEFINE after == IF task.owned THEN EndRouterTurn(flags) ELSE flags
  <1>1. wake' = held \/ wake' = Reconciled(input, held)
    BY DEF FinishTask
  <1>2. rt' = after \/ rt' = TurnEnded(after)
    BY DEF FinishTask
  <1>3. Milder(held, held)
    BY DEF Milder
  <1>4. Milder(held, wake') /\ \A w \in WakeIds : wake'[w].claim = held[w].claim
    BY <1>1, <1>3, ReconciledWakes
  <1>5. DOMAIN after = FlagFields /\ ~after.routerTurn
    BY EndedFlags
  <1>6. task' = NoTask
    BY DEF FinishTask
  <1> HIDE DEF after
  <1> QED
    BY <1>2, <1>4, <1>5, <1>6, EndedFlags

\* Whatever makes wakes milder keeps what was retained, if no more inputs are
\* retained and none is unacknowledged again.
LEMMA RetainedMilder ==
    ASSUME Shape, Retained, Milder(wake, wake'),
           \A i \in Inputs : input[i].acked => input'[i].acked,
           \A i \in Inputs : Human(i) => client'[i] # "kept" \/ client[i] = "kept",
           \A i \in Inputs : ~Human(i) => ~input'[i].recorded \/ input[i].recorded
    PROVE  Retained'
  <1> SUFFICES ASSUME NEW i \in Inputs
               PROVE  /\ wake'[i].acked => input'[i].acked
                      /\ (IF Human(i) THEN client'[i] = "kept" ELSE input'[i].recorded)
                            => input'[i].acked \/ wake'[i].made
    BY DEF Retained, Human
  <1>1. i \in WakeIds
    BY Names
  <1> QED
    BY <1>1 DEF Retained, Milder

LEMMA MilderSame ==
    ASSUME Shape, wake' = wake
    PROVE  Milder(wake, wake')
  BY DEF Shape, Milder

\* An input is queued: its receipt and, unless it is resolved, its wake.
LEMMA EnqueueEffect ==
    ASSUME Shape, NEW i \in Inputs, NEW interrupt \in BOOLEAN, Enqueue(i, interrupt)
    PROVE  /\ input' \in [Inputs -> Receipt]
           /\ \A j \in Inputs : input'[j].acked = input[j].acked
           /\ \A j \in Inputs \ {i} : input'[j].recorded = input[j].recorded
           /\ Milder(wake, wake')
           /\ \A w \in WakeIds : wake'[w].claim = wake[w].claim
           /\ input[i].acked \/ wake'[i].made
  <1>1. input' = [input EXCEPT ![i] = [input[i] EXCEPT !.recorded = TRUE,
                                                       !.interrupt = interrupt]]
    BY DEF Enqueue, Shape
  <1>2. [input[i] EXCEPT !.recorded = TRUE, !.interrupt = interrupt] \in Receipt
    BY DEF Shape, Receipt
  <1>3. [input[i] EXCEPT !.recorded = TRUE, !.interrupt = interrupt].acked = input[i].acked
    BY DEF Shape, Receipt
  <1>4. /\ input' \in [Inputs -> Receipt]
        /\ \A j \in Inputs : input'[j].acked = input[j].acked
        /\ \A j \in Inputs \ {i} : input'[j].recorded = input[j].recorded
    BY <1>1, <1>2, <1>3 DEF Shape
  <1>5. i \in WakeIds
    BY Names
  <1>6. CASE input[i].acked
    BY <1>4, <1>6, MilderSame DEF Enqueue
  <1>7. CASE ~input[i].acked
    <2>1. wake' = [wake EXCEPT ![i] = [wake[i] EXCEPT !.made = TRUE]]
      BY <1>7 DEF Enqueue, Shape
    <2>2. [wake[i] EXCEPT !.made = TRUE] \in WakeRecord
      BY <1>5 DEF Shape, WakeRecord
    <2>3. /\ [wake[i] EXCEPT !.made = TRUE].made
          /\ [wake[i] EXCEPT !.made = TRUE].acked = wake[i].acked
          /\ [wake[i] EXCEPT !.made = TRUE].claim = wake[i].claim
      BY <1>5 DEF Shape, WakeRecord
    <2>4. wake' \in [WakeIds -> WakeRecord] /\ wake'[i] = [wake[i] EXCEPT !.made = TRUE]
          /\ \A w \in WakeIds \ {i} : wake'[w] = wake[w]
      BY <1>5, <2>1, <2>2 DEF Shape
    <2> QED
      BY <1>4, <1>5, <2>3, <2>4 DEF Milder
  <1> QED
    BY <1>6, <1>7

-----------------------------------------------------------------------------
(* The client's prompts *)

\* A step of a prompt outside its turn: the loop's task, the turns and the
\* claims stay, and the flag is not raised.
LEMMA PromptMoves ==
    ASSUME TurnInv, NEW p \in Prompts, NEW s \in ClientStates \ {"turn"},
           client' = [client EXCEPT ![p] = s], client[p] # "turn",
           UNCHANGED <<task, turn>>,
           \A h \in Holders : told'[h] # "no" => turn[h] # "none",
           told' \in [Holders -> {"no", "cancel", "prompt", "router", "watchdog"}],
           \A h \in Holders : told'[h] = "router" => told[h] = "router",
           DOMAIN rt' = FlagFields, rt'.routerTurn => rt.routerTurn,
           input' \in [Inputs -> Receipt], Milder(wake, wake'),
           \A w \in WakeIds : wake'[w].claim = wake[w].claim,
           \A i \in Inputs : input[i].acked => input'[i].acked,
           \A i \in Inputs \ {p} : input'[i].recorded = input[i].recorded,
           s = "kept" => input'[p].acked \/ wake'[p].made
    PROVE  TurnInv'
  <1>1. Shape'
    BY DEF TurnInv, Shape, Milder
  <1>2. Roles'
    BY DEF TurnInv, Shape, Roles, WakeActive
  <1>3. Flag'
    BY DEF TurnInv, Flag, WakeActive
  <1>4. Claims'
    BY DEF TurnInv, Claims, ClaimsHeld
  <1>5. OperatorTurnKept'
    BY Names DEF TurnInv, OperatorTurnKept
  <1>6. ASSUME NEW i \in Inputs
        PROVE  /\ wake'[i].acked => input'[i].acked
               /\ (IF Human(i) THEN client'[i] = "kept" ELSE input'[i].recorded)
                     => input'[i].acked \/ wake'[i].made
    <2>1. i \in WakeIds /\ p \in Inputs
      BY Names
    <2>2. CASE i = p
      BY <2>1, <2>2 DEF TurnInv, Retained, Milder, Shape, Human
    <2>3. CASE i # p
      BY <2>1, <2>3 DEF TurnInv, Retained, Milder, Shape, Human
    <2> QED
      BY <2>2, <2>3
  <1>7. Retained'
    BY <1>6 DEF Retained, Human
  <1> QED
    BY <1>1, <1>2, <1>3, <1>4, <1>5, <1>7 DEF TurnInv

LEMMA InvOnPrompt ==
    ASSUME TurnInv, NEW p \in Prompts, OnPrompt(p)
    PROVE  TurnInv'
  <1>0. p \in Inputs
    BY Names
  <1>1. PICK s \in {"steering", "kept", "dispatch"} : client' = [client EXCEPT ![p] = s]
                /\ (s = "kept" => Enqueue(p, FALSE))
                /\ (s # "kept" => UNCHANGED <<queue, input, wake>>)
    BY DEF OnPrompt
  <1>2. /\ input' \in [Inputs -> Receipt] /\ Milder(wake, wake')
        /\ \A w \in WakeIds : wake'[w].claim = wake[w].claim
        /\ \A i \in Inputs : input'[i].acked = input[i].acked
        /\ \A i \in Inputs \ {p} : input'[i].recorded = input[i].recorded
        /\ s = "kept" => input'[p].acked \/ wake'[p].made
    <2>1. CASE s = "kept"
      BY <1>0, <1>1, <2>1, EnqueueEffect DEF TurnInv
    <2>2. CASE s # "kept"
      BY <1>1, <2>2, MilderSame DEF TurnInv, Shape
    <2> QED
      BY <2>1, <2>2
  <1>3. UNCHANGED <<task, turn, told, rt>> /\ client[p] = "unsent"
    BY DEF OnPrompt
  <1>4. s \in ClientStates \ {"turn"}
    BY DEF ClientStates
  <1> QED
    BY <1>1, <1>2, <1>3, <1>4, PromptMoves DEF TurnInv, Shape, Roles

LEMMA InvPromptSteered ==
    ASSUME TurnInv, NEW p \in Prompts, PromptSteered(p)
    PROVE  TurnInv'
  <1> DEFINE receipts == [input EXCEPT ![p].recorded = TRUE, ![p].delivered = TRUE]
  <1>0. p \in Inputs /\ Shape
    BY Names DEF TurnInv
  <1>1. receipts = [input EXCEPT ![p] = [input[p] EXCEPT !.recorded = TRUE,
                                                         !.delivered = TRUE]]
    BY <1>0 DEF Shape
  <1>2. /\ [input[p] EXCEPT !.recorded = TRUE, !.delivered = TRUE] \in Receipt
        /\ [input[p] EXCEPT !.recorded = TRUE, !.delivered = TRUE].acked = input[p].acked
    BY <1>0 DEF Shape, Receipt
  <1>3. /\ receipts \in [Inputs -> Receipt]
        /\ \A i \in Inputs : receipts[i].acked = input[i].acked
        /\ \A i \in Inputs \ {p} : receipts[i].recorded = input[i].recorded
    BY <1>0, <1>1, <1>2 DEF Shape
  <1>4. Answer(p, "answered", receipts, wake, rt) /\ client[p] = "steering"
        /\ UNCHANGED <<task, turn, told>>
    BY DEF PromptSteered
  <1> HIDE DEF receipts
  <1>5. /\ client' = [client EXCEPT ![p] = "answered"] /\ input' = receipts
        /\ Milder(wake, wake')
        /\ \A w \in WakeIds : wake'[w].claim = wake[w].claim
        /\ DOMAIN rt' = FlagFields /\ rt'.routerTurn = rt.routerTurn
    BY <1>0, <1>4, AnswerEffect DEF Shape
  <1>6. "answered" \in ClientStates \ {"turn"}
    BY DEF ClientStates
  <1> QED
    BY <1>3, <1>4, <1>5, <1>6, PromptMoves DEF TurnInv, Shape, Roles

\* A preemption for `by` asks only turns that run to end.
LEMMA PreemptEffect ==
    ASSUME TurnInv, NEW by \in {"prompt", "router"}, Preempt(by)
    PROVE  /\ DOMAIN rt' = FlagFields /\ rt'.routerTurn = rt.routerTurn
           /\ told' \in [Holders -> {"no", "cancel", "prompt", "router", "watchdog"}]
           /\ \A h \in Holders : told'[h] # "no" => turn[h] # "none"
           /\ \A h \in Holders : told'[h] = told[h] \/ (told'[h] = by /\ turn[h] # "none")
  BY DEF Preempt, TurnInv, Shape, Roles, FlagFields

LEMMA InvPromptPreempts ==
    ASSUME TurnInv, NEW p \in Prompts, PromptPreempts(p)
    PROVE  TurnInv'
  <1>1. /\ client' = [client EXCEPT ![p] = "preempting"] /\ client[p] = "steering"
        /\ Preempt("prompt") /\ UNCHANGED <<queue, input, wake, task, turn>>
    BY DEF PromptPreempts, durable
  <1>2. "preempting" \in ClientStates \ {"turn"}
    BY DEF ClientStates
  <1>3. Milder(wake, wake')
    BY <1>1, MilderSame DEF TurnInv
  <1>4. /\ DOMAIN rt' = FlagFields /\ rt'.routerTurn = rt.routerTurn
        /\ told' \in [Holders -> {"no", "cancel", "prompt", "router", "watchdog"}]
        /\ \A h \in Holders : told'[h] # "no" => turn[h] # "none"
        /\ \A h \in Holders : told'[h] = told[h] \/ (told'[h] = "prompt" /\ turn[h] # "none")
    BY <1>1, PreemptEffect
  <1> QED
    BY <1>1, <1>2, <1>3, <1>4, PromptMoves DEF TurnInv, Shape

LEMMA InvPreemptEnds ==
    ASSUME TurnInv, NEW p \in Prompts, PreemptEnds(p)
    PROVE  TurnInv'
  <1>0. p \in Inputs
    BY Names
  <1>1. PICK s \in {"kept", "dispatch"} : client' = [client EXCEPT ![p] = s]
                /\ (s = "kept" => Enqueue(p, FALSE))
                /\ (s # "kept" => UNCHANGED <<queue, input, wake>>)
    BY DEF PreemptEnds
  <1>2. /\ input' \in [Inputs -> Receipt] /\ Milder(wake, wake')
        /\ \A w \in WakeIds : wake'[w].claim = wake[w].claim
        /\ \A i \in Inputs : input'[i].acked = input[i].acked
        /\ \A i \in Inputs \ {p} : input'[i].recorded = input[i].recorded
        /\ s = "kept" => input'[p].acked \/ wake'[p].made
    <2>1. CASE s = "kept"
      BY <1>0, <1>1, <2>1, EnqueueEffect DEF TurnInv
    <2>2. CASE s # "kept"
      BY <1>1, <2>2, MilderSame DEF TurnInv, Shape
    <2> QED
      BY <2>1, <2>2
  <1>3. UNCHANGED <<task, turn, told, rt>> /\ client[p] = "preempting"
    BY DEF PreemptEnds
  <1>4. s \in ClientStates \ {"turn"}
    BY DEF ClientStates
  <1> QED
    BY <1>1, <1>2, <1>3, <1>4, PromptMoves DEF TurnInv, Shape, Roles

LEMMA InvPrepare ==
    ASSUME TurnInv, NEW p \in Prompts, Prepare(p)
    PROVE  TurnInv'
  <1>0. p \in Inputs
    BY Names
  <1>1. /\ client' = [client EXCEPT ![p] = "waiting"] /\ client[p] = "dispatch"
        /\ UNCHANGED <<wake, task, turn, told>>
        /\ DOMAIN rt' = FlagFields /\ rt'.routerTurn = rt.routerTurn
    BY DEF Prepare, TurnInv, Shape, FlagFields
  <1>2. input' = [input EXCEPT ![p] = [input[p] EXCEPT !.recorded = TRUE]]
    BY DEF Prepare, TurnInv, Shape
  <1>3. /\ [input[p] EXCEPT !.recorded = TRUE] \in Receipt
        /\ [input[p] EXCEPT !.recorded = TRUE].acked = input[p].acked
    BY <1>0 DEF TurnInv, Shape, Receipt
  <1>4. /\ input' \in [Inputs -> Receipt]
        /\ \A i \in Inputs : input'[i].acked = input[i].acked
        /\ \A i \in Inputs \ {p} : input'[i].recorded = input[i].recorded
    BY <1>0, <1>2, <1>3 DEF TurnInv, Shape
  <1>5. Milder(wake, wake')
    BY <1>1, MilderSame DEF TurnInv
  <1>6. "waiting" \in ClientStates \ {"turn"}
    BY DEF ClientStates
  <1> QED
    BY <1>1, <1>4, <1>5, <1>6, PromptMoves DEF TurnInv, Shape, Roles

\* A prompt that is refused before its turn.
LEMMA InvLost ==
    ASSUME TurnInv, NEW p \in Prompts, client[p] # "turn",
           Answer(p, "lost", input, wake, rt), UNCHANGED <<task, turn, told>>
    PROVE  TurnInv'
  <1>1. /\ client' = [client EXCEPT ![p] = "lost"] /\ input' = input
        /\ Milder(wake, wake')
        /\ \A w \in WakeIds : wake'[w].claim = wake[w].claim
        /\ DOMAIN rt' = FlagFields /\ rt'.routerTurn = rt.routerTurn
    BY AnswerEffect DEF TurnInv, Shape
  <1>2. "lost" \in ClientStates \ {"turn"}
    BY DEF ClientStates
  <1> QED
    BY <1>1, <1>2, PromptMoves DEF TurnInv, Shape, Roles

LEMMA InvPrepareFails ==
    ASSUME TurnInv, NEW p \in Prompts, PrepareFails(p)
    PROVE  TurnInv'
  BY InvLost DEF PrepareFails

LEMMA InvDispatch ==
    ASSUME TurnInv, NEW p \in Prompts, Dispatch(p)
    PROVE  TurnInv'
  <1>1. CASE WakeActive
    BY <1>1, InvLost DEF Dispatch
  <1>2. CASE ~WakeActive
    <2>1. /\ client' = [client EXCEPT ![p] = "turn"] /\ client[p] = "waiting"
          /\ turn' = [turn EXCEPT ![p] = "running"]
          /\ told' = [told EXCEPT ![p] = "no"]
          /\ UNCHANGED <<input, wake, task>>
          /\ DOMAIN rt' = FlagFields /\ rt'.routerTurn = rt.routerTurn
      BY <1>2 DEF Dispatch, TurnInv, Shape, FlagFields
    <2>2. Shape'
      BY <2>1, Names DEF TurnInv, Shape, ClientStates
    <2>3. Roles'
      BY <1>2, <2>1, Names DEF TurnInv, Shape, Roles, WakeActive
    <2>4. Flag' /\ Claims'
      BY <2>1 DEF TurnInv, Flag, Claims, ClaimsHeld, WakeActive
    <2>5. OperatorTurnKept'
      BY <2>1, Names DEF TurnInv, Shape, OperatorTurnKept
    <2>6. Retained'
      BY <2>1, RetainedMilder, MilderSame DEF TurnInv, Shape
    <2> QED
      BY <2>2, <2>3, <2>4, <2>5, <2>6 DEF TurnInv
  <1> QED
    BY <1>1, <1>2

-----------------------------------------------------------------------------
(* The wake loop *)

\* A step that leaves the turns, the prompts and the task alone and keeps every
\* claim or drops it.
LEMMA QuietStep ==
    ASSUME TurnInv, UNCHANGED <<client, task, turn>>,
           told' \in [Holders -> {"no", "cancel", "prompt", "router", "watchdog"}],
           \A h \in Holders : told'[h] # "no" => turn[h] # "none",
           OperatorTurnKept',
           DOMAIN rt' = FlagFields, rt'.routerTurn = rt.routerTurn,
           input' \in [Inputs -> Receipt], wake' \in [WakeIds -> WakeRecord],
           \A w \in WakeIds : wake'[w].claim = "live" => wake[w].claim = "live",
           Retained'
    PROVE  TurnInv'
  <1>1. Shape' /\ Roles'
    BY DEF TurnInv, Shape, Roles, WakeActive
  <1>2. Flag' /\ Claims'
    BY DEF TurnInv, Flag, Claims, ClaimsHeld, WakeActive
  <1> QED
    BY <1>1, <1>2 DEF TurnInv

LEMMA InvOnCancel ==
    ASSUME TurnInv, OnCancel
    PROVE  TurnInv'
  <1>1. UNCHANGED <<queue, input, wake, client, task, turn, rt>>
    BY DEF OnCancel, durable
  <1>2. told' = [h \in Holders |-> IF turn[h] # "none" THEN "cancel" ELSE told[h]]
    BY DEF OnCancel
  <1>3. OperatorTurnKept'
    BY <1>1, <1>2, Names DEF TurnInv, OperatorTurnKept
  <1>4. Retained'
    BY <1>1, RetainedMilder, MilderSame DEF TurnInv
  <1> QED
    BY <1>1, <1>2, <1>3, <1>4, QuietStep DEF TurnInv, Shape, Roles

\* No prompt runs a turn while the loop has nothing in hand for it.
LEMMA InvTick ==
    ASSUME TurnInv, Tick
    PROVE  TurnInv'
  <1>1. PICK owned \in BOOLEAN :
          /\ task' = [NoTask EXCEPT !.at = "load", !.owned = owned]
          /\ rt' = IF owned THEN [rt EXCEPT !.routerTurn = TRUE, !.preempted = FALSE] ELSE rt
    BY DEF Tick
  <1>2. /\ task'.at = "load" /\ task'.owned = owned /\ task'.input = NoInput
        /\ DOMAIN task' = TaskFields
    BY <1>1 DEF NoTask, TaskFields
  <1>3. DOMAIN rt' = FlagFields /\ (owned \/ rt'.routerTurn = rt.routerTurn)
    BY <1>1 DEF TurnInv, Shape, FlagFields
  <1>4. UNCHANGED <<input, wake, client, turn, told>> /\ task.at = "none"
        /\ \A p \in Prompts : client[p] # "turn"
    BY DEF Tick, Busy, WakeActive, HeldBy, InHand, durable
  <1>5. Shape' /\ Roles'
    BY <1>2, <1>3, <1>4 DEF TurnInv, Shape, Roles, WakeActive
  <1>6. Flag'
    BY <1>2, <1>3, <1>4, Names DEF TurnInv, Flag, WakeActive
  <1>7. Claims'
    BY <1>2, <1>4 DEF TurnInv, Claims, ClaimsHeld
  <1>8. OperatorTurnKept'
    BY <1>2, <1>4, Names DEF TurnInv, OperatorTurnKept
  <1>9. Retained'
    BY <1>4, RetainedMilder, MilderSame DEF TurnInv, Shape
  <1> QED
    BY <1>5, <1>6, <1>7, <1>8, <1>9 DEF TurnInv

LEMMA InvLoad ==
    ASSUME TurnInv, Load
    PROVE  TurnInv'
  <1>1. PICK i : /\ task' = [task EXCEPT !.at = "claim", !.input = i]
                 /\ rt' = rt \/ rt' = EndRouterTurn(rt)
                 /\ i \in Prompts => rt' = EndRouterTurn(rt)
    <2>1. CASE queue # <<>>
      BY <2>1 DEF Load, Human
    <2>2. CASE queue = <<>>
      <3>1. task' = [task EXCEPT !.at = "claim"] /\ rt' = rt
        BY <2>2 DEF Load
      <3>2. [task EXCEPT !.at = "claim"] = [task EXCEPT !.at = "claim", !.input = NoInput]
        BY DEF Load, TurnInv, Flag, Shape, TaskFields
      <3> QED
        BY <3>1, <3>2, Names
    <2> QED
      BY <2>1, <2>2
  <1>2. /\ task'.at = "claim" /\ task'.owned = task.owned /\ task'.input = i
        /\ DOMAIN task' = TaskFields
    BY <1>1 DEF TurnInv, Shape, TaskFields
  <1>3. /\ DOMAIN rt' = FlagFields
        /\ rt'.routerTurn => rt.routerTurn
        /\ i \in Prompts => ~rt'.routerTurn
    BY <1>1, EndedFlags DEF TurnInv, Shape
  <1>4. UNCHANGED <<input, wake, client, turn, told>> /\ task.at = "load"
    BY DEF Load, durable
  <1>5. Shape' /\ Roles'
    BY <1>2, <1>3, <1>4 DEF TurnInv, Shape, Roles, WakeActive
  <1>6. Flag'
    BY <1>2, <1>3, <1>4 DEF TurnInv, Flag, WakeActive
  <1>7. Claims'
    BY <1>2, <1>4 DEF TurnInv, Claims, ClaimsHeld
  <1>8. OperatorTurnKept'
    BY <1>2, <1>4, Names DEF TurnInv, OperatorTurnKept, Roles
  <1>9. Retained'
    BY <1>4, RetainedMilder, MilderSame DEF TurnInv, Shape
  <1> QED
    BY <1>5, <1>6, <1>7, <1>8, <1>9 DEF TurnInv

\* The delivery ends, with no claim left by its wakes.
LEMMA InvFinish ==
    ASSUME TurnInv, NEW held, Milder(wake, held), NEW flags, DOMAIN flags = FlagFields,
           flags.routerTurn => rt.routerTurn,
           \A w \in WakeIds : held[w].claim # "live",
           task.at \in {"claim", "settle"},
           FinishTask(held, flags), UNCHANGED <<input, client, turn, told>>
    PROVE  TurnInv'
  <1>0. held \in [WakeIds -> WakeRecord]
    BY DEF Milder
  <1>1. /\ task' = NoTask /\ Milder(held, wake')
        /\ \A w \in WakeIds : wake'[w].claim = held[w].claim
        /\ DOMAIN rt' = FlagFields /\ ~rt'.routerTurn
    BY <1>0, FinishEffect DEF TurnInv, Flag
  <1>2. task'.at = "none" /\ task'.input = NoInput /\ DOMAIN task' = TaskFields
    BY <1>1 DEF NoTask, TaskFields
  <1>3. Milder(wake, wake')
    BY <1>1 DEF Milder
  <1>4. Shape' /\ Roles'
    BY <1>1, <1>2, <1>3 DEF TurnInv, Shape, Roles, WakeActive, Milder
  <1>5. Flag'
    BY <1>1, <1>2 DEF Flag
  <1>6. Claims'
    BY <1>1, <1>2 DEF Claims, ClaimsHeld
  <1>7. OperatorTurnKept'
    BY <1>2, Names DEF TurnInv, OperatorTurnKept
  <1>8. Retained'
    BY <1>3, RetainedMilder DEF TurnInv, Shape
  <1> QED
    BY <1>4, <1>5, <1>6, <1>7, <1>8 DEF TurnInv

LEMMA ClaimEffect ==
    ASSUME Shape, NEW ids, Claim(ids)
    PROVE  /\ Milder(wake, wake')
           /\ \A w \in WakeIds : wake'[w].claim = IF w \in ids THEN "live" ELSE wake[w].claim
  <1>1. ASSUME NEW w \in WakeIds
        PROVE  /\ wake'[w] \in WakeRecord
               /\ wake'[w].claim = IF w \in ids THEN "live" ELSE wake[w].claim
               /\ wake'[w].made = wake[w].made /\ wake'[w].acked = wake[w].acked
    <2>1. wake'[w] = IF w \in ids THEN [wake[w] EXCEPT !.claim = "live", !.due = FALSE]
                                  ELSE wake[w]
      BY DEF Claim
    <2>2. wake[w] \in WakeRecord
      BY DEF Shape
    <2> QED
      BY <2>1, <2>2 DEF WakeRecord
  <1>2. wake' = [w \in WakeIds |-> wake'[w]]
    BY DEF Claim
  <1> QED
    BY <1>1, <1>2 DEF Milder

\* The claim and the start of the loop's turn.
LEMMA InvClaim ==
    ASSUME TurnInv, NEW ids, task.at = "claim", task.input # NoInput => ids = {task.input},
           Claim(ids), StartLoopTurn(ids), UNCHANGED <<input, client>>
    PROVE  TurnInv'
  <1>1. /\ Milder(wake, wake')
        /\ \A w \in WakeIds : wake'[w].claim = IF w \in ids THEN "live" ELSE wake[w].claim
    BY ClaimEffect DEF TurnInv
  <1>2. /\ task'.at = "turn" /\ task'.ids = ids /\ task'.input = task.input
        /\ task'.owned = task.owned /\ DOMAIN task' = TaskFields
    BY DEF StartLoopTurn, TurnInv, Shape, TaskFields
  <1>3. DOMAIN rt' = FlagFields /\ rt'.routerTurn = rt.routerTurn
    BY DEF StartLoopTurn, TurnInv, Shape, FlagFields
  <1>4. turn' = [turn EXCEPT ![Loop] = "running"] /\ told' = [told EXCEPT ![Loop] = "no"]
    BY DEF StartLoopTurn
  <1>5. Shape'
    BY <1>1, <1>2, <1>3, <1>4, Names DEF TurnInv, Shape, Milder
  <1>6. Roles'
    BY <1>2, <1>4, Names DEF TurnInv, Shape, Roles, WakeActive
  <1>7. Flag'
    BY <1>2, <1>3 DEF TurnInv, Flag, WakeActive
  <1>8. Claims'
    BY <1>1, <1>2 DEF TurnInv, Claims, ClaimsHeld
  <1>9. OperatorTurnKept'
    BY <1>2, <1>4, Names DEF TurnInv, Shape, OperatorTurnKept
  <1>10. Retained'
    BY <1>1, RetainedMilder DEF TurnInv, Shape
  <1> QED
    BY <1>5, <1>6, <1>7, <1>8, <1>9, <1>10 DEF TurnInv

LEMMA InvClaimWakes ==
    ASSUME TurnInv, ClaimWakes
    PROVE  TurnInv'
  <1>1. task.at = "claim" /\ task.input = NoInput /\ UNCHANGED <<input, client>>
    BY DEF ClaimWakes
  <1>2. PICK ids : \/ FinishTask(wake, rt) /\ UNCHANGED <<turn, told>>
                   \/ Claim(ids) /\ StartLoopTurn(ids)
    BY DEF ClaimWakes
  <1>3. CASE FinishTask(wake, rt) /\ UNCHANGED <<turn, told>>
    <2>1. Milder(wake, wake)
      BY DEF TurnInv, Shape, Milder
    <2>2. \A w \in WakeIds : wake[w].claim # "live"
      BY <1>1 DEF TurnInv, Claims, ClaimsHeld
    <2> QED
      BY <1>1, <1>3, <2>1, <2>2, InvFinish DEF TurnInv, Shape
  <1>4. CASE Claim(ids) /\ StartLoopTurn(ids)
    BY <1>1, <1>4, InvClaim
  <1> QED
    BY <1>2, <1>3, <1>4

LEMMA InvClaimInput ==
    ASSUME TurnInv, ClaimInput
    PROVE  TurnInv'
  <1>1. task.at = "claim" /\ UNCHANGED <<input, client>>
    BY DEF ClaimInput
  <1>2. \/ FinishTask(wake, rt) /\ UNCHANGED <<turn, told>>
        \/ Claim({task.input}) /\ StartLoopTurn({task.input})
    BY DEF ClaimInput
  <1>3. CASE FinishTask(wake, rt) /\ UNCHANGED <<turn, told>>
    <2>1. Milder(wake, wake)
      BY DEF TurnInv, Shape, Milder
    <2>2. \A w \in WakeIds : wake[w].claim # "live"
      BY <1>1 DEF TurnInv, Claims, ClaimsHeld
    <2> QED
      BY <1>1, <1>3, <2>1, <2>2, InvFinish DEF TurnInv, Shape
  <1>4. CASE Claim({task.input}) /\ StartLoopTurn({task.input})
    BY <1>1, <1>4, InvClaim
  <1> QED
    BY <1>2, <1>3, <1>4

LEMMA StalledTaken ==
    ASSUME Shape
    PROVE  DOMAIN TakeStalled = FlagFields /\ TakeStalled.routerTurn = rt.routerTurn
  BY DEF Shape, TakeStalled, FlagFields

\* The settlement of a wake drops its claim and answers reminders only.
LEMMA SettledEffect ==
    ASSUME Shape, NEW w \in WakeIds
    PROVE  /\ SettledWake(w) \in WakeRecord
           /\ SettledWake(w).claim # "live"
           /\ SettledWake(w).made = wake[w].made
           /\ SettledWake(w).acked => wake[w].acked \/ w \in Reminders
  <1>1. wake[w] \in WakeRecord
    BY DEF Shape
  <1>2. CASE ~Held(w)
    BY <1>1, <1>2 DEF SettledWake, Held
  <1>3. CASE Held(w) /\ (rt.preempted \/ rt.stalled)
    BY <1>1, <1>3 DEF SettledWake, WakeRecord
  <1>4. CASE Held(w) /\ ~(rt.preempted \/ rt.stalled)
    <2>1. SettledWake(w) = [wake[w] EXCEPT !.claim = "none",
                                           !.acked = wake[w].acked \/ w \in Reminders]
      BY <1>4 DEF SettledWake
    <2>2. (wake[w].acked \/ w \in Reminders) \in BOOLEAN
      BY <1>1
    <2> QED
      BY <1>1, <2>1, <2>2 DEF WakeRecord
  <1> QED
    BY <1>2, <1>3, <1>4

\* The wakes of inputs are no reminders: delivering one acknowledges nothing
\* that was retained.
LEMMA InvSettleWakes ==
    ASSUME TurnInv, SettleWakes
    PROVE  TurnInv'
  <1> DEFINE held == [w \in WakeIds |-> IF w \in task.ids THEN SettledWake(w) ELSE wake[w]]
  <1>1. FinishTask(held, TakeStalled) /\ task.at = "settle"
        /\ UNCHANGED <<input, client, turn, told>>
    BY DEF SettleWakes
  <1>2. \A w \in WakeIds :
          /\ held[w] \in WakeRecord /\ held[w].claim # "live"
          /\ held[w].made = wake[w].made
          /\ held[w].acked => wake[w].acked \/ w \in Reminders
    BY SettledEffect DEF TurnInv, Shape, Claims, ClaimsHeld
  <1>3. held \in [WakeIds -> WakeRecord]
    BY <1>2
  <1> HIDE DEF held
  <1>4. DOMAIN TakeStalled = FlagFields /\ TakeStalled.routerTurn = rt.routerTurn
    BY StalledTaken DEF TurnInv
  <1>5. /\ task' = NoTask /\ Milder(held, wake')
        /\ \A w \in WakeIds : wake'[w].claim = held[w].claim
        /\ DOMAIN rt' = FlagFields /\ ~rt'.routerTurn
    BY <1>1, <1>3, <1>4, FinishEffect DEF TurnInv, Flag
  <1>6. task'.at = "none" /\ task'.input = NoInput /\ DOMAIN task' = TaskFields
    BY <1>5 DEF NoTask, TaskFields
  <1>7. Shape' /\ Roles'
    BY <1>1, <1>5, <1>6 DEF TurnInv, Shape, Roles, WakeActive, Milder
  <1>8. Flag' /\ Claims'
    BY <1>2, <1>5, <1>6 DEF Flag, Claims, ClaimsHeld
  <1>9. OperatorTurnKept'
    BY <1>1, <1>6, Names DEF TurnInv, OperatorTurnKept
  <1>10. \A i \in Inputs : (wake[i].made => wake'[i].made) /\ (wake'[i].acked => wake[i].acked)
    BY <1>2, <1>5, Names DEF Milder
  <1>11. Retained'
    BY <1>1, <1>10 DEF TurnInv, Retained, Human
  <1> QED
    BY <1>7, <1>8, <1>9, <1>11 DEF TurnInv

LEMMA InvSettleInput ==
    ASSUME TurnInv, SettleInput
    PROVE  TurnInv'
  <1> DEFINE i == task.input
             due == wake[i].due \/ Interrupted(i)
             held == IF ~Held(i) THEN wake
                      ELSE [wake EXCEPT ![i].claim = "none", ![i].due = due]
  <1>1. FinishTask(held, TakeStalled) /\ task.at = "settle" /\ i # NoInput
        /\ UNCHANGED <<input, client, turn, told>>
    BY DEF SettleInput
  <1>2. task.ids = {i}
    BY <1>1 DEF TurnInv, Claims
  <1>3. \A w \in WakeIds : w # i => wake[w].claim # "live"
    BY <1>2 DEF TurnInv, Claims, ClaimsHeld
  <1>4. Milder(wake, held) /\ \A w \in WakeIds : held[w].claim # "live"
    <2>1. CASE ~Held(i) \/ i \notin WakeIds
      <3>1. held = wake
        BY <2>1 DEF TurnInv, Shape
      <3> QED
        BY <1>3, <2>1, <3>1 DEF TurnInv, Shape, Milder, Held
    <2>2. CASE Held(i) /\ i \in WakeIds
      <3>0. wake[i] \in WakeRecord /\ due \in BOOLEAN
        BY <2>2 DEF TurnInv, Shape, WakeRecord, Interrupted
      <3> HIDE DEF due
      <3>1. held = [wake EXCEPT ![i] = [wake[i] EXCEPT !.claim = "none", !.due = due]]
        BY <2>2 DEF TurnInv, Shape
      <3>2. /\ [wake[i] EXCEPT !.claim = "none", !.due = due] \in WakeRecord
            /\ [wake[i] EXCEPT !.claim = "none", !.due = due].claim = "none"
            /\ [wake[i] EXCEPT !.claim = "none", !.due = due].made = wake[i].made
            /\ [wake[i] EXCEPT !.claim = "none", !.due = due].acked = wake[i].acked
        BY <3>0 DEF WakeRecord
      <3>3. /\ held \in [WakeIds -> WakeRecord]
            /\ \A w \in WakeIds : held[w] = IF w = i THEN [wake[i] EXCEPT !.claim = "none",
                                                                           !.due = due]
                                             ELSE wake[w]
        BY <2>2, <3>1, <3>2 DEF TurnInv, Shape
      <3> QED
        BY <1>3, <3>2, <3>3 DEF Milder
    <2> QED
      BY <2>1, <2>2
  <1> HIDE DEF held, i
  <1>5. DOMAIN TakeStalled = FlagFields /\ TakeStalled.routerTurn = rt.routerTurn
    BY StalledTaken DEF TurnInv
  <1> QED
    BY <1>1, <1>4, <1>5, InvFinish

-----------------------------------------------------------------------------
(* Steers *)

\* What a step that only touches the flags and the cancel asks keeps.
LEMMA InvSteer ==
    ASSUME TurnInv, SteerPending \/ SteerInjected
    PROVE  TurnInv'
  <1>1. UNCHANGED <<input, wake, client, task, turn, told>>
    BY DEF SteerPending, SteerInjected, durable
  <1>2. DOMAIN rt' = FlagFields /\ rt'.routerTurn = rt.routerTurn
    BY DEF SteerPending, SteerInjected, TurnInv, Shape, FlagFields
  <1>3. Retained'
    BY <1>1, RetainedMilder, MilderSame DEF TurnInv, Shape
  <1>4. OperatorTurnKept'
    BY <1>1 DEF TurnInv, OperatorTurnKept
  <1> QED
    BY <1>1, <1>2, <1>3, <1>4, QuietStep DEF TurnInv, Shape, Roles

\* The flag is asked again after the adapter's answer: if it is up, the loop
\* delivers something of the router's own and no prompt runs a turn.
LEMMA InvSteerDeclined ==
    ASSUME TurnInv, SteerDeclined
    PROVE  TurnInv'
  <1>1. UNCHANGED <<input, wake, client, task, turn>>
    BY DEF SteerDeclined, durable
  <1>2. Retained'
    BY <1>1, RetainedMilder, MilderSame DEF TurnInv, Shape
  <1>3. CASE UNCHANGED <<rt, told>>
    BY <1>1, <1>2, <1>3, QuietStep DEF TurnInv, Shape, Roles, OperatorTurnKept
  <1>4. CASE Preempt("router") /\ rt.routerTurn
    <2>1. /\ DOMAIN rt' = FlagFields /\ rt'.routerTurn = rt.routerTurn
          /\ told' \in [Holders -> {"no", "cancel", "prompt", "router", "watchdog"}]
          /\ \A h \in Holders : told'[h] # "no" => turn[h] # "none"
          /\ \A h \in Holders : told'[h] = told[h] \/ (told'[h] = "router" /\ turn[h] # "none")
      BY <1>4, PreemptEffect
    <2>2. WakeActive /\ task.input \notin Prompts
      BY <1>4 DEF TurnInv, Flag
    <2>3. \A p \in Prompts : turn[p] = "none"
      BY <2>2 DEF TurnInv, Roles
    <2>4. OperatorTurnKept'
      BY <1>1, <2>1, <2>2, <2>3, Names DEF TurnInv, OperatorTurnKept
    <2> QED
      BY <1>1, <1>2, <2>1, <2>4, QuietStep DEF TurnInv, Shape
  <1> QED
    BY <1>3, <1>4 DEF SteerDeclined, StillDue

-----------------------------------------------------------------------------
(* Turns *)

LEMMA DeliveredInputs ==
    ASSUME Shape, NEW h
    PROVE  /\ Delivered(h) \in [Inputs -> Receipt]
           /\ \A i \in Inputs : /\ Delivered(h)[i].acked = input[i].acked
                                /\ Delivered(h)[i].recorded = input[i].recorded
  <1>1. ASSUME NEW i \in Inputs
        PROVE  /\ Delivered(h)[i] \in Receipt
               /\ Delivered(h)[i].acked = input[i].acked
               /\ Delivered(h)[i].recorded = input[i].recorded
    <2>1. Delivered(h)[i] \in {input[i], [input[i] EXCEPT !.delivered = TRUE]}
      BY DEF Delivered
    <2>2. input[i] \in Receipt
      BY DEF Shape
    <2> QED
      BY <2>1, <2>2 DEF Receipt
  <1>2. Delivered(h) = [i \in Inputs |-> Delivered(h)[i]]
    BY DEF Delivered
  <1> QED
    BY <1>1, <1>2

LEMMA InvOutput ==
    ASSUME TurnInv, NEW h \in Holders, Output(h)
    PROVE  TurnInv'
  <1>1. UNCHANGED <<wake, client, task, turn, told, rt>> /\ input' = Delivered(h)
    BY DEF Output
  <1>2. /\ input' \in [Inputs -> Receipt]
        /\ \A i \in Inputs : /\ input'[i].acked = input[i].acked
                             /\ input'[i].recorded = input[i].recorded
    BY <1>1, DeliveredInputs DEF TurnInv
  <1>3. Retained'
    BY <1>1, <1>2, RetainedMilder, MilderSame DEF TurnInv
  <1>4. OperatorTurnKept'
    BY <1>1 DEF TurnInv, OperatorTurnKept
  <1> QED
    BY <1>1, <1>2, <1>3, <1>4, QuietStep DEF TurnInv, Shape, Roles

\* The end of a turn, the loop's or a prompt's.
LEMMA InvLeaveTurn ==
    ASSUME TurnInv, NEW h \in Holders, turn[h] # "none", NEW outcome,
           NEW receipts \in [Inputs -> Receipt],
           \A i \in Inputs : receipts[i].acked = input[i].acked
                             /\ receipts[i].recorded = input[i].recorded,
           LeaveTurn(h, outcome, receipts, rt)
    PROVE  TurnInv'
  <1>1. turn' = [turn EXCEPT ![h] = "none"] /\ told' = [told EXCEPT ![h] = "no"]
    BY DEF LeaveTurn
  <1>2. \A g \in Holders : told'[g] = "router" => told[g] = "router"
    BY <1>1 DEF TurnInv, Shape
  <1>3. CASE h = Loop
    <2>1. /\ task' = [task EXCEPT !.at = "settle", !.outcome = outcome]
          /\ input' = receipts /\ UNCHANGED <<rt, wake, client>>
      BY <1>3 DEF LeaveTurn
    <2>2. /\ task'.at = "settle" /\ task'.ids = task.ids /\ task'.input = task.input
          /\ task'.owned = task.owned /\ DOMAIN task' = TaskFields
      BY <2>1 DEF TurnInv, Shape, TaskFields
    <2>3. task.at = "turn"
      BY <1>3 DEF TurnInv, Roles
    <2>4. Shape'
      BY <1>1, <2>1, <2>2 DEF TurnInv, Shape
    <2>5. Roles'
      BY <1>1, <1>3, <2>1, <2>2, <2>3, Names DEF TurnInv, Shape, Roles, WakeActive
    <2>6. Flag' /\ Claims'
      BY <2>1, <2>2, <2>3 DEF TurnInv, Flag, Claims, ClaimsHeld, WakeActive
    <2>7. OperatorTurnKept'
      BY <1>2, <2>2, Names DEF TurnInv, OperatorTurnKept
    <2>8. Retained'
      BY <2>1, RetainedMilder, MilderSame DEF TurnInv
    <2> QED
      BY <2>4, <2>5, <2>6, <2>7, <2>8 DEF TurnInv
  <1>4. CASE h \in Prompts
    <2>1. Answer(h, "answered", receipts, wake, rt) /\ task' = task
      BY <1>4, Names DEF LeaveTurn
    <2>2. /\ client' = [client EXCEPT ![h] = "answered"] /\ input' = receipts
          /\ Milder(wake, wake')
          /\ \A w \in WakeIds : wake'[w].claim = wake[w].claim
          /\ DOMAIN rt' = FlagFields /\ rt'.routerTurn = rt.routerTurn
      BY <1>4, <2>1, AnswerEffect DEF TurnInv, Shape
    <2>3. Shape'
      BY <1>1, <2>1, <2>2 DEF TurnInv, Shape, ClientStates, Milder
    <2>4. Roles'
      BY <1>1, <1>4, <2>1, <2>2, Names DEF TurnInv, Shape, Roles, WakeActive
    <2>5. Flag' /\ Claims'
      BY <2>1, <2>2 DEF TurnInv, Flag, Claims, ClaimsHeld, WakeActive
    <2>6. OperatorTurnKept'
      BY <1>2, <2>1, Names DEF TurnInv, OperatorTurnKept
    <2>7. Retained'
      BY <2>2, RetainedMilder DEF TurnInv, Shape
    <2> QED
      BY <2>3, <2>4, <2>5, <2>6, <2>7 DEF TurnInv
  <1> QED
    BY <1>3, <1>4 DEF Holders

LEMMA InvTurnEnds ==
    ASSUME TurnInv, NEW h \in Holders, TurnReturns(h) \/ Release(h)
    PROVE  TurnInv'
  <1>0. PICK receipts \in {input, Delivered(h)} : \E outcome : LeaveTurn(h, outcome, receipts, rt)
    <2>1. CASE TurnReturns(h)
      BY <2>1 DEF TurnReturns
    <2>2. CASE Release(h)
      BY <2>2 DEF Release
    <2> QED
      BY <2>1, <2>2
  <1>1. PICK outcome : LeaveTurn(h, outcome, receipts, rt)
    BY <1>0
  <1>2. turn[h] # "none"
    BY DEF TurnReturns, Release
  <1>3. /\ receipts \in [Inputs -> Receipt]
        /\ \A i \in Inputs : receipts[i].acked = input[i].acked
                             /\ receipts[i].recorded = input[i].recorded
    BY <1>0, DeliveredInputs DEF TurnInv, Shape
  <1> QED
    BY <1>1, <1>2, <1>3, InvLeaveTurn

LEMMA InvWatchdog ==
    ASSUME TurnInv, NEW h \in Holders, Stall(h) \/ Revive(h)
    PROVE  TurnInv'
  <1>1. UNCHANGED <<input, wake, client, task>>
    BY DEF Stall, Revive, durable
  <1>2. DOMAIN rt' = FlagFields /\ rt'.routerTurn = rt.routerTurn
    BY DEF Stall, Revive, TurnInv, Shape, FlagFields
  <1>3. /\ turn' \in [Holders -> {"none", "running", "stalled"}]
        /\ \A g \in Holders : turn'[g] = "none" <=> turn[g] = "none"
    BY DEF Stall, Revive, TurnInv, Shape
  <1>4. /\ told' \in [Holders -> {"no", "cancel", "prompt", "router", "watchdog"}]
        /\ \A g \in Holders : told'[g] # "no" => turn[g] # "none"
        /\ \A g \in Holders : told'[g] = "router" => told[g] = "router"
    BY DEF Stall, Revive, TurnInv, Shape, Roles
  <1>5. Shape' /\ Flag' /\ Claims'
    BY <1>1, <1>2, <1>3, <1>4 DEF TurnInv, Shape, Flag, Claims, ClaimsHeld, WakeActive
  <1>6. Roles'
    BY <1>1, <1>3, <1>4, Names DEF TurnInv, Roles, WakeActive
  <1>7. OperatorTurnKept'
    BY <1>1, <1>4, Names DEF TurnInv, OperatorTurnKept
  <1>8. Retained'
    BY <1>1, RetainedMilder, MilderSame DEF TurnInv
  <1> QED
    BY <1>5, <1>6, <1>7, <1>8 DEF TurnInv

LEMMA InvApproval ==
    ASSUME TurnInv, AskApproval \/ AnswerApproval
    PROVE  TurnInv'
  <1>1. UNCHANGED <<input, wake, client, task, turn, told, rt>>
    BY DEF AskApproval, AnswerApproval
  <1>2. Retained' /\ OperatorTurnKept'
    BY <1>1, RetainedMilder, MilderSame DEF TurnInv, OperatorTurnKept
  <1> QED
    BY <1>1, <1>2, QuietStep DEF TurnInv, Shape, Roles

-----------------------------------------------------------------------------
(* Acknowledgements, other processes and crashes *)

\* An input is resolved with its wake.
LEMMA InvResolved ==
    ASSUME TurnInv, NEW i \in Inputs, NEW c \in {wake[i].claim, "none"},
           input' = [input EXCEPT ![i] = [input[i] EXCEPT !.acked = TRUE]],
           wake' = [wake EXCEPT ![i] = [wake[i] EXCEPT !.acked = wake[i].acked \/ wake[i].made,
                                                       !.claim = c]],
           UNCHANGED <<client, task, turn, told, rt>>
    PROVE  TurnInv'
  <1>0. i \in WakeIds /\ input[i] \in Receipt /\ wake[i] \in WakeRecord
    BY Names DEF TurnInv, Shape
  <1>1. /\ [input[i] EXCEPT !.acked = TRUE] \in Receipt
        /\ [input[i] EXCEPT !.acked = TRUE].acked
        /\ [input[i] EXCEPT !.acked = TRUE].recorded = input[i].recorded
    BY <1>0 DEF Receipt
  <1>2. (wake[i].acked \/ wake[i].made) \in BOOLEAN /\ c \in {"none", "live", "dead"}
    BY <1>0 DEF WakeRecord
  <1> DEFINE new == [wake[i] EXCEPT !.acked = wake[i].acked \/ wake[i].made, !.claim = c]
  <1>3. new \in WakeRecord /\ new.claim = c /\ new.made = wake[i].made
    BY <1>0, <1>2 DEF WakeRecord
  <1>4. wake' = [wake EXCEPT ![i] = new]
    OBVIOUS
  <1> HIDE DEF new
  <1>5. /\ wake' \in [WakeIds -> WakeRecord] /\ wake'[i] = new
        /\ \A w \in WakeIds \ {i} : wake'[w] = wake[w]
    BY <1>0, <1>3, <1>4 DEF TurnInv, Shape
  <1>6. /\ input' \in [Inputs -> Receipt] /\ input'[i].acked
        /\ \A j \in Inputs \ {i} : input'[j] = input[j]
    BY <1>1 DEF TurnInv, Shape
  <1>7. \A w \in WakeIds : wake'[w].claim = "live" => wake[w].claim = "live"
    BY <1>3, <1>5
  <1>8. ASSUME NEW j \in Inputs
        PROVE  /\ wake'[j].acked => input'[j].acked
               /\ (IF Human(j) THEN client'[j] = "kept" ELSE input'[j].recorded)
                     => input'[j].acked \/ wake'[j].made
    <2>1. CASE j = i
      BY <1>6, <2>1
    <2>2. CASE j # i
      BY <1>5, <1>6, <2>2, Names DEF TurnInv, Retained, Human
    <2> QED
      BY <2>1, <2>2
  <1>9. Retained'
    BY <1>8 DEF Retained, Human
  <1>10. OperatorTurnKept'
    BY DEF TurnInv, OperatorTurnKept
  <1> QED
    BY <1>5, <1>6, <1>7, <1>9, <1>10, QuietStep DEF TurnInv, Shape, Roles

LEMMA InvAcknowledgeInput ==
    ASSUME TurnInv, NEW i \in Inputs, AcknowledgeInput(i)
    PROVE  TurnInv'
  <1>0. i \in WakeIds /\ wake[i] \in WakeRecord /\ input[i] \in Receipt
    BY Names DEF TurnInv, Shape
  <1>1. UNCHANGED <<client, task, turn, told, rt>>
    BY DEF AcknowledgeInput
  <1>2. input' = [input EXCEPT ![i] = [input[i] EXCEPT !.acked = TRUE]]
    BY <1>0 DEF AcknowledgeInput, TurnInv, Shape
  <1>3. wake' = [wake EXCEPT ![i] = [wake[i] EXCEPT !.acked = wake[i].acked \/ wake[i].made]]
    BY <1>0 DEF AcknowledgeInput, TurnInv, Shape
  <1>4. [wake[i] EXCEPT !.acked = wake[i].acked \/ wake[i].made]
          = [wake[i] EXCEPT !.acked = wake[i].acked \/ wake[i].made, !.claim = wake[i].claim]
    BY <1>0 DEF WakeRecord
  <1> QED
    BY <1>1, <1>2, <1>3, <1>4, InvResolved

LEMMA InvWithdraw ==
    ASSUME TurnInv, NEW i \in Inputs, Withdraw(i)
    PROVE  TurnInv'
  <1>0. i \in WakeIds /\ wake[i] \in WakeRecord /\ input[i] \in Receipt
    BY Names DEF TurnInv, Shape
  <1>1. UNCHANGED <<client, task, turn, told, rt>>
    BY DEF Withdraw
  <1>2. input' = [input EXCEPT ![i] = [input[i] EXCEPT !.acked = TRUE]]
    BY <1>0 DEF Withdraw, TurnInv, Shape
  <1>3. wake' = [wake EXCEPT ![i] = [wake[i] EXCEPT !.acked = wake[i].acked \/ wake[i].made,
                                                    !.claim = "none"]]
    BY <1>0 DEF Withdraw, TurnInv, Shape
  <1> QED
    BY <1>1, <1>2, <1>3, InvResolved

LEMMA InvSendInput ==
    ASSUME TurnInv, NEW i \in Corrections, SendInput(i)
    PROVE  TurnInv'
  <1>0. i \in Inputs
    BY Names
  <1>1. PICK interrupt \in BOOLEAN : Enqueue(i, interrupt)
    BY DEF SendInput
  <1>2. UNCHANGED <<client, task, turn, told, rt>>
    BY DEF SendInput
  <1>3. /\ input' \in [Inputs -> Receipt]
        /\ \A j \in Inputs : input'[j].acked = input[j].acked
        /\ \A j \in Inputs \ {i} : input'[j].recorded = input[j].recorded
        /\ Milder(wake, wake')
        /\ \A w \in WakeIds : wake'[w].claim = wake[w].claim
        /\ input[i].acked \/ wake'[i].made
    BY <1>0, <1>1, EnqueueEffect DEF TurnInv
  <1>4. ASSUME NEW j \in Inputs
        PROVE  /\ wake'[j].acked => input'[j].acked
               /\ (IF Human(j) THEN client'[j] = "kept" ELSE input'[j].recorded)
                     => input'[j].acked \/ wake'[j].made
    <2>1. CASE j = i
      BY <1>2, <1>3, <2>1, Names DEF TurnInv, Retained, Milder
    <2>2. CASE j # i
      BY <1>2, <1>3, <2>2, Names DEF TurnInv, Retained, Milder, Human
    <2> QED
      BY <2>1, <2>2
  <1>5. Retained'
    BY <1>4 DEF Retained, Human
  <1>6. OperatorTurnKept'
    BY <1>2 DEF TurnInv, OperatorTurnKept
  <1> QED
    BY <1>2, <1>3, <1>5, <1>6, QuietStep DEF TurnInv, Shape, Roles, Milder

\* The wakes of children and of capacity, and time: no input's wake is
\* acknowledged.
LEMMA InvOtherWakes ==
    ASSUME TurnInv, NEW w \in WakeIds,
           MakeWake(w) \/ BackoffEnds(w) \/ (w \in Children /\ AcknowledgeWake(w))
    PROVE  TurnInv'
  <1>0. wake[w] \in WakeRecord
    BY DEF TurnInv, Shape
  <1>1. UNCHANGED <<input, client, task, turn, told, rt>>
    BY DEF MakeWake, BackoffEnds, AcknowledgeWake
  <1>2. PICK new : /\ wake' = [wake EXCEPT ![w] = new]
                   /\ \/ new \in {[wake[w] EXCEPT !.made = TRUE], [wake[w] EXCEPT !.due = TRUE]}
                      \/ w \in Children /\ new = [wake[w] EXCEPT !.acked = TRUE]
    <2>1. CASE MakeWake(w)
      <3>1. wake' = [wake EXCEPT ![w] = [wake[w] EXCEPT !.made = TRUE]]
        BY <2>1 DEF MakeWake, TurnInv, Shape
      <3> QED
        BY <3>1
    <2>2. CASE BackoffEnds(w)
      <3>1. wake' = [wake EXCEPT ![w] = [wake[w] EXCEPT !.due = TRUE]]
        BY <2>2 DEF BackoffEnds, TurnInv, Shape
      <3> QED
        BY <3>1
    <2>3. CASE w \in Children /\ AcknowledgeWake(w)
      <3>1. wake' = [wake EXCEPT ![w] = [wake[w] EXCEPT !.acked = TRUE]]
        BY <2>3 DEF AcknowledgeWake, TurnInv, Shape
      <3> QED
        BY <2>3, <3>1
    <2> QED
      BY <2>1, <2>2, <2>3
  <1>3. /\ new \in WakeRecord /\ new.claim = wake[w].claim
        /\ wake[w].made => new.made
        /\ new.acked => wake[w].acked \/ w \in Children
    BY <1>0, <1>2 DEF WakeRecord
  <1>4. wake' \in [WakeIds -> WakeRecord] /\ wake'[w] = new
        /\ \A v \in WakeIds \ {w} : wake'[v] = wake[v]
    BY <1>2, <1>3 DEF TurnInv, Shape
  <1>5. ASSUME NEW j \in Inputs
        PROVE  /\ wake'[j].acked => input'[j].acked
               /\ (IF Human(j) THEN client'[j] = "kept" ELSE input'[j].recorded)
                     => input'[j].acked \/ wake'[j].made
    BY <1>1, <1>3, <1>4, Names DEF TurnInv, Retained, Human
  <1>6. Retained'
    BY <1>5 DEF Retained, Human
  <1>7. OperatorTurnKept'
    BY <1>1 DEF TurnInv, OperatorTurnKept
  <1>8. \A v \in WakeIds : wake'[v].claim = "live" => wake[v].claim = "live"
    BY <1>3, <1>4
  <1> QED
    BY <1>1, <1>4, <1>6, <1>7, <1>8, QuietStep DEF TurnInv, Shape, Roles

\* The router dies: no turn, no task, no claim of a live process is left; the
\* receipts and the wakes stay.
LEMMA InvCrash ==
    ASSUME TurnInv, Crash
    PROVE  TurnInv'
  <1>1. /\ wake' = [w \in WakeIds |-> IF wake[w].claim = "live"
                                      THEN [wake[w] EXCEPT !.claim = "dead"] ELSE wake[w]]
        /\ client' = [p \in Prompts |-> IF p \in HeldBy THEN "lost" ELSE client[p]]
        /\ task' = NoTask /\ rt' = Quiet /\ input' = input
        /\ turn' = [h \in Holders |-> "none"] /\ told' = [h \in Holders |-> "no"]
    BY DEF Crash
  <1>2. task'.at = "none" /\ task'.input = NoInput /\ DOMAIN task' = TaskFields
    BY <1>1 DEF NoTask, TaskFields
  <1>3. DOMAIN rt' = FlagFields /\ rt'.routerTurn = FALSE
    BY <1>1 DEF Quiet, FlagFields
  <1>4. ASSUME NEW w \in WakeIds
        PROVE  /\ wake'[w] \in WakeRecord /\ wake'[w].claim # "live"
               /\ wake'[w].made = wake[w].made /\ wake'[w].acked = wake[w].acked
    <2>1. wake'[w] = IF wake[w].claim = "live" THEN [wake[w] EXCEPT !.claim = "dead"] ELSE wake[w]
      BY <1>1
    <2>2. wake[w] \in WakeRecord
      BY DEF TurnInv, Shape
    <2> QED
      BY <2>1, <2>2 DEF WakeRecord
  <1>5. Milder(wake, wake')
    BY <1>1, <1>4 DEF Milder
  <1>6. client' \in [Prompts -> ClientStates] /\ \A p \in Prompts : client'[p] # "turn"
    BY <1>1 DEF TurnInv, Shape, ClientStates, HeldBy, InHand
  <1>7. Shape' /\ Roles'
    BY <1>1, <1>2, <1>3, <1>5, <1>6, Names DEF TurnInv, Shape, Roles, Milder, WakeActive
  <1>8. Flag' /\ Claims'
    BY <1>2, <1>3, <1>4 DEF Flag, Claims, ClaimsHeld
  <1>9. OperatorTurnKept'
    BY <1>1, Names DEF OperatorTurnKept
  <1>10. Retained'
    BY <1>1, <1>5, RetainedMilder DEF TurnInv, Human
  <1> QED
    BY <1>7, <1>8, <1>9, <1>10 DEF TurnInv

-----------------------------------------------------------------------------
(* The theorems *)

LEMMA InvStep ==
    ASSUME TurnInv, [Next]_vars
    PROVE  TurnInv'
  <1>1. CASE \E p \in Prompts :
               \/ OnPrompt(p) \/ PromptSteered(p) \/ PromptPreempts(p) \/ PreemptEnds(p)
               \/ Prepare(p) \/ PrepareFails(p) \/ Dispatch(p)
    BY <1>1, InvOnPrompt, InvPromptSteered, InvPromptPreempts, InvPreemptEnds, InvPrepare,
       InvPrepareFails, InvDispatch
  <1>2. CASE \/ OnCancel \/ Tick \/ Load \/ ClaimWakes \/ ClaimInput \/ SettleWakes
             \/ SettleInput \/ SteerPending \/ SteerInjected \/ SteerDeclined
             \/ AskApproval \/ AnswerApproval \/ Crash
    BY <1>2, InvOnCancel, InvTick, InvLoad, InvClaimWakes, InvClaimInput, InvSettleWakes,
       InvSettleInput, InvSteer, InvSteerDeclined, InvApproval, InvCrash
  <1>3. CASE \E h \in Holders :
               Output(h) \/ TurnReturns(h) \/ Stall(h) \/ Revive(h) \/ Release(h)
    BY <1>3, InvOutput, InvTurnEnds, InvWatchdog
  <1>4. CASE \/ \E i \in Inputs : AcknowledgeInput(i) \/ Withdraw(i)
             \/ \E i \in Corrections : SendInput(i)
    BY <1>4, InvAcknowledgeInput, InvWithdraw, InvSendInput
  <1>5. CASE \/ \E w \in Children \cup Reminders : MakeWake(w)
             \/ \E w \in Children : AcknowledgeWake(w)
             \/ \E w \in WakeIds : BackoffEnds(w)
    BY <1>5, InvOtherWakes, Names
  <1>6. CASE UNCHANGED vars
    <2>1. UNCHANGED <<input, wake, client, task, turn, told, rt>>
      BY <1>6 DEF vars
    <2>2. Retained' /\ OperatorTurnKept'
      BY <2>1, RetainedMilder, MilderSame DEF TurnInv, OperatorTurnKept
    <2> QED
      BY <2>1, <2>2, QuietStep DEF TurnInv, Shape, Roles
  <1> QED
    BY <1>1, <1>2, <1>3, <1>4, <1>5, <1>6 DEF Next

\* A run that was loaded idle, whatever it is done with already.
Loaded == \E past \in SUBSET WakeIds : \E n \in Nat : Start(past, n)

LEMMA InvLoaded ==
    ASSUME Loaded
    PROVE  TurnInv
  <1>1. PICK past \in SUBSET WakeIds : \E n \in Nat : Start(past, n)
    BY DEF Loaded
  <1>2. /\ input = [i \in Inputs |-> [recorded |-> i \in past, interrupt |-> FALSE,
                                      delivered |-> i \in past, acked |-> i \in past]]
        /\ wake = [w \in WakeIds |-> [made |-> w \in past, acked |-> w \in past,
                                      due |-> TRUE, claim |-> "none"]]
        /\ client = [p \in Prompts |-> IF p \in past THEN "answered" ELSE "unsent"]
        /\ task = NoTask /\ rt = Quiet
        /\ turn = [h \in Holders |-> "none"] /\ told = [h \in Holders |-> "no"]
    BY <1>1 DEF Start
  <1>3. task.at = "none" /\ task.input = NoInput /\ DOMAIN task = TaskFields
    BY <1>2 DEF NoTask, TaskFields
  <1>4. DOMAIN rt = FlagFields /\ rt.routerTurn = FALSE
    BY <1>2 DEF Quiet, FlagFields
  <1>5. \A i \in Inputs : /\ input[i] \in Receipt
                          /\ input[i].recorded = (i \in past) /\ input[i].acked = (i \in past)
    BY <1>2 DEF Receipt
  <1>6. \A w \in WakeIds : /\ wake[w] \in WakeRecord /\ wake[w].claim = "none"
                           /\ wake[w].made = (w \in past) /\ wake[w].acked = (w \in past)
    BY <1>2 DEF WakeRecord
  <1>7. Shape
    BY <1>2, <1>3, <1>4, <1>5, <1>6 DEF Shape, ClientStates
  <1>8. Roles
    BY <1>2, <1>3, Names DEF Roles, WakeActive
  <1>9. Flag /\ Claims
    BY <1>3, <1>4, <1>6 DEF Flag, Claims, ClaimsHeld
  <1>10. OperatorTurnKept
    BY <1>2, Names DEF OperatorTurnKept
  <1>11. Retained
    BY <1>2, <1>5, <1>6, Names DEF Retained, Human
  <1> QED
    BY <1>7, <1>8, <1>9, <1>10, <1>11 DEF TurnInv

LoadedSpec == Loaded /\ [][Next]_vars

\* The inductive invariant: who may be in a turn, what belongs to the task in
\* progress and what a retained input keeps (planner_wake.rs, planner_preempt.rs).
THEOREM TurnInvariant == LoadedSpec => []TurnInv
  <1>1. TurnInv /\ [Next]_vars => TurnInv'
    BY InvStep
  <1> QED
    BY <1>1, InvLoaded, PTL DEF LoadedSpec

\* Every behaviour of Spec starts loaded, done with nothing.
LEMMA SpecIsLoaded == Spec => LoadedSpec
  <1>1. Init => Loaded
    BY DEF Init, Loaded
  <1> QED
    BY <1>1, PTL DEF Spec, LoadedSpec

\* The wake loop and an operator's prompt never run turns at the same time
\* (PromptActivity and dispatch_prompt in session.rs).
THEOREM TurnsExclusive == LoadedSpec => []OperatorAlone
  <1>1. TurnInv => OperatorAlone
    BY DEF TurnInv, Roles, OperatorAlone, WakeActive
  <1> QED
    BY <1>1, TurnInvariant, PTL

\* The router preempts no operator's turn for a correction or a handoff that
\* the adapter declined, however late the answer (planner_wake::steer_pending).
THEOREM OperatorUndisturbed == LoadedSpec => []OperatorTurnKept
  <1>1. TurnInv => OperatorTurnKept
    BY DEF TurnInv
  <1> QED
    BY <1>1, TurnInvariant, PTL

\* A claim of this process belongs to the delivery in progress
\* (planner_wake::deliver).
THEOREM ClaimsEnd == LoadedSpec => []ClaimsHeld
  <1>1. TurnInv => ClaimsHeld
    BY DEF TurnInv, Claims
  <1> QED
    BY <1>1, TurnInvariant, PTL

\* The router-owned flag is up only while the loop delivers
\* (planner_preempt::begin_router_turn, end_router_turn).
THEOREM FlagFalls == LoadedSpec => []RouterTurnEnds
  <1>1. TurnInv => RouterTurnEnds
    BY DEF TurnInv, Flag, RouterTurnEnds
  <1> QED
    BY <1>1, TurnInvariant, PTL

\* An input that was retained stays a pending wake until it is acknowledged or
\* withdrawn, through every crash (planner_input.rs, planner_wake.rs).
THEOREM RetainedPends == LoadedSpec => []KeptStaysPending
  <1>1. TurnInv => KeptStaysPending
    BY Names DEF TurnInv, Retained, KeptStaysPending, Pending
  <1> QED
    BY <1>1, TurnInvariant, PTL

\* The same of Spec itself.
THEOREM ParentTurnsSafe ==
    Spec => [](/\ OperatorAlone /\ OperatorTurnKept /\ ClaimsHeld
               /\ RouterTurnEnds /\ KeptStaysPending)
  BY SpecIsLoaded, TurnsExclusive, OperatorUndisturbed, ClaimsEnd, FlagFalls, RetainedPends, PTL

(***************************************************************************)
(* The capacity.                                                           *)
(***************************************************************************)
(* Its inductive invariant *)

\* The resumptions of a work, against its backoff state: a schedule counts one
\* more failure, and only a schedule makes a resumption due.
TriesOK(w) ==
    /\ tries[w] < FailureLimit
    /\ resume[w].due # "no" \/ resume[w].suspended => resume[w].same >= 1
    /\ ~resume[w].suspended => resume[w].same < FailureLimit
    /\ IF Changed(w) THEN tries[w] = 0
       ELSE /\ tries[w] <= resume[w].same
            /\ resume[w].due # "no" \/ resume[w].suspended => tries[w] < resume[w].same
    /\ work[w].st \in {"none", "finished"} => tries[w] = 0
    /\ work[w].need => work[w].st = "interrupted"

TriesInv == \A w \in Works : TriesOK(w)
CapacityInv == CapacityTypes /\ TriesInv

\* The parts of the state that the count depends on.
counted == <<work, resume, tries>>

LEMMA SameCounts ==
    ASSUME TriesInv, UNCHANGED counted
    PROVE  TriesInv'
  BY DEF TriesInv, TriesOK, Changed, Fingerprint, counted

\* A step about one work.
LEMMA OneWork ==
    ASSUME CapacityInv, NEW w \in Works, TriesOK(w)',
           \A v \in Works \ {w} : work'[v] = work[v] /\ resume'[v] = resume[v] /\ tries'[v] = tries[v]
    PROVE  TriesInv'
  BY DEF CapacityInv, TriesInv, TriesOK, Changed, Fingerprint

\* A start changes neither the failure of a work nor the work of another.
LEMMA BegunKeeps ==
    ASSUME CapacityTypes, NEW w \in Works, NEW how
    PROVE  /\ Begun(w, how) \in [Works -> WorkRecord]
           /\ \A v \in Works :
                 /\ Begun(w, how)[v].cause = work[v].cause /\ Begun(w, how)[v].need = work[v].need
                 /\ v # w => Begun(w, how)[v] = work[v]
                 /\ Begun(w, how)[v].st \in {work[v].st, "running", "interrupted"}
  <1> USE DEF WorkRecord, Statuses
  <1>0. work \in [Works -> WorkRecord] /\ work[w].n + 1 \in Nat
    BY DEF CapacityTypes
  <1>1. CASE how = "ok"
    <2> DEFINE b == [work[w] EXCEPT !.st = "running", !.n = @ + 1, !.space = TRUE, !.open = TRUE]
    <2>1. Begun(w, how) = [work EXCEPT ![w] = b]
      BY <1>1 DEF Begun
    <2>2. b \in WorkRecord /\ b.cause = work[w].cause /\ b.need = work[w].need /\ b.st = "running"
      BY <1>0
    <2> HIDE DEF b
    <2> QED BY <1>0, <2>1, <2>2
  <1>2. CASE how = "unplaced"
    <2> DEFINE b == [work[w] EXCEPT !.st = "interrupted", !.n = @ + 1, !.open = FALSE]
    <2>1. Begun(w, how) = [work EXCEPT ![w] = b]
      BY <1>2 DEF Begun
    <2>2. b \in WorkRecord /\ b.cause = work[w].cause /\ b.need = work[w].need /\ b.st = "interrupted"
      BY <1>0
    <2> HIDE DEF b
    <2> QED BY <1>0, <2>1, <2>2
  <1>3. CASE how \notin {"ok", "unplaced"}
    <2>1. Begun(w, how) = work
      BY <1>3 DEF Begun
    <2> QED BY <1>0, <2>1
  <1> QED BY <1>1, <1>2, <1>3

\* What a step that starts workers leaves of the count.
LEMMA StartCounts ==
    ASSUME CapacityInv, NEW w \in Works, NEW how, work' = Begun(w, how),
           UNCHANGED <<resume, tries>>, ~work[w].need
    PROVE  TriesInv'
  <1>1. \A v \in Works :
           /\ work'[v].cause = work[v].cause /\ work'[v].need = work[v].need
           /\ v # w => work'[v] = work[v]
           /\ work'[v].st \in {work[v].st, "running", "interrupted"}
    BY BegunKeeps DEF CapacityInv
  <1>2. ASSUME NEW v \in Works
        PROVE  TriesOK(v)'
    <2>1. TriesOK(v) /\ (v = w => ~work[v].need)
      BY DEF CapacityInv, TriesInv
    <2>2. Changed(v)' = Changed(v)
      BY <1>1 DEF Changed, Fingerprint
    <2>3. work'[v].st \in {"none", "finished"} => work[v].st = work'[v].st
      BY <1>1
    <2> QED BY <1>1, <2>1, <2>2, <2>3 DEF TriesOK
  <1> QED BY <1>2 DEF TriesInv

-----------------------------------------------------------------------------
(* The steps that change the count or what it depends on *)

LEMMA ScheduleCounts ==
    ASSUME CapacityInv, NEW w \in Works, SameStop(w), Schedule(w), UNCHANGED work
    PROVE  TriesInv'
  <1> DEFINE c == SameCount(w)
  <1>1. /\ c \in Nat /\ c >= 1 /\ tries[w] < c
        /\ tries[w] < FailureLimit /\ tries[w] \in Nat
    <2>1. /\ resume[w].same \in Nat /\ tries[w] \in Nat /\ FailureLimit \in Nat
          /\ Changed(w) \in BOOLEAN
      BY CapacityAssumption DEF CapacityInv, CapacityTypes, ResumeRecord, Changed
    <2>2. TriesOK(w)
      BY DEF CapacityInv, TriesInv
    <2>3. CASE Changed(w)
      BY <2>1, <2>2, <2>3 DEF SameCount, TriesOK
    <2>4. CASE ~Changed(w)
      BY <2>1, <2>2, <2>4 DEF SameCount, TriesOK
    <2> QED BY <2>3, <2>4
  <1>2. /\ resume'[w].known /\ resume'[w].print = Fingerprint(w) /\ resume'[w].same = c
        /\ resume'[w].suspended = Suspends(w)
        /\ \A v \in Works \ {w} : resume'[v] = resume[v]
    BY DEF Schedule, CapacityInv, CapacityTypes, ResumeRecord
  <1>3. ~Suspends(w) => c < FailureLimit
    BY <1>1, CapacityAssumption DEF Suspends
  <1>4. ~Changed(w)'
    BY <1>2 DEF Changed, Fingerprint
  <1>5. tries' = tries /\ TriesOK(w)
    BY DEF Schedule, CapacityInv, TriesInv
  <1>6. TriesOK(w)'
    <2> HIDE DEF c
    <2> QED BY <1>1, <1>2, <1>3, <1>4, <1>5, CapacityAssumption DEF TriesOK
  <1> QED BY <1>2, <1>5, <1>6, OneWork

LEMMA ClaimCounts ==
    ASSUME CapacityInv, NEW w \in Works, ClaimResume(w), UNCHANGED work, SameStop(w)
    PROVE  TriesInv'
  <1>1. /\ ~Changed(w) /\ ~resume[w].suspended /\ resume[w].due = "now" /\ TriesOK(w)
        /\ work[w].st = "interrupted"
    BY DEF ClaimResume, ResumeClaimable, Due, SameStop, StoppedEarly, CapacityInv, TriesInv
  <1>2. /\ resume'[w].due = "no" /\ resume'[w].known = resume[w].known
        /\ resume'[w].print = resume[w].print /\ resume'[w].same = resume[w].same
        /\ resume'[w].suspended = resume[w].suspended
        /\ tries'[w] = tries[w] + 1
        /\ \A v \in Works \ {w} : resume'[v] = resume[v] /\ tries'[v] = tries[v]
    BY DEF ClaimResume, CapacityInv, CapacityTypes, ResumeRecord
  <1>3. ~Changed(w)'
    BY <1>1, <1>2 DEF Changed, Fingerprint
  <1>4. tries[w] \in Nat /\ resume[w].same \in Nat /\ FailureLimit \in Nat
    BY CapacityAssumption DEF CapacityInv, CapacityTypes, ResumeRecord
  <1>5. TriesOK(w)'
    BY <1>1, <1>2, <1>3, <1>4 DEF TriesOK
  <1> QED BY <1>2, <1>5, OneWork

LEMMA ResumeCounts ==
    ASSUME CapacityInv, NEW w \in Works, ResumeWorker(w)
    PROVE  TriesInv'
  <1>1. UNCHANGED work
    BY DEF ResumeWorker
  <1>2. CASE Skip(w)
    <2>1. CASE work[w].st = "finished"
      <3>1. /\ resume'[w] = NoResume /\ UNCHANGED tries
            /\ \A v \in Works \ {w} : resume'[v] = resume[v]
        BY <1>2, <2>1 DEF Skip, CapacityInv, CapacityTypes
      <3>2. tries[w] = 0 /\ TriesOK(w)
        BY <2>1 DEF CapacityInv, TriesInv, TriesOK
      <3>3. TriesOK(w)'
        BY <1>1, <3>1, <3>2, CapacityAssumption DEF TriesOK, NoResume, Changed, Fingerprint
      <3> QED BY <1>1, <3>1, <3>3, OneWork
    <2>2. CASE work[w].st # "finished"
      BY <1>1, <1>2, <2>2, SameCounts DEF Skip, counted, CapacityInv
    <2> QED BY <2>1, <2>2
  <1> QED BY <1>1, <1>2, ScheduleCounts, ClaimCounts DEF ResumeWorker

LEMMA AdoptionCounts ==
    ASSUME CapacityInv, NEW S \in SUBSET left.scope, RetryAdoption(S)
    PROVE  TriesInv'
  <1>1. UNCHANGED <<resume, tries>>
    BY DEF RetryAdoption
  <1>2. ASSUME NEW v \in Works
        PROVE  TriesOK(v)'
    <2>1. TriesOK(v)
      BY DEF CapacityInv, TriesInv
    <2>2. CASE v \in S
      <3>1. work[v].st = "none" /\ work'[v] = [work[v] EXCEPT !.st = "interrupted", !.n = 1,
                                                              !.need = TRUE, !.space = TRUE]
        BY <2>2 DEF RetryAdoption
      <3>2. work'[v].st = "interrupted" /\ tries[v] = 0
        BY <2>1, <3>1 DEF TriesOK, CapacityInv, CapacityTypes, WorkRecord
      <3> QED BY <1>1, <2>1, <3>2 DEF TriesOK, CapacityInv, CapacityTypes, ResumeRecord
    <2>3. CASE v \notin S
      <3>1. work'[v] = work[v]
        BY <2>3 DEF RetryAdoption
      <3> QED BY <1>1, <2>1, <3>1 DEF TriesOK, Changed, Fingerprint
    <2> QED BY <2>2, <2>3
  <1> QED BY <1>2 DEF TriesInv

LEMMA StopCounts ==
    ASSUME CapacityInv, NEW w \in Works, NEW out \in {"interrupted", "aside", "finished"},
           NEW c \in Causes, NEW open \in BOOLEAN, NEW turned \in BOOLEAN,
           WorkerStops(w, out, c, open, turned)
    PROVE  TriesInv'
  <1>1. /\ work[w].st = "running" /\ work'[w].st = out /\ work'[w].cause = c
        /\ work'[w].need = work[w].need
        /\ out # "interrupted" => c = work[w].cause
        /\ \A v \in Works \ {w} : work'[v] = work[v]
    BY DEF WorkerStops, CapacityInv, CapacityTypes, WorkRecord
  <1>2. /\ resume'[w].due = resume[w].due /\ resume'[w].known = resume[w].known
        /\ resume'[w].print = resume[w].print /\ resume'[w].same = resume[w].same
        /\ resume'[w].suspended = resume[w].suspended
        /\ \A v \in Works \ {w} : resume'[v] = resume[v]
    BY DEF WorkerStops, CapacityInv, CapacityTypes, ResumeRecord
  <1>3. /\ tries'[w] = IF out = "interrupted" /\ c = work[w].cause THEN tries[w] ELSE 0
        /\ \A v \in Works \ {w} : tries'[v] = tries[v]
    BY DEF WorkerStops, CapacityInv, CapacityTypes
  <1>4. TriesOK(w) /\ tries[w] \in Nat /\ resume[w].same \in Nat /\ FailureLimit \in Nat \ {0}
    BY CapacityAssumption DEF CapacityInv, TriesInv, CapacityTypes, ResumeRecord
  <1>5. TriesOK(w)'
    <2>1. CASE out = "interrupted" /\ c = work[w].cause
      <3>1. Changed(w)' = Changed(w)
        BY <1>1, <1>2, <2>1 DEF Changed, Fingerprint
      <3> QED BY <1>1, <1>2, <1>3, <1>4, <2>1, <3>1 DEF TriesOK
    <2>2. CASE ~(out = "interrupted" /\ c = work[w].cause)
      <3>1. tries'[w] = 0
        BY <1>3, <2>2
      <3>2. ~work'[w].need
        BY <1>1, <1>4 DEF TriesOK
      <3> QED BY <1>2, <1>4, <3>1, <3>2 DEF TriesOK
    <2> QED BY <2>1, <2>2
  <1> QED BY <1>1, <1>2, <1>3, <1>5, OneWork

LEMMA ReconcileCounts ==
    ASSUME CapacityInv, NEW w \in Works, ParentReconciles(w)
    PROVE  TriesInv'
  <1>1. /\ ~work'[w].need /\ resume'[w] = NoResume /\ tries'[w] = 0
        /\ \A v \in Works \ {w} : work'[v] = work[v] /\ resume'[v] = resume[v] /\ tries'[v] = tries[v]
    BY DEF ParentReconciles, CapacityInv, CapacityTypes, WorkRecord
  <1>2. TriesOK(w)'
    BY <1>1, CapacityAssumption DEF TriesOK, NoResume
  <1> QED BY <1>1, <1>2, OneWork

LEMMA FollowupCounts ==
    ASSUME CapacityInv, NEW w \in Works, RunFollowup(w)
    PROVE  TriesInv'
  <1>1. UNCHANGED <<resume, tries>>
    BY DEF RunFollowup
  <1>2. CASE UNCHANGED work
    BY <1>1, <1>2, SameCounts DEF counted, CapacityInv
  <1>3. CASE work' = [work EXCEPT ![w].st = "running"] /\ ~work[w].need
    <2>1. /\ work'[w].st = "running" /\ ~work'[w].need /\ work'[w].cause = work[w].cause
          /\ work'[w].need = work[w].need
          /\ \A v \in Works \ {w} : work'[v] = work[v]
      BY <1>3 DEF CapacityInv, CapacityTypes, WorkRecord
    <2>2. Changed(w)' = Changed(w) /\ TriesOK(w)
      BY <1>1, <2>1 DEF Changed, Fingerprint, CapacityInv, TriesInv
    <2>3. TriesOK(w)'
      BY <1>1, <2>1, <2>2 DEF TriesOK
    <2> QED BY <1>1, <2>1, <2>3, OneWork
  <1> QED BY <1>2, <1>3 DEF RunFollowup

LEMMA BackoffCounts ==
    ASSUME CapacityInv, NEW w \in Works, BackoffElapses(w)
    PROVE  TriesInv'
  <1>1. /\ resume[w].due = "later" /\ resume'[w].known = resume[w].known
        /\ resume'[w].print = resume[w].print /\ resume'[w].same = resume[w].same
        /\ resume'[w].suspended = resume[w].suspended
        /\ \A v \in Works \ {w} : resume'[v] = resume[v]
        /\ UNCHANGED <<work, tries>>
    BY DEF BackoffElapses, CapacityInv, CapacityTypes, ResumeRecord
  <1>2. Changed(w)' = Changed(w) /\ TriesOK(w)
    BY <1>1 DEF Changed, Fingerprint, CapacityInv, TriesInv
  <1>3. TriesOK(w)'
    BY <1>1, <1>2 DEF TriesOK
  <1> QED BY <1>1, <1>3, OneWork

-----------------------------------------------------------------------------
(* Types *)

LeftRecords == [stops : Nat, answers : Nat, events : Nat, hosts : SUBSET {"capacity", "audit"},
                scope : SUBSET Works]

LEMMA NoPass ==
    /\ NoResume \in ResumeRecord
    /\ NothingSeen \in [Works -> Nat \X (Causes \X BOOLEAN)]
    /\ NoTick \in TickRecord
  <1>1. (CHOOSE c \in Causes : TRUE) \in Causes
    BY CapacityAssumption
  <1>2. NoResume \in ResumeRecord
    <2> DEFINE c == CHOOSE c \in Causes : TRUE
    <2>1. NoResume = [known |-> FALSE, due |-> "no", print |-> <<c, FALSE>>,
                      same |-> 0, suspended |-> FALSE, follow |-> FALSE] /\ c \in Causes
      BY <1>1, Zenon DEF NoResume
    <2> HIDE DEF c
    <2> QED BY <2>1 DEF ResumeRecord
  <1>3. NothingSeen \in [Works -> Nat \X (Causes \X BOOLEAN)]
    BY <1>2 DEF NothingSeen, ResumeRecord
  <1> QED BY <1>2, <1>3 DEF NoTick, TickRecord, TickPhases

LEMMA LiveNat == Live \in Nat
  <1>1. IsFiniteSet({w \in Works : work[w].st = "running"})
    BY CapacityAssumption, FS_Subset
  <1> QED BY <1>1, FS_CardinalityType DEF Live

LEMMA LeaveTypes ==
    ASSUME CapacityTypes, NEW filled \in BOOLEAN, Leave(filled)
    PROVE  tick' \in TickRecord
  BY NoPass DEF CapacityTypes, Leave, TickRecord, TickPhases

LEMMA GotoTypes ==
    ASSUME CapacityTypes, NEW p \in TickPhases, Goto(p)
    PROVE  tick' \in TickRecord
  BY DEF CapacityTypes, Goto, TickRecord

LEMMA SpendTypes ==
    ASSUME CapacityTypes, Spend(1) \/ (\E same : Answers(same)) \/ UNCHANGED left
    PROVE  left' \in LeftRecords
  BY DEF CapacityTypes, LeftRecords, Spend, Answers

LEMMA ResetTypes ==
    ASSUME CapacityTypes, ResetUnfilled
    PROVE  cap' \in CapRecord /\ wakes' \subseteq RouterKinds \cup Works
  <1>1. cap' \in CapRecord
    <2>1. 0 \in 0..2
      OBVIOUS
    <2> QED BY <2>1 DEF ResetUnfilled, CapacityTypes, CapRecord
  <1>2. wakes' \subseteq RouterKinds \cup Works
    BY DEF ResetUnfilled, CapacityTypes
  <1> QED BY <1>1, <1>2

LEMMA WokenTypes ==
    ASSUME CapacityTypes, NEW a, NEW b
    PROVE  AuditWoken(a, b) \subseteq RouterKinds \cup Works
  BY DEF CapacityTypes, AuditWoken, RouterKinds

\* What the resumption of workers leaves alone.
LEMMA ResumeTypes ==
    ASSUME CapacityTypes, NEW w \in Works, ResumeWorker(w)
    PROVE  CapacityTypes'
  <1>1. UNCHANGED <<work, cap, audit, parent, run, left>>
    BY DEF ResumeWorker
  <1>2. /\ Fingerprint(w) \in Causes \X BOOLEAN /\ SameCount(w) \in Nat /\ Suspends(w) \in BOOLEAN
        /\ Changed(w) \in BOOLEAN
    BY DEF CapacityTypes, WorkRecord, ResumeRecord, Fingerprint, SameCount, Suspends, Changed
  <1>3. [tick EXCEPT !.todo = @ \ {w}] \in TickRecord
    BY DEF CapacityTypes, TickRecord
  <1>4. CASE Skip(w)
    <2>1. resume' \in [Works -> ResumeRecord] /\ UNCHANGED <<wakes, jobs, tries>>
      BY <1>4, NoPass DEF Skip, CapacityTypes
    <2>2. tick' \in TickRecord
      BY <1>3, <1>4 DEF Skip
    <2> QED BY <1>1, <2>1, <2>2 DEF CapacityTypes
  <1>5. CASE Schedule(w)
    <2> DEFINE q == [resume[w] EXCEPT !.known = TRUE, !.print = Fingerprint(w),
                    !.same = SameCount(w), !.suspended = Suspends(w),
                    !.due = IF Suspends(w) THEN "no" ELSE "later"]
    <2>1. q \in ResumeRecord
      <3> DEFINE f == Fingerprint(w)
                 n == SameCount(w)
                 b == Suspends(w)
                 d == IF Suspends(w) THEN "no" ELSE "later"
      <3>1. f \in Causes \X BOOLEAN /\ n \in Nat /\ b \in BOOLEAN /\ d \in {"no", "later", "now"}
        BY <1>2
      <3>2. resume[w] \in ResumeRecord
        BY DEF CapacityTypes
      <3> HIDE DEF f, n, b, d
      <3>3. [resume[w] EXCEPT !.known = TRUE, !.print = f, !.same = n, !.suspended = b, !.due = d]
              \in ResumeRecord
        BY <3>1, <3>2 DEF ResumeRecord
      <3> QED BY <3>3 DEF f, n, b, d
    <2>2. resume' = [resume EXCEPT ![w] = q]
      BY <1>5 DEF Schedule, CapacityTypes
    <2> HIDE DEF q
    <2>3. resume' \in [Works -> ResumeRecord]
      BY <2>1, <2>2 DEF CapacityTypes
    <2>4. wakes' \subseteq RouterKinds \cup Works /\ UNCHANGED <<jobs, tries>> /\ tick' \in TickRecord
      BY <1>3, <1>5 DEF Schedule, CapacityTypes
    <2> QED BY <1>1, <2>3, <2>4 DEF CapacityTypes
  <1>6. CASE ClaimResume(w)
    <2> DEFINE followup == work[w].open /\ ~resume[w].follow
    <2>1. followup \in BOOLEAN
      BY DEF CapacityTypes, WorkRecord, ResumeRecord
    <2>2. /\ resume' = [resume EXCEPT ![w].due = "no", ![w].follow = followup]
          /\ tries' = [tries EXCEPT ![w] = @ + 1]
          /\ jobs' = IF followup THEN [jobs EXCEPT ![w] = work[w].n] ELSE jobs
          /\ tick' = [tick EXCEPT !.todo = @ \ {w}, !.live = @ + 1,
                  !.at = IF followup THEN "resume" ELSE "start",
                  !.one = IF followup THEN "-" ELSE w]
          /\ UNCHANGED wakes
      BY <1>6 DEF ClaimResume
    <2> HIDE DEF followup
    <2>3. resume' \in [Works -> ResumeRecord]
      <3>1. resume[w] \in ResumeRecord
        BY DEF CapacityTypes
      <3>2. [resume[w] EXCEPT !.due = "no", !.follow = followup] \in ResumeRecord
        BY <2>1, <3>1 DEF ResumeRecord
      <3>3. resume' = [resume EXCEPT ![w] = [resume[w] EXCEPT !.due = "no", !.follow = followup]]
        BY <2>2 DEF CapacityTypes
      <3> QED BY <3>2, <3>3 DEF CapacityTypes
    <2>4. tick' \in TickRecord
      <3>1. tick \in TickRecord /\ tick.live + 1 \in Nat
        BY DEF CapacityTypes, TickRecord
      <3>2. CASE followup
        <4>1. tick' = [tick EXCEPT !.todo = @ \ {w}, !.live = @ + 1, !.at = "resume", !.one = "-"]
          BY <2>2, <3>2
        <4> QED BY <3>1, <4>1 DEF TickRecord, TickPhases
      <3>3. CASE ~followup
        <4>1. tick' = [tick EXCEPT !.todo = @ \ {w}, !.live = @ + 1, !.at = "start", !.one = w]
          BY <2>2, <3>3
        <4> QED BY <3>1, <4>1 DEF TickRecord, TickPhases
      <3> QED BY <3>2, <3>3
    <2>5. jobs' \in [Works -> Nat] /\ tries' \in [Works -> Nat]
      BY <2>1, <2>2 DEF CapacityTypes, WorkRecord
    <2> QED BY <1>1, <2>2, <2>3, <2>4, <2>5 DEF CapacityTypes
  <1> QED BY <1>4, <1>5, <1>6 DEF ResumeWorker

\* The rest of a pass.
LEMMA PassTypes ==
    ASSUME CapacityTypes, PassSteps
    PROVE  CapacityTypes'
  <1>0. left.scope \subseteq Works
    BY DEF CapacityTypes
  <1>1. CASE TickStart
    <2> DEFINE todo == {w \in Works : (StoppedEarly(w) /\ w \notin cap.human)
                                     \/ (work[w].st = "finished" /\ resume[w].known)}
               seen == [w \in Works |-> IF StoppedEarly(w) THEN <<work[w].n, Fingerprint(w)>>
                                         ELSE NothingSeen[w]]
    <2>1. seen \in [Works -> Nat \X (Causes \X BOOLEAN)]
      BY NoPass DEF CapacityTypes, WorkRecord, Fingerprint
    <2>2. todo \subseteq Works
      OBVIOUS
    <2>3. tick' = [NoTick EXCEPT !.at = "resume", !.live = Live, !.todo = todo, !.seen = seen]
      BY <1>1, Zenon DEF TickStart
    <2> HIDE DEF todo, seen
    <2>4. tick' \in TickRecord
      BY <2>1, <2>2, <2>3, LiveNat, NoPass DEF TickRecord, TickPhases
    <2> QED BY <1>1, <2>4 DEF TickStart, CapacityTypes
  <1>2. ASSUME NEW w \in left.scope, ResumeWorker(w)
        PROVE  CapacityTypes'
    BY <1>0, <1>2, ResumeTypes
  <1>3. ASSUME NEW how \in {"ok", "refused", "unplaced"}, tick.one # "-", StartResumed(how)
        PROVE  CapacityTypes'
    <2>1. tick.one \in Works
      BY <1>3 DEF CapacityTypes, TickRecord
    <2>2. work' \in [Works -> WorkRecord]
      BY <1>3, <2>1, BegunKeeps DEF StartResumed
    <2>3. left' \in LeftRecords
      BY <1>3, SpendTypes DEF StartResumed, Charged
    <2>4. tick' \in TickRecord
      BY <1>3 DEF StartResumed, CapacityTypes, TickRecord, TickPhases
    <2> QED BY <1>3, <2>2, <2>3, <2>4 DEF StartResumed, CapacityTypes, LeftRecords
  <1>4. ASSUME NEW late \in BOOLEAN, StartAudit(late)
        PROVE  CapacityTypes'
    <2>1. tick' \in TickRecord
      BY <1>4, NoPass DEF StartAudit, CapacityTypes, TickRecord, TickPhases
    <2> QED BY <1>4, <2>1 DEF StartAudit, CapacityTypes
  <1>5. ASSUME NEW out \in AuditOutcomes, NEW env \in BOOLEAN, AuditAnswer(out, env)
        PROVE  CapacityTypes'
    <2>1. tick' \in TickRecord
      BY <1>5, NoPass DEF AuditAnswer, TickRecord, TickPhases
    <2>2. left' \in LeftRecords
      BY <1>5, SpendTypes DEF AuditAnswer
    <2>3. audit' \in AuditRecord
      BY <1>5 DEF AuditAnswer, AuditOutcomes, AuditRecord, CapacityTypes, TickRecord
    <2> QED BY <1>5, <2>1, <2>2, <2>3 DEF AuditAnswer, CapacityTypes, LeftRecords
  <1>6. ASSUME NEW a \in BOOLEAN, NEW b \in BOOLEAN, Settle(a, b) \/ LastAuditWake(a, b)
        PROVE  CapacityTypes'
    <2>1. CASE Settle(a, b)
      <3>1. wakes' \subseteq RouterKinds \cup Works
        BY <2>1, WokenTypes DEF Settle, CapacityTypes
      <3>2. tick' \in TickRecord
        <4>1. CASE tick' = NoTick
          BY <4>1, NoPass
        <4>2. ASSUME NEW at \in {"fill", "off", "idle"}, NEW idle \in BOOLEAN,
                     tick' = [tick EXCEPT !.live = Live, !.idle = idle, !.filled = FALSE, !.at = at]
              PROVE  tick' \in TickRecord
          BY <4>2, LiveNat DEF CapacityTypes, TickRecord, TickPhases
        <4>3. \/ tick' = NoTick
              \/ \E at \in {"fill", "off", "idle"} :
                    tick' = [tick EXCEPT !.live = Live, !.idle = ~parent.busy, !.filled = FALSE, !.at = at]
          BY <2>1 DEF Settle
        <4>4. (~parent.busy) \in BOOLEAN
          OBVIOUS
        <4> QED BY <4>1, <4>2, <4>3, <4>4, Zenon
      <3> QED BY <2>1, <3>1, <3>2 DEF Settle, CapacityTypes
    <2>2. CASE LastAuditWake(a, b)
      BY <2>2, NoPass, WokenTypes DEF LastAuditWake, CapacityTypes
    <2> QED BY <1>6, <2>1, <2>2
  <1>7. ASSUME NEW fresh \in BOOLEAN, Fill(fresh)
        PROVE  CapacityTypes'
    <2>1. tick' \in TickRecord
      BY <1>7, LeaveTypes, GotoTypes DEF Fill, TickPhases
    <2>2. cap' \in CapRecord /\ wakes' \subseteq RouterKinds \cup Works
      BY <1>7, ResetTypes DEF Fill, CapacityTypes
    <2> QED BY <1>7, <2>1, <2>2 DEF Fill, CapacityTypes
  <1>8. ASSUME NEW out \in {"ok", "down"}, NEW list \in SUBSET left.scope, HostAnswer(out, list)
        PROVE  CapacityTypes'
    <2>1. tick' \in TickRecord
      BY <1>8, GotoTypes DEF HostAnswer, TickPhases
    <2>2. left' \in LeftRecords
      BY <1>8, SpendTypes DEF HostAnswer
    <2>3. cap' \in CapRecord
      BY <1>0, <1>8 DEF HostAnswer, CapacityTypes, CapRecord
    <2> QED BY <1>8, <2>1, <2>2, <2>3 DEF HostAnswer, CapacityTypes, LeftRecords
  <1>9. ASSUME NEW age \in 0..2, NEW longIdle \in BOOLEAN, Judge(age, longIdle)
        PROVE  CapacityTypes'
    <2>1. UNCHANGED <<work, resume, audit, parent, run, jobs, tries, left>>
      BY <1>9, Zenon DEF Judge
    <2>2. CASE ResetUnfilled /\ Leave(FALSE)
      BY <2>1, <2>2, ResetTypes, LeaveTypes DEF CapacityTypes
    <2>3. CASE /\ \E K \in SUBSET Works : tick' = [tick EXCEPT !.at = "admit", !.todo = K]
               /\ cap' = [cap EXCEPT !.since = TRUE, !.age = age] /\ UNCHANGED wakes
      <3>1. tick' \in TickRecord
        <4>1. PICK K \in SUBSET Works : tick' = [tick EXCEPT !.at = "admit", !.todo = K]
          BY <2>3, Zenon
        <4> QED BY <4>1 DEF CapacityTypes, TickRecord, TickPhases
      <3>2. cap' \in CapRecord
        BY <2>3 DEF CapacityTypes, CapRecord
      <3> QED BY <2>1, <2>3, <3>1, <3>2 DEF CapacityTypes
    <2>4. CASE /\ cap' = [cap EXCEPT !.since = TRUE, !.woken = TRUE, !.age = 0,
                       !.count = IF cap.host = "ok" /\ @ < AfterWakes THEN @ + 1 ELSE @]
               /\ wakes' = wakes \cup {"capacity"} /\ Leave(TRUE)
      <3>1. cap' \in CapRecord
        <4> DEFINE n == IF cap.host = "ok" /\ cap.count < AfterWakes THEN cap.count + 1 ELSE cap.count
        <4>1. n \in Nat /\ cap' = [cap EXCEPT !.since = TRUE, !.woken = TRUE, !.age = 0, !.count = n]
          BY <2>4 DEF CapacityTypes, CapRecord
        <4>2. 0 \in 0..2
          OBVIOUS
        <4> HIDE DEF n
        <4> QED BY <4>1, <4>2 DEF CapacityTypes, CapRecord
      <3>2. wakes' \subseteq RouterKinds \cup Works
        BY <2>4 DEF CapacityTypes, RouterKinds
      <3> QED BY <2>1, <2>4, <3>1, <3>2, LeaveTypes DEF CapacityTypes
    <2>5. CASE /\ cap' = [cap EXCEPT !.since = TRUE, !.age = age]
               /\ UNCHANGED wakes /\ Leave(FALSE)
      <3>1. cap' \in CapRecord
        BY <2>5 DEF CapacityTypes, CapRecord
      <3> QED BY <2>1, <2>5, <3>1, LeaveTypes DEF CapacityTypes
    <2>6. \/ ResetUnfilled /\ Leave(FALSE)
          \/ /\ \E K \in SUBSET Works : tick' = [tick EXCEPT !.at = "admit", !.todo = K]
             /\ cap' = [cap EXCEPT !.since = TRUE, !.age = age] /\ UNCHANGED wakes
          \/ /\ cap' = [cap EXCEPT !.since = TRUE, !.woken = TRUE, !.age = 0,
                       !.count = IF cap.host = "ok" /\ @ < AfterWakes THEN @ + 1 ELSE @]
             /\ wakes' = wakes \cup {"capacity"} /\ Leave(TRUE)
          \/ /\ cap' = [cap EXCEPT !.since = TRUE, !.age = age]
             /\ UNCHANGED wakes /\ Leave(FALSE)
      BY <1>9, Zenon DEF Judge
    <2> QED BY <2>2, <2>3, <2>4, <2>5, <2>6, Zenon
  <1>10. ASSUME NEW w \in left.scope, NEW how \in {"ok", "refused", "unplaced", "unadmitted"},
                AutoAdmit(w, how)
         PROVE  CapacityTypes'
    <2>1. w \in Works /\ UNCHANGED <<resume, wakes, audit, parent, run, jobs, tries>>
      BY <1>0, <1>10 DEF AutoAdmit
    <2>2. tick' \in TickRecord
      BY <1>10 DEF AutoAdmit, CapacityTypes, TickRecord
    <2>3. work' \in [Works -> WorkRecord]
      <3>1. work' = work \/ work' = [work EXCEPT ![w].st = "admitted"] \/ work' = Begun(w, how)
        BY <1>10, Zenon DEF AutoAdmit
      <3>2. [work EXCEPT ![w].st = "admitted"] \in [Works -> WorkRecord]
        BY DEF CapacityTypes, WorkRecord, Statuses
      <3> QED BY <2>1, <3>1, <3>2, BegunKeeps DEF CapacityTypes
    <2>4. cap' \in CapRecord
      BY <1>10, <2>1 DEF AutoAdmit, CapacityTypes, CapRecord
    <2>5. left' \in LeftRecords
      BY <1>10, SpendTypes DEF AutoAdmit, Charged
    <2> QED BY <2>1, <2>2, <2>3, <2>4, <2>5 DEF CapacityTypes, LeftRecords
  <1>11. CASE RecordAdmission
    <2>1. cap' \in CapRecord
      <3>1. 0 \in 0..2
        OBVIOUS
      <3> QED BY <1>11, <3>1 DEF RecordAdmission, CapacityTypes, CapRecord
    <2>2. wakes' \subseteq RouterKinds \cup Works
      BY <1>11 DEF RecordAdmission, CapacityTypes, RouterKinds
    <2> QED BY <1>11, <2>1, <2>2, LeaveTypes DEF RecordAdmission, CapacityTypes
  <1>12. ASSUME NEW due \in BOOLEAN, Inflight(due)
         PROVE  CapacityTypes'
    <2>1. wakes' \subseteq RouterKinds \cup Works /\ tick' \in TickRecord
      BY <1>12, GotoTypes DEF Inflight, CapacityTypes, RouterKinds, TickPhases
    <2> QED BY <1>12, <2>1 DEF Inflight, CapacityTypes
  <1>13. CASE Gate
    <2>1. wakes' \subseteq RouterKinds \cup Works /\ tick' \in TickRecord
      BY <1>13, GotoTypes DEF Gate, CapacityTypes, RouterKinds, TickPhases
    <2>2. parent' \in ParentRecord
      BY <1>13 DEF Gate, CapacityTypes, ParentRecord
    <2> QED BY <1>13, <2>1, <2>2 DEF Gate, CapacityTypes
  <1> QED
    BY <1>1, <1>2, <1>3, <1>4, <1>5, <1>6, <1>7, <1>8, <1>9, <1>10, <1>11, <1>12, <1>13 DEF PassSteps

\* The parent, the person, the workers and time.
OtherSteps ==
    \/ Deliver \/ PersonSpeaks \/ ParentWaits \/ ParentAnswered \/ TimeSteps
    \/ \E kept, second \in BOOLEAN : TurnEnd(kept, second)
    \/ \E list \in SUBSET left.scope : Complete(list)
    \/ \E w \in left.scope : HoldExpires(w) \/ \E human \in BOOLEAN : ParentHolds(w, human)

LEMMA OtherTypes ==
    ASSUME CapacityTypes, OtherSteps
    PROVE  CapacityTypes'
  <1>0. left.scope \subseteq Works
    BY DEF CapacityTypes
  <1>1. CASE Deliver
    <2>1. parent' \in ParentRecord
      BY <1>1 DEF Deliver, CapacityTypes, ParentRecord
    <2> QED BY <1>1, <2>1 DEF Deliver, CapacityTypes
  <1>2. CASE PersonSpeaks
    <2>1. parent' \in ParentRecord /\ cap' \in CapRecord /\ left' \in LeftRecords
      BY <1>2, SpendTypes DEF PersonSpeaks, CapacityTypes, ParentRecord, CapRecord
    <2> QED BY <1>2, <2>1 DEF PersonSpeaks, CapacityTypes, LeftRecords
  <1>3. CASE ParentWaits
    <2>1. parent' \in ParentRecord /\ left' \in LeftRecords
      BY <1>3, SpendTypes DEF ParentWaits, CapacityTypes, ParentRecord
    <2> QED BY <1>3, <2>1 DEF ParentWaits, CapacityTypes, LeftRecords
  <1>4. CASE ParentAnswered
    <2>1. parent' \in ParentRecord
      BY <1>4 DEF ParentAnswered, CapacityTypes, ParentRecord
    <2> QED BY <1>4, <2>1 DEF ParentAnswered, CapacityTypes
  <1>5. CASE TimeSteps
    <2>1. parent' \in ParentRecord
      BY <1>5 DEF TimeSteps, ConditionAges, GateRests, CapacityTypes, ParentRecord
    <2>2. cap' \in CapRecord
      <3>1. cap.age < 2 => cap.age + 1 \in 0..2
        BY DEF CapacityTypes, CapRecord
      <3> QED BY <1>5, <3>1 DEF TimeSteps, ConditionAges, GateRests, CapacityTypes, CapRecord
    <2> QED BY <1>5, <2>1, <2>2 DEF TimeSteps, ConditionAges, GateRests, CapacityTypes
  <1>6. ASSUME NEW kept \in BOOLEAN, NEW second \in BOOLEAN, TurnEnd(kept, second)
        PROVE  CapacityTypes'
    <2>1. left' \in LeftRecords
      BY <1>6, SpendTypes DEF TurnEnd
    <2>2. parent' \in ParentRecord
      BY <1>6 DEF TurnEnd, CapacityTypes, ParentRecord
    <2>3. audit' \in AuditRecord
      <3> DEFINE b == audit.at # "none" /\ ~second
      <3>1. b \in BOOLEAN /\ audit' = [audit EXCEPT !.stale = b]
        BY <1>6 DEF TurnEnd
      <3> HIDE DEF b
      <3> QED BY <3>1 DEF CapacityTypes, AuditRecord
    <2>4. tick' \in TickRecord
      <3> DEFINE b == tick.at \in {"resume", "start", "auditing"} /\ ~second
      <3>1. b \in BOOLEAN /\ tick' = [tick EXCEPT !.late = b]
        BY <1>6 DEF TurnEnd
      <3> HIDE DEF b
      <3> QED BY <3>1 DEF CapacityTypes, TickRecord
    <2>5. wakes' \subseteq RouterKinds \cup Works
      BY <1>6 DEF TurnEnd, CapacityTypes
    <2> QED BY <1>6, <2>1, <2>2, <2>3, <2>4, <2>5 DEF TurnEnd, CapacityTypes, LeftRecords
  <1>7. ASSUME NEW list \in SUBSET left.scope, Complete(list)
        PROVE  CapacityTypes'
    <2>1. left' \in LeftRecords
      BY <1>7, SpendTypes DEF Complete
    <2> QED BY <1>7, <2>1 DEF Complete, CapacityTypes, LeftRecords
  <1>8. ASSUME NEW w \in left.scope, HoldExpires(w)
        PROVE  CapacityTypes'
    <2>1. cap' \in CapRecord
      BY <1>8 DEF HoldExpires, CapacityTypes, CapRecord
    <2> QED BY <1>8, <2>1 DEF HoldExpires, CapacityTypes
  <1>9. ASSUME NEW w \in left.scope, NEW human \in BOOLEAN, ParentHolds(w, human)
        PROVE  CapacityTypes'
    <2>1. left' \in LeftRecords
      BY <1>9, SpendTypes DEF ParentHolds
    <2>2. cap' \in CapRecord
      <3>1. w \in Works /\ cap \in CapRecord
        BY <1>0 DEF CapacityTypes
      <3>2. \/ cap' = [cap EXCEPT !.human = @ \cup {w}, !.holds = @ \ {w}]
            \/ cap' = [cap EXCEPT !.holds = @ \cup {w}, !.human = @ \ {w}]
        BY <1>9, Zenon DEF ParentHolds
      <3>3. CASE cap' = [cap EXCEPT !.human = @ \cup {w}, !.holds = @ \ {w}]
        BY <3>1, <3>3 DEF CapRecord
      <3>4. CASE cap' = [cap EXCEPT !.holds = @ \cup {w}, !.human = @ \ {w}]
        BY <3>1, <3>4 DEF CapRecord
      <3> QED BY <3>2, <3>3, <3>4, Zenon
    <2> QED BY <1>9, <2>1, <2>2 DEF ParentHolds, CapacityTypes, LeftRecords
  <1> QED BY <1>1, <1>2, <1>3, <1>4, <1>5, <1>6, <1>7, <1>8, <1>9 DEF OtherSteps

\* The steps about one work, of the parent and of the workers.
WorkSteps(w) ==
    \/ ParentAdmits(w) \/ ParentReconciles(w) \/ RunFollowup(w) \/ BackoffElapses(w)
    \/ \E how \in {"ok", "unplaced"} : ParentStarts(w, how)
    \/ \E out \in {"interrupted", "aside", "finished"}, c \in Causes, open, turned \in BOOLEAN :
          WorkerStops(w, out, c, open, turned)

LEMMA WorkTypes ==
    ASSUME CapacityTypes, NEW w \in Works, WorkSteps(w)
    PROVE  CapacityTypes'
  <1>0. work[w] \in WorkRecord /\ resume[w] \in ResumeRecord
    BY DEF CapacityTypes
  <1>1. CASE ParentAdmits(w)
    <2>1. work' \in [Works -> WorkRecord]
      BY <1>1 DEF ParentAdmits, CapacityTypes, WorkRecord, Statuses
    <2> QED BY <1>1, <2>1 DEF ParentAdmits, CapacityTypes
  <1>2. CASE ParentReconciles(w)
    <2>1. [work[w] EXCEPT !.need = FALSE, !.st = "admitted", !.open = FALSE] \in WorkRecord
      BY <1>0 DEF WorkRecord, Statuses
    <2>2. work' = [work EXCEPT ![w] = [work[w] EXCEPT !.need = FALSE, !.st = "admitted", !.open = FALSE]]
      BY <1>2 DEF ParentReconciles, CapacityTypes
    <2>3. work' \in [Works -> WorkRecord]
      BY <2>1, <2>2 DEF CapacityTypes
    <2> QED BY <1>2, <2>3, NoPass DEF ParentReconciles, CapacityTypes
  <1>3. CASE RunFollowup(w)
    <2>1. work' \in [Works -> WorkRecord]
      BY <1>3 DEF RunFollowup, CapacityTypes, WorkRecord, Statuses
    <2> QED BY <1>3, <2>1 DEF RunFollowup, CapacityTypes
  <1>4. CASE BackoffElapses(w)
    <2>1. resume' \in [Works -> ResumeRecord]
      BY <1>4 DEF BackoffElapses, CapacityTypes, ResumeRecord
    <2> QED BY <1>4, <2>1 DEF BackoffElapses, CapacityTypes
  <1>5. ASSUME NEW how \in {"ok", "unplaced"}, ParentStarts(w, how)
        PROVE  CapacityTypes'
    <2>1. left' \in LeftRecords
      BY <1>5, SpendTypes DEF ParentStarts, Charged
    <2>2. work' \in [Works -> WorkRecord]
      BY <1>5, BegunKeeps DEF ParentStarts
    <2> QED BY <1>5, <2>1, <2>2 DEF ParentStarts, CapacityTypes, LeftRecords
  <1>6. ASSUME NEW out \in {"interrupted", "aside", "finished"}, NEW c \in Causes,
               NEW open \in BOOLEAN, NEW turned \in BOOLEAN, WorkerStops(w, out, c, open, turned)
        PROVE  CapacityTypes'
    <2> DEFINE o == work[w].open /\ open
               f == resume[w].follow /\ ~turned /\ open
    <2>1. /\ work' = [work EXCEPT ![w] = [work[w] EXCEPT !.st = out, !.cause = c, !.open = o]]
          /\ resume' = [resume EXCEPT ![w] = [resume[w] EXCEPT !.follow = f]]
          /\ left' = [left EXCEPT !.stops = @ - 1] /\ left.stops > 0
          /\ o \in BOOLEAN /\ f \in BOOLEAN
      BY <1>0, <1>6 DEF WorkerStops, CapacityTypes
    <2> HIDE DEF o, f
    <2>2. /\ [work[w] EXCEPT !.st = out, !.cause = c, !.open = o] \in WorkRecord
          /\ [resume[w] EXCEPT !.follow = f] \in ResumeRecord
      BY <1>0, <2>1 DEF WorkRecord, ResumeRecord, Statuses
    <2>3. work' \in [Works -> WorkRecord] /\ resume' \in [Works -> ResumeRecord]
      BY <2>1, <2>2 DEF CapacityTypes
    <2>4. left' \in LeftRecords
      BY <2>1 DEF CapacityTypes, LeftRecords
    <2>5. tries' \in [Works -> Nat]
      BY <1>6 DEF WorkerStops, CapacityTypes
    <2> QED BY <1>6, <2>3, <2>4, <2>5 DEF WorkerStops, CapacityTypes, LeftRecords
  <1> QED BY <1>1, <1>2, <1>3, <1>4, <1>5, <1>6 DEF WorkSteps

LEMMA AdoptionTypes ==
    ASSUME CapacityTypes, NEW S \in SUBSET left.scope, RetryAdoption(S)
    PROVE  CapacityTypes'
  <1>1. work' \in [Works -> WorkRecord]
    <2>1. ASSUME NEW r \in WorkRecord
          PROVE  [r EXCEPT !.st = "interrupted", !.n = 1, !.need = TRUE, !.space = TRUE] \in WorkRecord
      BY DEF WorkRecord, Statuses
    <2>2. \A w \in Works : work[w] \in WorkRecord
      BY DEF CapacityTypes
    <2> DEFINE new(r) == [r EXCEPT !.st = "interrupted", !.n = 1, !.need = TRUE, !.space = TRUE]
    <2>3. \A r \in WorkRecord : new(r) \in WorkRecord
      BY <2>1
    <2>4. work' = [w \in Works |-> IF w \in S THEN new(work[w]) ELSE work[w]]
      BY Zenon DEF RetryAdoption
    <2> HIDE DEF new
    <2> QED BY <2>2, <2>3, <2>4
  <1>2. cap' \in CapRecord
    <2>1. cap' = [cap EXCEPT !.adopt = FALSE]
      BY Zenon DEF RetryAdoption
    <2> QED BY <2>1 DEF CapacityTypes, CapRecord
  <1>3. UNCHANGED <<resume, wakes, audit, parent, run, tick, jobs, tries, left>>
    BY Zenon DEF RetryAdoption
  <1> QED BY <1>1, <1>2, <1>3 DEF CapacityTypes

-----------------------------------------------------------------------------
(* The specification *)

LEMMA PassCounts ==
    ASSUME CapacityInv, PassSteps
    PROVE  TriesInv'
  <1>0. left.scope \subseteq Works /\ tick.one \in Works \cup {"-"}
    BY DEF CapacityInv, CapacityTypes, TickRecord
  <1>1. CASE UNCHANGED counted
    BY <1>1, SameCounts DEF CapacityInv
  <1>2. ASSUME NEW w \in left.scope, ResumeWorker(w)
        PROVE  TriesInv'
    BY <1>0, <1>2, ResumeCounts
  <1>3. ASSUME NEW how \in {"ok", "refused", "unplaced"}, tick.one # "-", StartResumed(how)
        PROVE  TriesInv'
    <2>1. CASE Startable(tick.one)
      BY <1>0, <1>3, <2>1, StartCounts DEF StartResumed, Startable
    <2>2. CASE ~Startable(tick.one)
      BY <1>1, <1>3, <2>2 DEF StartResumed, StartOutcomes, Begun, counted
    <2> QED BY <2>1, <2>2
  <1>4. ASSUME NEW w \in left.scope, NEW how \in {"ok", "refused", "unplaced", "unadmitted"},
               AutoAdmit(w, how)
        PROVE  TriesInv'
    <2>1. w \in Works /\ UNCHANGED <<resume, tries>>
      BY <1>0, <1>4 DEF AutoAdmit
    <2>2. CASE UNCHANGED work
      BY <1>1, <2>1, <2>2 DEF counted
    <2>3. CASE work[w].st = "none" /\ work' = [work EXCEPT ![w].st = "admitted"]
      <3>1. /\ work'[w].st = "admitted" /\ work'[w].cause = work[w].cause
            /\ work'[w].need = work[w].need
            /\ \A v \in Works \ {w} : work'[v] = work[v]
        BY <2>1, <2>3 DEF CapacityInv, CapacityTypes, WorkRecord
      <3>2. TriesOK(w)
        BY <2>1 DEF CapacityInv, TriesInv
      <3>3. TriesOK(w)'
        BY <2>1, <2>3, <3>1, <3>2 DEF TriesOK, Changed, Fingerprint
      <3> QED BY <2>1, <3>1, <3>3, OneWork
    <2>4. CASE (work[w].st = "none" \/ Startable(w)) /\ work' = Begun(w, how)
      <3>1. ~work[w].need
        BY <2>1, <2>4 DEF Startable, CapacityInv, TriesInv, TriesOK
      <3> QED BY <2>1, <2>4, <3>1, StartCounts
    <2>5. \/ UNCHANGED work
          \/ work[w].st = "none" /\ work' = [work EXCEPT ![w].st = "admitted"]
          \/ (work[w].st = "none" \/ Startable(w)) /\ work' = Begun(w, how)
      <3>1. work[w].st # "none" /\ how \in StartOutcomes(w) /\ ~Startable(w) => Begun(w, how) = work
        BY DEF StartOutcomes, Begun
      <3> QED BY <1>4, <3>1 DEF AutoAdmit
    <2> QED BY <2>2, <2>3, <2>4, <2>5
  <1>5. \/ UNCHANGED counted
        \/ \E w \in left.scope : ResumeWorker(w)
        \/ \E how \in {"ok", "refused", "unplaced"} : tick.one # "-" /\ StartResumed(how)
        \/ \E w \in left.scope, how \in {"ok", "refused", "unplaced", "unadmitted"} : AutoAdmit(w, how)
    <2>1. ASSUME \/ TickStart \/ RecordAdmission \/ Gate \/ \E due \in BOOLEAN : Inflight(due)
                 \/ \E late \in BOOLEAN : StartAudit(late)
                 \/ \E out \in AuditOutcomes, env \in BOOLEAN : AuditAnswer(out, env)
          PROVE  UNCHANGED counted
      BY <2>1, Zenon DEF TickStart, RecordAdmission, Gate, Inflight, StartAudit, AuditAnswer, counted
    <2>2. ASSUME \/ \E a, b \in BOOLEAN : Settle(a, b) \/ LastAuditWake(a, b)
                 \/ \E fresh \in BOOLEAN : Fill(fresh)
                 \/ \E out \in {"ok", "down"}, list \in SUBSET left.scope : HostAnswer(out, list)
                 \/ \E age \in 0..2, longIdle \in BOOLEAN : Judge(age, longIdle)
          PROVE  UNCHANGED counted
      BY <2>2, Zenon DEF Settle, LastAuditWake, Fill, HostAnswer, Judge, counted
    <2> QED BY <2>1, <2>2, Zenon DEF PassSteps
  <1> QED BY <1>1, <1>2, <1>3, <1>4, <1>5

LEMMA WorkCounts ==
    ASSUME CapacityInv, NEW w \in Works, WorkSteps(w)
    PROVE  TriesInv'
  <1>1. CASE ParentAdmits(w)
    <2>1. /\ work'[w].st = "admitted" /\ work'[w].cause = work[w].cause
          /\ work'[w].need = work[w].need /\ work[w].st = "none"
          /\ (\A v \in Works \ {w} : work'[v] = work[v]) /\ UNCHANGED <<resume, tries>>
      BY <1>1 DEF ParentAdmits, CapacityInv, CapacityTypes, WorkRecord
    <2>2. TriesOK(w)
      BY DEF CapacityInv, TriesInv
    <2>3. TriesOK(w)'
      BY <2>1, <2>2 DEF TriesOK, Changed, Fingerprint
    <2> QED BY <2>1, <2>3, OneWork
  <1>2. ASSUME NEW how \in {"ok", "unplaced"}, ParentStarts(w, how)
        PROVE  TriesInv'
    BY <1>2, StartCounts DEF ParentStarts, Startable
  <1> QED BY <1>1, <1>2, ReconcileCounts, FollowupCounts, BackoffCounts, StopCounts DEF WorkSteps

LEMMA CapacityInductive ==
    ASSUME CapacityInv, [CapacityNext]_capVars
    PROVE  CapacityInv'
  <1>0. left.scope \subseteq Works
    BY DEF CapacityInv, CapacityTypes
  <1>1. CASE PassSteps
    BY <1>1, PassTypes, PassCounts DEF CapacityInv
  <1>2. ASSUME NEW S \in SUBSET left.scope, RetryAdoption(S)
        PROVE  CapacityInv'
    BY <1>2, AdoptionTypes, AdoptionCounts DEF CapacityInv
  <1>3. ASSUME NEW w \in left.scope, WorkSteps(w)
        PROVE  CapacityInv'
    BY <1>0, <1>3, WorkTypes, WorkCounts DEF CapacityInv
  <1>4. CASE OtherSteps
    <2>1. UNCHANGED counted
      BY <1>4, Zenon DEF OtherSteps, Deliver, PersonSpeaks, ParentWaits, ParentAnswered, TimeSteps,
           ConditionAges, GateRests, TurnEnd, Complete, HoldExpires, ParentHolds, counted
    <2> QED BY <1>4, <2>1, OtherTypes, SameCounts DEF CapacityInv
  <1>5. CASE UNCHANGED capVars
    <2>1. CapacityTypes'
      BY <1>5 DEF CapacityInv, CapacityTypes, capVars
    <2> QED BY <1>5, <2>1, SameCounts DEF CapacityInv, capVars, counted
  <1> QED BY <1>1, <1>2, <1>3, <1>4, <1>5 DEF CapacityNext, WorkSteps, OtherSteps

LEMMA CapacityInitial == CapacityInit => CapacityInv
  <1> SUFFICES ASSUME CapacityInit
               PROVE  CapacityInv
    OBVIOUS
  <1>1. work \in [Works -> WorkRecord]
    <2>1. (CHOOSE c \in Causes : TRUE) \in Causes
      BY CapacityAssumption
    <2> DEFINE c == CHOOSE c \in Causes : TRUE
    <2>2. work = [w \in Works |-> [st |-> "none", n |-> 0, cause |-> c,
                                   need |-> FALSE, space |-> FALSE, open |-> FALSE]] /\ c \in Causes
      BY <2>1, Zenon DEF CapacityInit
    <2> HIDE DEF c
    <2> QED BY <2>2 DEF WorkRecord, Statuses
  <1>2. PICK b \in Budgets, adopt \in BOOLEAN :
           /\ adopt => b.events > 0
           /\ left = [b EXCEPT !.events = IF adopt THEN @ - 1 ELSE @]
           /\ cap = [host |-> "none", list |-> {}, since |-> FALSE, count |-> 0, woken |-> FALSE,
                     age |-> 0, holds |-> {}, human |-> {}, adopt |-> adopt]
    BY Zenon DEF CapacityInit
  <1>3. left \in LeftRecords
    <2>1. b \in LeftRecords
      BY CapacityAssumption DEF LeftRecords
    <2> QED BY <1>2, <2>1 DEF LeftRecords
  <1>4. cap \in CapRecord
    <2>1. 0 \in 0..2
      OBVIOUS
    <2> QED BY <1>2, <2>1 DEF CapRecord
  <1>5. /\ resume \in [Works -> ResumeRecord] /\ tick \in TickRecord /\ wakes = {} /\ run = "running"
        /\ audit \in AuditRecord /\ parent \in ParentRecord
        /\ jobs \in [Works -> Nat] /\ tries \in [Works -> Nat]
    BY NoPass DEF CapacityInit, AuditRecord, ParentRecord
  <1>6. CapacityTypes
    BY <1>1, <1>3, <1>4, <1>5 DEF CapacityTypes, LeftRecords
  <1>7. ASSUME NEW w \in Works
        PROVE  TriesOK(w)
    <2>1. resume[w] = NoResume /\ tries[w] = 0 /\ work[w].need = FALSE
      BY DEF CapacityInit
    <2> QED BY <2>1, CapacityAssumption DEF TriesOK, NoResume
  <1> QED BY <1>6, <1>7 DEF CapacityInv, TriesInv

\* A run's works and their backoff state stay as the capacity pass expects them,
\* and the resumptions of a work stay behind the failures that were counted.
THEOREM CapacityInvariant == CapacitySpec => []CapacityInv
  BY CapacityInitial, CapacityInductive, PTL DEF CapacitySpec

\* A worker that fails again and again for the same cause is resumed fewer than
\* SAME_FAILURE_LIMIT times before it is suspended, for any number of works,
\* causes and stops (resume_workers).
THEOREM UnchangedFailuresStop == CapacitySpec => []UnchangedFailureStops
  <1>1. CapacityInv => UnchangedFailureStops
    BY DEF CapacityInv, TriesInv, TriesOK, UnchangedFailureStops
  <1> QED BY <1>1, CapacityInvariant, PTL
=============================================================================
