-------------------------- MODULE PlannerCapacity --------------------------
(***************************************************************************)
(* The planner's capacity pass (src/planner_capacity.rs) and the run        *)
(* auditor and turn-end gate it drives (src/planner_guard.rs).              *)
(*                                                                         *)
(* Once a second the router starts a pass over a run, unless one is still   *)
(* going.  A pass resumes workers that stopped early, audits the run, fills  *)
(* free worker slots (first by waking the parent, then by admitting the     *)
(* host's candidates itself), and re-prompts a parent whose turn ended while *)
(* work remains.  It waits for host processes and for workers to start, and *)
(* meanwhile the parent, its workers and the person go on changing the run: *)
(* what a pass decided is then applied to a run it has not seen.            *)
(*                                                                         *)
(* Every saved change is a `mutate` of the run's row (the compare-and-swap  *)
(* of PlannerWorkflow), so each is one atomic step that rereads what its    *)
(* closure rereads; everything else a step uses is what the pass remembers  *)
(* in `tick`.  Times are not numbers: a delay is a flag that a step of time *)
(* raises, an interval that only paces work is a free choice.  A candidate's *)
(* plan is its own work.  A wake is its kind, and the set holds the kinds   *)
(* with an unacknowledged wake.                                             *)
(***************************************************************************)
EXTENDS Integers, FiniteSets

CONSTANTS
    Works,          \* the work ids a capacity host may list
    MaxLive,        \* delegate_limit(): worker slots
    AfterWakes,     \* auto_admit_after_wakes
    FailureLimit,   \* SAME_FAILURE_LIMIT
    Causes,         \* what a worker's stop is told apart by (failure_fingerprint)
    Budgets         \* bounds, of which a behaviour gets one: worker stops, answers of a
                    \* host that differ from its last one, and other events; with the
                    \* hosts that are configured, and the works there are

ASSUME CapacityAssumption ==
    /\ IsFiniteSet(Works) /\ Works # {} /\ Causes # {}
    /\ MaxLive \in Nat \ {0} /\ AfterWakes \in Nat \ {0} /\ FailureLimit \in Nat \ {0}
    /\ Budgets \subseteq [stops : Nat, answers : Nat, events : Nat,
                           hosts : SUBSET {"capacity", "audit"}, scope : SUBSET Works]

VARIABLES
    work,       \* the works of the run
    resume,     \* capacity.resumes: the backoff state of workers being resumed
    cap,        \* the rest of CapacityState
    wakes,      \* kinds of unacknowledged wakes; a work stands for its recovery wake
    audit,      \* capacity.audit and observations of failed environments
    parent,     \* the coordinator's session
    run,        \* "running", or "complete"
    tick,       \* the pass in progress
    jobs,       \* follow-ups queued on their own tasks: the attempt each one names
    tries,      \* resumptions of a work since its failure last changed
    left        \* what remains of the bounds

capVars == <<work, resume, cap, wakes, audit, parent, run, tick, jobs, tries, left>>

----------------------------------------------------------------------------
(* State. *)

\* ROUTER_WAKE_PREFIXES: "news" is an auto-admit or an in-flight wake, "release" an
\* audit:release one.
RouterKinds == {"capacity", "news", "audit", "release", "gate"}

Statuses == {"none", "admitted", "running", "interrupted", "aside", "finished"}

\* A work: "aside" is paused, handed to the parent or with a final disposition.
\* `n` counts attempts (their identity), `open` says its sub-session is open.
WorkRecord == [st : Statuses, n : Nat, cause : Causes, need : BOOLEAN,
               space : BOOLEAN, open : BOOLEAN]

\* Resume: `due` is due_at ("no" for None, "later", "now"), `print` the recorded
\* fingerprint, `follow` that the last resumption followed up on the sub-session
\* that is open and it completed no turn since.
ResumeRecord == [known : BOOLEAN, due : {"no", "later", "now"}, print : Causes \X BOOLEAN,
                 same : Nat, suspended : BOOLEAN, follow : BOOLEAN]
NoResume == [known |-> FALSE, due |-> "no", print |-> <<CHOOSE c \in Causes : TRUE, FALSE>>,
             same |-> 0, suspended |-> FALSE, follow |-> FALSE]

\* `age` is the time since the unfilled condition or its last wake, whichever is
\* later: 1 is wake_after_secs, 2 is auto_admit_after_secs.
CapRecord == [host : {"none", "ok", "down"}, list : SUBSET Works, since : BOOLEAN,
              count : Nat, woken : BOOLEAN, age : 0..2, holds : SUBSET Works,
              human : SUBSET Works, adopt : BOOLEAN]

\* `stale` is at_ms < turn_ended_at.
AuditRecord == [at : {"none", "clean", "defects", "down"}, stale : BOOLEAN, env : BOOLEAN]

ParentRecord == [busy : BOOLEAN, carried : SUBSET RouterKinds, unjudged : BOOLEAN, rested : BOOLEAN, pinned : BOOLEAN, waits : BOOLEAN]

TickPhases == {"off", "resume", "start", "auditing", "settle", "fill", "asking",
               "judge", "admit", "idle", "gate", "last"}

\* What the pass remembers: the stopped works of its first load (`seen`), the live
\* count, whether the parent was idle, and the candidates it is admitting.
TickRecord == [at : TickPhases, todo : SUBSET Works, seen : [Works -> Nat \X (Causes \X BOOLEAN)],
               live : Nat, one : Works \cup {"-"}, idle : BOOLEAN, filled : BOOLEAN,
               late : BOOLEAN]

CapacityTypes ==
    /\ work \in [Works -> WorkRecord] /\ resume \in [Works -> ResumeRecord]
    /\ cap \in CapRecord /\ audit \in AuditRecord /\ parent \in ParentRecord
    /\ wakes \subseteq RouterKinds \cup Works
    /\ run \in {"running", "complete"} /\ tick \in TickRecord
    /\ jobs \in [Works -> Nat] /\ tries \in [Works -> Nat]
    /\ left \in [stops : Nat, answers : Nat, events : Nat,
                           hosts : SUBSET {"capacity", "audit"}, scope : SUBSET Works]

Fingerprint(w) == <<work[w].cause, work[w].need>>
NothingSeen == [w \in Works |-> <<0, NoResume.print>>]
NoTick == [at |-> "off", todo |-> {}, seen |-> NothingSeen, live |-> 0, one |-> "-",
           idle |-> FALSE, filled |-> FALSE, late |-> FALSE]

CapacityInit ==
    /\ work = [w \in Works |-> [st |-> "none", n |-> 0, cause |-> CHOOSE c \in Causes : TRUE,
                                need |-> FALSE, space |-> FALSE, open |-> FALSE]]
    /\ resume = [w \in Works |-> NoResume]
    /\ \E b \in Budgets, adopt \in BOOLEAN :
         /\ adopt => b.events > 0
         /\ left = [b EXCEPT !.events = IF adopt THEN @ - 1 ELSE @]
         /\ cap = [host |-> "none", list |-> {}, since |-> FALSE, count |-> 0, woken |-> FALSE,
                   age |-> 0, holds |-> {}, human |-> {}, adopt |-> adopt]
    /\ wakes = {} /\ run = "running" /\ tick = NoTick
    /\ audit = [at |-> "none", stale |-> FALSE, env |-> FALSE]
    /\ parent = [busy |-> TRUE, carried |-> {}, unjudged |-> FALSE, rested |-> FALSE,
                 pinned |-> TRUE, waits |-> FALSE]
    /\ jobs = [w \in Works |-> 0] /\ tries = [w \in Works |-> 0]

----------------------------------------------------------------------------
(* Slots, candidates and stopped workers. *)

Live == Cardinality({w \in Works : work[w].st = "running"})
Free == IF Live < MaxLive THEN MaxLive - Live ELSE 0

\* open: a candidate's work still needs a slot.
OpenWork(w) == \/ work[w].st \in {"none", "admitted"}
               \/ work[w].st = "interrupted" /\ ~work[w].space

\* hold_for and unheld_candidates, of the host's saved answer.
UnheldOf(list) == {w \in list : OpenWork(w) /\ w \notin cap.holds \cup cap.human}
Unheld == IF cap.host = "ok" THEN UnheldOf(cap.list) ELSE {}

\* human_hold and held_by_human.
HumanHold == cap.human # {}

StoppedEarly(w) == work[w].st = "interrupted" /\ work[w].space

AwaitingReconciliation == {w \in Works : work[w].need /\ work[w].st \in {"admitted", "interrupted"}}

\* Whether the host's answer, or works that wait for reconciliation, leave a slot unfilled.
Unfilled == cap.host # "ok" \/ Unheld # {} \/ AwaitingReconciliation # {}

Findings == audit.at \in {"defects", "down"}

Spend(e) == left.events >= e /\ left' = [left EXCEPT !.events = @ - e]
\* An answer like the last one is free.
Answers(same) == IF same THEN UNCHANGED left
                 ELSE left.answers > 0 /\ left' = [left EXCEPT !.answers = @ - 1]
Configured(host) == host \in left.hosts
At(p) == tick.at = p
Goto(p) == tick' = [tick EXCEPT !.at = p]

----------------------------------------------------------------------------
(* Starting workers. *)

\* begin_work: the claim of a new attempt, whose allocation may fail afterwards.
\* "refused" is every refusal before the claim.
Startable(w) == run = "running" /\ ~work[w].need /\ work[w].st \in {"admitted", "interrupted"}

Begun(w, how) ==
    CASE how = "ok"        -> [work EXCEPT ![w].st = "running", ![w].n = @ + 1,
                                           ![w].space = TRUE, ![w].open = TRUE]
      [] how = "unplaced"  -> [work EXCEPT ![w].st = "interrupted", ![w].n = @ + 1,
                                           ![w].open = FALSE]
      [] OTHER             -> work

StartOutcomes(w) == IF ~Startable(w) THEN {"refused"}
                    ELSE {"ok"} \cup IF left.events > 0 THEN {"refused", "unplaced"} ELSE {}

Charged(w, how) == IF how # "ok" /\ Startable(w) THEN Spend(1) ELSE UNCHANGED left

----------------------------------------------------------------------------
(* Resuming workers that stopped early. *)

\* retry_pending_at: a pass first retries an adoption that is pending.  The works it
\* brings were interrupted under their former owner and wait for reconciliation.
RetryAdoption(S) ==
    /\ At("off") /\ run = "running" /\ cap.adopt
    /\ S \subseteq {w \in Works : work[w].st = "none"}
    /\ work' = [w \in Works |-> IF w \in S
                  THEN [work[w] EXCEPT !.st = "interrupted", !.n = 1, !.need = TRUE, !.space = TRUE]
                  ELSE work[w]]
    /\ cap' = [cap EXCEPT !.adopt = FALSE]
    /\ UNCHANGED <<resume, wakes, audit, parent, run, tick, jobs, tries, left>>

\* spawn_tick and the head of tick: load the run and remember which works stopped.
TickStart ==
    /\ At("off") /\ run = "running"
    /\ tick' = [NoTick EXCEPT !.at = "resume", !.live = Live,
                 !.todo = {w \in Works : \/ StoppedEarly(w) /\ w \notin cap.human
                                         \/ work[w].st = "finished" /\ resume[w].known},
                 !.seen = [w \in Works |-> IF StoppedEarly(w) THEN <<work[w].n, Fingerprint(w)>>
                                           ELSE NothingSeen[w]]]
    /\ UNCHANGED <<work, resume, cap, wakes, audit, parent, run, jobs, tries, left>>

\* The closures' re-check: the work is still the stop that the pass observed.
SameStop(w) == StoppedEarly(w) /\ tick.seen[w] = <<work[w].n, Fingerprint(w)>>
Due(w) == resume[w].due = "now"
Changed(w) == ~resume[w].known \/ resume[w].print # Fingerprint(w)
\* Variant: every stop counts as a new failure.
Forgetful(w) == 1
SameCount(w) == IF Changed(w) THEN 1 ELSE resume[w].same + 1
Suspends(w) == work[w].need \/ SameCount(w) >= FailureLimit

\* A changed failure, or a worker seen stopped again: schedule it or suspend it.
Schedule(w) ==
    /\ Changed(w) \/ (resume[w].due = "no" /\ ~resume[w].suspended)
    /\ resume' = [resume EXCEPT ![w].known = TRUE, ![w].print = Fingerprint(w),
                    ![w].same = SameCount(w), ![w].suspended = Suspends(w),
                    ![w].due = IF Suspends(w) THEN "no" ELSE "later"]
    /\ wakes' = IF Suspends(w) THEN wakes \cup {w} ELSE wakes \ {w}
    /\ tick' = [tick EXCEPT !.todo = @ \ {w}]
    /\ UNCHANGED <<jobs, tries>>

ResumeClaimable(w) == /\ ~Changed(w) /\ ~resume[w].suspended /\ Due(w)
                /\ parent.pinned /\ tick.live < MaxLive

\* A due resumption is claimed: a follow-up on the open sub-session, unless the last
\* one completed no turn, else a new attempt, which the next step starts.
ClaimResume(w) ==
    LET followup == work[w].open /\ ~resume[w].follow IN
    /\ ResumeClaimable(w)
    /\ resume' = [resume EXCEPT ![w].due = "no", ![w].follow = followup]
    /\ tries' = [tries EXCEPT ![w] = @ + 1]
    /\ jobs' = IF followup THEN [jobs EXCEPT ![w] = work[w].n] ELSE jobs
    /\ tick' = [tick EXCEPT !.todo = @ \ {w}, !.live = @ + 1,
                  !.at = IF followup THEN "resume" ELSE "start",
                  !.one = IF followup THEN "-" ELSE w]
    /\ UNCHANGED wakes

\* The work is left for a later pass: it moved on, it waits for its build
\* (waiting_on_build, which needs an answering auditor), or it is not due.
Skip(w) ==
    /\ \/ ~SameStop(w)
       \/ ~work[w].need /\ audit.at \in {"clean", "defects"}
       \/ ~Changed(w) /\ ~(resume[w].due = "no" /\ ~resume[w].suspended) /\ ~ResumeClaimable(w)
    /\ tick' = [tick EXCEPT !.todo = @ \ {w}]
    /\ resume' = IF work[w].st = "finished" THEN [resume EXCEPT ![w] = NoResume] ELSE resume
    /\ UNCHANGED <<wakes, jobs, tries>>

ResumeWorker(w) ==
    /\ At("resume") /\ w \in tick.todo
    /\ Skip(w) \/ (SameStop(w) /\ (Schedule(w) \/ ClaimResume(w)))
    /\ UNCHANGED <<work, cap, audit, parent, run, left>>

\* start_planner_worker, awaited by the pass.
StartResumed(how) ==
    /\ At("start") /\ how \in StartOutcomes(tick.one)
    /\ work' = Begun(tick.one, how) /\ Charged(tick.one, how)
    /\ tick' = [tick EXCEPT !.at = "resume", !.one = "-"]
    /\ UNCHANGED <<resume, cap, wakes, audit, parent, run, jobs, tries>>

----------------------------------------------------------------------------
(* The audit of a pass. *)

\* audit_tick: due on its interval, and after every turn of the parent.
\* Variant: only the interval makes an audit due.
OnInterval(late) == audit.at = "none" \/ late
AuditDue(late) == audit.at = "none" \/ audit.stale \/ late
StartAudit(late) ==
    /\ At("resume") /\ tick.todo = {}
    /\ tick' = [NoTick EXCEPT !.late = tick.late,
                  !.at = IF Configured("audit") /\ AuditDue(late) THEN "auditing" ELSE "settle"]
    /\ UNCHANGED <<work, resume, cap, wakes, audit, parent, run, jobs, tries, left>>

\* audit: the run auditor answers with or without defects, or is unavailable.
AuditOutcomes == {"clean", "defects", "down"}

\* The auditor's answer is stamped with the pass's start; an unavailable one keeps the
\* observations of environments that were recorded before.
AuditAnswer(out, env) ==
    /\ At("auditing") /\ tick' = [NoTick EXCEPT !.at = "settle"]
    /\ out = "down" => env = audit.env
    /\ Answers(<<out, env>> = <<IF audit.at = "none" THEN "clean" ELSE audit.at, audit.env>>)
    /\ audit' = [at |-> out, stale |-> tick.late, env |-> env]
    /\ UNCHANGED <<work, resume, cap, wakes, parent, run, jobs, tries>>

\* audit_wake: the wakes afterwards.  `waited` is its repeat delay, `repeated` that a
\* wake with the same text was already delivered.
AuditWoken(waited, repeated) ==
    LET kept == IF audit.env THEN wakes ELSE wakes \ {"release"}
        pending == IF audit.env THEN "release" \in wakes
                   ELSE wakes \cap {"audit", "release", "gate"} # {}
    IN  IF ~Configured("audit") THEN wakes
        ELSE IF ~Findings THEN wakes \ {"audit", "release"}
        ELSE IF pending \/ ~waited \/ (audit.env /\ parent.busy /\ repeated) THEN kept
        ELSE kept \cup {IF audit.env THEN "release" ELSE "audit"}

\* After the audit: failed environments are woken for at once, adopted works get their
\* recovery wakes, and a run that waits for a person goes no further.
Settle(waited, repeated) ==
    /\ At("settle")
    /\ IF run # "running" THEN tick' = NoTick /\ UNCHANGED wakes
       ELSE /\ wakes' = (IF audit.env \/ "release" \in wakes THEN AuditWoken(waited, repeated)
                         ELSE wakes)
                        \cup {w \in Works : work[w].need}
            /\ tick' = IF parent.waits THEN NoTick
                       ELSE [tick EXCEPT !.live = Live, !.idle = ~parent.busy, !.filled = FALSE,
                               !.at = IF ~cap.adopt /\ ~HumanHold THEN "fill"
                                      ELSE IF parent.busy THEN "off" ELSE "idle"]
    /\ UNCHANGED <<work, resume, cap, audit, parent, run, jobs, tries, left>>

----------------------------------------------------------------------------
(* Filling slots. *)

Leave(filled) == tick' = IF tick.idle THEN [tick EXCEPT !.at = "idle", !.filled = filled] ELSE NoTick

\* reset_unfilled.
ResetUnfilled == /\ cap' = [cap EXCEPT !.since = FALSE, !.count = 0, !.age = 0]
                 /\ wakes' = wakes \ {"capacity"}

\* fill_slots up to its query of the host, which a fresh answer saves.
Fill(fresh) ==
    /\ At("fill")
    /\ IF ~Configured("capacity") THEN Leave(FALSE) /\ UNCHANGED <<cap, wakes>>
       ELSE IF tick.live >= MaxLive THEN ResetUnfilled /\ Leave(FALSE)
       ELSE Goto(IF fresh /\ cap.host # "none" THEN "judge" ELSE "asking") /\ UNCHANGED <<cap, wakes>>
    /\ UNCHANGED <<work, resume, audit, parent, run, jobs, tries, left>>

\* query_host: the answer is saved in the run.
HostAnswer(out, list) ==
    /\ At("asking") /\ Goto("judge")
    /\ out = "down" => list = {}
    /\ Answers(<<out, list>> = IF cap.host = "none" THEN <<"ok", left.scope>> ELSE <<cap.host, cap.list>>)
    /\ cap' = [cap EXCEPT !.host = out, !.list = list]
    /\ UNCHANGED <<work, resume, wakes, audit, parent, run, jobs, tries>>

\* Whether the router admits by itself: for an idle parent after enough wakes or a long
\* idle time, for a busy one once its wake went unanswered long enough.
WakePending == "capacity" \in wakes
\* Variant: only an idle parent's slots are filled.
AdmitsIdle(age, longIdle) == /\ cap.host = "ok" /\ parent.pinned /\ Unheld # {}
                             /\ tick.idle /\ ~WakePending /\ (cap.count >= AfterWakes \/ longIdle)
Admits(age, longIdle) ==
    /\ cap.host = "ok" /\ parent.pinned /\ Unheld # {}
    /\ IF tick.idle THEN ~WakePending /\ (cap.count >= AfterWakes \/ longIdle)
       ELSE cap.woken /\ IF WakePending THEN age = 2 ELSE cap.count >= AfterWakes

\* As many of the unheld candidates as the remembered live count leaves slots for.
Chosen(K) == /\ K \subseteq Unheld
             /\ \/ K = Unheld /\ Cardinality(K) <= MaxLive - tick.live
                \/ Cardinality(K) = MaxLive - tick.live

\* The rest of fill_slots: reset, admit, wake the parent, or wait.
Judge(age, longIdle) ==
    /\ At("judge")
    /\ IF cap.since THEN age = cap.age ELSE tick.idle \/ age = 0
    /\ \/ ~Unfilled /\ ResetUnfilled /\ Leave(FALSE)
       \/ /\ Unfilled /\ Admits(age, longIdle)
          /\ \E K \in SUBSET Works :
                Chosen(K) /\ tick' = [tick EXCEPT !.at = "admit", !.todo = K]
          /\ cap' = [cap EXCEPT !.since = TRUE, !.age = age] /\ UNCHANGED wakes
       \/ /\ Unfilled /\ ~Admits(age, longIdle) /\ age > 0 /\ ~WakePending
          /\ cap' = [cap EXCEPT !.since = TRUE, !.woken = TRUE, !.age = 0,
                       !.count = IF cap.host = "ok" /\ @ < AfterWakes THEN @ + 1 ELSE @]
          /\ wakes' = wakes \cup {"capacity"} /\ Leave(TRUE)
       \/ /\ Unfilled /\ ~Admits(age, longIdle) /\ (age = 0 \/ WakePending)
          /\ cap' = [cap EXCEPT !.since = TRUE, !.age = age]
          /\ UNCHANGED wakes /\ Leave(FALSE)
    /\ UNCHANGED <<work, resume, audit, parent, run, jobs, tries, left>>

\* One candidate of auto_admit: admitted unless the run has it, then started; a refused
\* start becomes a hold, a refused admission does not.
AutoAdmit(w, how) ==
    LET new == work[w].st = "none"
        refused == new /\ (run # "running" \/ cap.adopt \/ how = "unadmitted")
    IN
    /\ At("admit") /\ w \in tick.todo
    /\ tick' = [tick EXCEPT !.todo = @ \ {w}]
    /\ IF refused
       THEN /\ UNCHANGED <<work, cap>>
            /\ IF how = "unadmitted" THEN Spend(1) ELSE UNCHANGED left
       ELSE /\ how \in IF new THEN {"ok", "refused", "unplaced"} ELSE StartOutcomes(w)
            /\ IF new /\ how # "ok" THEN Spend(1) ELSE Charged(w, how)
            /\ work' = IF new /\ how = "refused" THEN [work EXCEPT ![w].st = "admitted"]
                       ELSE Begun(w, how)
            /\ cap' = IF how = "ok" THEN cap ELSE [cap EXCEPT !.holds = @ \cup {w}]
    /\ UNCHANGED <<resume, wakes, audit, parent, run, jobs, tries>>

\* The end of auto_admit: recorded, and reported in a wake of its own.
RecordAdmission ==
    /\ At("admit") /\ tick.todo = {}
    /\ cap' = [cap EXCEPT !.count = 0, !.woken = TRUE, !.age = 0]
    /\ wakes' = (wakes \ {"capacity"}) \cup {"news"}
    /\ Leave(TRUE)
    /\ UNCHANGED <<work, resume, audit, parent, run, jobs, tries, left>>

----------------------------------------------------------------------------
(* The wakes of an idle parent. *)

\* inflight_wake, unless this pass already filled slots.
Inflight(due) ==
    /\ At("idle") /\ Goto("gate")
    /\ wakes' = IF ~tick.filled /\ due /\ wakes = {} /\ Live > 0 THEN {"news"} ELSE wakes
    /\ UNCHANGED <<work, resume, cap, audit, parent, run, jobs, tries, left>>

\* gate_tick: a turn's end is judged once, on an audit of after it.
GateWaits == ~parent.unjudged \/ (Configured("audit") /\ (audit.at = "none" \/ audit.stale))
Owes == Findings \/ (Free > 0 /\ ~cap.adopt /\ ~HumanHold /\ Unheld # {})
Gate ==
    /\ At("gate") /\ Goto("last")
    /\ \/ (GateWaits \/ (Owes /\ (~parent.rested \/ "gate" \in wakes))) /\ UNCHANGED <<parent, wakes>>
       \/ ~GateWaits /\ ~Owes /\ parent' = [parent EXCEPT !.unjudged = FALSE, !.rested = FALSE] /\ UNCHANGED wakes
       \/ /\ ~GateWaits /\ Owes /\ parent.rested /\ "gate" \notin wakes
          /\ parent' = [parent EXCEPT !.unjudged = FALSE, !.rested = FALSE] /\ wakes' = wakes \cup {"gate"}
    /\ UNCHANGED <<work, resume, cap, audit, run, jobs, tries, left>>

LastAuditWake(waited, repeated) ==
    /\ At("last") /\ tick' = NoTick
    /\ wakes' = AuditWoken(waited, repeated)
    /\ UNCHANGED <<work, resume, cap, audit, parent, run, jobs, tries, left>>

----------------------------------------------------------------------------
(* The parent, the person, the workers and time. *)

\* An idle parent is prompted with its pending wakes (ParentTurns has the protocol).
Deliver ==
    /\ run = "running" /\ ~parent.busy /\ ~parent.waits /\ parent.pinned /\ wakes # {}
    /\ parent' = [parent EXCEPT !.busy = TRUE, !.carried = wakes \cap RouterKinds]
    /\ UNCHANGED <<work, resume, cap, wakes, audit, run, tick, jobs, tries, left>>

\* parent_turn_ended: one delivery answers a router wake, unless the turn was
\* preempted; the audit is behind the turn unless it ended in the audit's second.
TurnEnd(kept, second) ==
    /\ parent.busy
    /\ IF kept THEN parent.carried # {} /\ Spend(1) ELSE UNCHANGED left
    /\ wakes' = IF kept THEN wakes ELSE wakes \ parent.carried
    /\ parent' = [parent EXCEPT !.busy = FALSE, !.carried = {}, !.unjudged = TRUE, !.rested = FALSE]
    /\ audit' = [audit EXCEPT !.stale = audit.at # "none" /\ ~second]
    /\ tick' = [tick EXCEPT !.late = tick.at \in {"resume", "start", "auditing"} /\ ~second]
    /\ UNCHANGED <<work, resume, cap, run, jobs, tries>>

\* The parent's own operations: admit, delegate_task, hold, reconcile.
ParentAdmits(w) ==
    /\ parent.busy /\ run = "running" /\ ~cap.adopt /\ work[w].st = "none"
    /\ work' = [work EXCEPT ![w].st = "admitted"]
    /\ UNCHANGED <<resume, cap, wakes, audit, parent, run, tick, jobs, tries, left>>

ParentStarts(w, how) ==
    /\ parent.busy /\ Startable(w) /\ how \in {"ok", "unplaced"} \cap StartOutcomes(w)
    /\ work' = Begun(w, how) /\ Charged(w, how)
    /\ UNCHANGED <<resume, cap, wakes, audit, parent, run, tick, jobs, tries>>

\* record_hold: a timed hold, or the person's, which only the person lifts.
ParentHolds(w, human) ==
    /\ parent.busy /\ run = "running" /\ Spend(1)
    /\ cap' = IF human THEN [cap EXCEPT !.human = @ \cup {w}, !.holds = @ \ {w}]
              ELSE [cap EXCEPT !.holds = @ \cup {w}, !.human = @ \ {w}]
    /\ UNCHANGED <<work, resume, wakes, audit, parent, run, tick, jobs, tries>>

\* Reconcile: the prior attempt is fenced and the work starts afresh.
ParentReconciles(w) ==
    /\ parent.busy /\ run = "running" /\ work[w].need /\ work[w].st # "running"
    /\ work' = [work EXCEPT ![w].need = FALSE, ![w].st = "admitted", ![w].open = FALSE]
    /\ resume' = [resume EXCEPT ![w] = NoResume]
    /\ wakes' = wakes \ {w}
    /\ tries' = [tries EXCEPT ![w] = 0]
    /\ UNCHANGED <<cap, audit, parent, run, tick, jobs, left>>

\* The host, asked by the operation itself, answers and lists nothing unheld.
CompletionAllowed(list) == UnheldOf(list) = {}

\* complete: every work is done, every wake answered, and the completing audit clean.
Complete(list) ==
    /\ parent.busy /\ run = "running" /\ wakes = {}
    /\ \A w \in Works : work[w].st \in {"none", "finished"}
    /\ CompletionAllowed(list) /\ Spend(1)
    /\ run' = "complete"
    /\ UNCHANGED <<work, resume, cap, wakes, audit, parent, tick, jobs, tries>>

\* A person's message lifts their hold and continues a finished run, on the parent's own
\* turn or steered into the one it is in.
PersonSpeaks ==
    /\ Spend(1)
    /\ cap' = [cap EXCEPT !.human = {}] /\ run' = "running"
    /\ parent' = [parent EXCEPT !.busy = TRUE, !.waits = FALSE, !.pinned = TRUE]
    /\ UNCHANGED <<work, resume, wakes, audit, tick, jobs, tries>>

\* The parent waits for an approval or holds queued input; its session is unloaded.
ParentWaits == /\ ~parent.waits /\ Spend(1)
               /\ \/ parent' = [parent EXCEPT !.waits = TRUE]
                  \/ ~parent.busy /\ parent.pinned /\ parent' = [parent EXCEPT !.pinned = FALSE]
               /\ UNCHANGED <<work, resume, cap, wakes, audit, run, tick, jobs, tries>>
ParentAnswered == /\ parent.waits /\ parent' = [parent EXCEPT !.waits = FALSE]
                  /\ UNCHANGED <<work, resume, cap, wakes, audit, run, tick, jobs, tries, left>>

\* attempt_ended: a worker stops early for a cause, hands over to its parent, or is done.
\* `turned` is that its sub-session completed a turn since the last resumption.
WorkerStops(w, out, c, open, turned) ==
    /\ work[w].st = "running" /\ left.stops > 0
    /\ left' = [left EXCEPT !.stops = @ - 1]
    /\ out # "interrupted" => c = work[w].cause /\ ~open /\ turned
    /\ work' = [work EXCEPT ![w].st = out, ![w].cause = c, ![w].open = @ /\ open]
    /\ resume' = [resume EXCEPT ![w].follow = @ /\ ~turned /\ open]
    /\ tries' = [tries EXCEPT ![w] = IF out = "interrupted" /\ c = work[w].cause THEN @ ELSE 0]
    /\ UNCHANGED <<cap, wakes, audit, parent, run, tick, jobs>>

\* A queued follow-up gets its permit: begin_followup, refused when the attempt moved on.
RunFollowup(w) ==
    /\ jobs[w] # 0 /\ jobs' = [jobs EXCEPT ![w] = 0]
    /\ work' = IF /\ run = "running" /\ work[w].open /\ ~work[w].need
                  /\ work[w].n = jobs[w] /\ work[w].st = "interrupted"
               THEN [work EXCEPT ![w].st = "running"] ELSE work
    /\ UNCHANGED <<resume, cap, wakes, audit, parent, run, tick, tries, left>>

HoldExpires(w) ==
    /\ w \in cap.holds /\ cap' = [cap EXCEPT !.holds = @ \ {w}]
    /\ UNCHANGED <<work, resume, wakes, audit, parent, run, tick, jobs, tries, left>>

\* Time: a backoff comes due, the unfilled condition ages, the gate's backoff elapses.
BackoffElapses(w) ==
    /\ resume[w].due = "later" /\ resume' = [resume EXCEPT ![w].due = "now"]
    /\ UNCHANGED <<work, cap, wakes, audit, parent, run, tick, jobs, tries, left>>
ConditionAges ==
    /\ cap.since /\ cap.age < 2 /\ cap' = [cap EXCEPT !.age = @ + 1]
    /\ UNCHANGED <<work, resume, wakes, audit, parent, run, tick, jobs, tries, left>>
GateRests ==
    /\ parent.unjudged /\ ~parent.rested /\ parent' = [parent EXCEPT !.rested = TRUE]
    /\ UNCHANGED <<work, resume, cap, wakes, audit, run, tick, jobs, tries, left>>

----------------------------------------------------------------------------
PassSteps ==
    \/ TickStart
    \/ \E w \in left.scope : ResumeWorker(w)
    \/ \E how \in {"ok", "refused", "unplaced"} : tick.one # "-" /\ StartResumed(how)
    \/ \E late \in BOOLEAN : StartAudit(late)
    \/ \E out \in AuditOutcomes, env \in BOOLEAN : AuditAnswer(out, env)
    \/ \E a, b \in BOOLEAN : Settle(a, b) \/ LastAuditWake(a, b)
    \/ \E fresh \in BOOLEAN : Fill(fresh)
    \/ \E out \in {"ok", "down"}, list \in SUBSET left.scope : HostAnswer(out, list)
    \/ \E age \in 0..2, longIdle \in BOOLEAN : Judge(age, longIdle)
    \/ \E w \in left.scope, how \in {"ok", "refused", "unplaced", "unadmitted"} : AutoAdmit(w, how)
    \/ RecordAdmission
    \/ \E due \in BOOLEAN : Inflight(due)
    \/ Gate

TimeSteps == ConditionAges \/ GateRests

CapacityNext ==
    \/ PassSteps
    \/ \E S \in SUBSET left.scope : RetryAdoption(S)
    \/ Deliver
    \/ \E kept, second \in BOOLEAN : TurnEnd(kept, second)
    \/ \E w \in left.scope : \/ ParentAdmits(w)
                        \/ ParentReconciles(w)
                        \/ RunFollowup(w)
                        \/ HoldExpires(w)
                        \/ BackoffElapses(w)
                        \/ \E how \in {"ok", "unplaced"} : ParentStarts(w, how)
                        \/ \E human \in BOOLEAN : ParentHolds(w, human)
                        \/ \E out \in {"interrupted", "aside", "finished"}, c \in Causes,
                              open, turned \in BOOLEAN : WorkerStops(w, out, c, open, turned)
    \/ \E list \in SUBSET left.scope : Complete(list)
    \/ PersonSpeaks \/ ParentWaits \/ ParentAnswered
    \/ TimeSteps

\* The pass runs on its own task and is started every second; a delivery is retried
\* without end; time passes.  Nothing is assumed of the parent, its workers or a person.
CapacityFairness == WF_capVars(PassSteps) /\ WF_capVars(Deliver) /\ WF_capVars(ConditionAges) /\ WF_capVars(GateRests)

CapacitySpec == CapacityInit /\ [][CapacityNext]_capVars /\ CapacityFairness

----------------------------------------------------------------------------
(* Properties. *)

\* An unchanged failure is not given a worker again and again: between two changes of a
\* work's failure the router resumes it fewer than SAME_FAILURE_LIMIT times, whatever
\* the parent, its follow-ups and its reconciliations do in between (resume_workers).
UnchangedFailureStops == \A w \in Works : tries[w] < FailureLimit

\* A running, reachable run with a free slot and an unheld candidate.
Starved == /\ run = "running" /\ ~parent.waits /\ parent.pinned /\ ~cap.adopt /\ ~HumanHold
           /\ Free > 0 /\ Unheld # {}

\* Slots do not stay empty: a starved run gets the router's own admission, or the
\* condition ends, whether its parent is idle, busy for ever or deaf to its wakes
\* (fill_slots, auto_admit).
SlotsAreFilled == Starved ~> (~Starved \/ At("admit"))

\* No parent stops unnoticed: a turn's end is judged on an audit, unless the parent is
\* prompted again, waits for a person or is unloaded (gate_tick, audit_tick).
StopIsJudged ==
    parent.unjudged ~> (\/ ~parent.unjudged \/ parent.busy
                        \/ parent.waits \/ ~parent.pinned \/ run # "running")

=============================================================================
