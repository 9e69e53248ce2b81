----------------------------- MODULE SessionRouting -----------------------------
(***************************************************************************)
(* Which model answers a prompt.  A router session is pinned to one        *)
(* candidate, an agent's model, through a session in that agent's adapter  *)
(* process.  The first prompt is classified by a model before candidates    *)
(* are ranked for it.  A prompt may move the pin before it is sent (a       *)
(* human's switch, a skill, a usage cordon) and again after a failure.      *)
(* Adapters die and are restarted, accounts and models become unavailable  *)
(* and recover, and the human cancels, at any point in between.            *)
(*                                                                         *)
(* Capabilities, effort, session modes and what the user is told are left  *)
(* out.  The usage polls and the client's routing options may change        *)
(* between two rankings, so each takes any of Views and Options.  The       *)
(* faults of the environment are counted and bounded.                       *)
(***************************************************************************)
EXTENDS RouteStrategies, TLC

CONSTANTS
    Sessions,        \* router sessions
    Candidates,      \* agent and model pairs
    AgentOf,         \* the agent of a candidate, which has one process
    ModelOf,         \* its model: the same on several accounts
    Grade,           \* quality and cost of a candidate
    Pool,            \* routers.planner.planning_candidates
    SkillPool,       \* candidates of the skill route
    Evaluators,      \* preferred candidates of the pre-classifier, {} when off
    Profiles,        \* what a classification may say of a prompt
    Views,           \* what the usage polls may say of the candidates
    Options,         \* routing options a client may set
    Choices,         \* models a client may set before the first prompt
    Asks,            \* what each prompt in turn may ask for besides an answer
    Failures,        \* failure classes the providers report
    Hits,            \* bars that are laid from outside
    ReuseIds,        \* an adapter numbers its sessions anew after a restart
    Saves,           \* outcomes of the checkpoint after a switch
    MaxPrompts, MaxFaults, MaxAttempts, MaxEscalations,
    None

Agents == {AgentOf[c] : c \in Candidates}
Classes == {"limit", "spend", "outage", "adapter", "capacity", "overflow", "auth", "other"}
Bars == {"usage", "limit", "outage", "auth", "quarantine"}

\* The routing options of a session's client.
Option == [strategy : {"auto", "planner", "escalation", "pareto-code", "static"},
           phase : {"planning", "implementation"}, difficulty : {"none", "easy", "hard"},
           explicit : BOOLEAN, prefer : Candidates \cup {None}]

\* Views number the candidates as the configuration declares them (config_index).
ASSUME RoutingAssumption ==
    /\ IsFiniteSet(Candidates)
    /\ None \notin Candidates \cup Sessions
    /\ Candidates \cap {"parent", "skill", "phase"} = {}
    /\ Pool \subseteq Candidates
    /\ SkillPool \subseteq Candidates
    /\ Evaluators \subseteq Candidates
    /\ Profiles # {} /\ None \notin Profiles /\ Profiles \subseteq Profile
    /\ Views # {} /\ \A v \in Views, c \in Candidates : v[c] \in View
    /\ \A v \in Views, c, d \in Candidates : v[c].index = v[d].index => c = d
    /\ Options # {} /\ Options \subseteq Option
    /\ RouterTyped(Candidates) /\ Router.planning = Pool /\ Router.static \in Candidates
    /\ Choices \subseteq Candidates \cup {None}
    /\ Failures \subseteq Classes
    /\ Hits \subseteq Bars
    /\ ReuseIds \in BOOLEAN
    /\ Saves \subseteq BOOLEAN
    /\ MaxAttempts \in Nat \ {0}

VARIABLES
    barred,   \* why a candidate may not serve
    proc,     \* adapter processes: whether one runs, its last session id, and
              \* the last one before it was started
    route,    \* Shared::sid_map: <<agent, id, router session>>, None for an
              \* evaluator's session
    late,     \* timed-out session/new requests still to be answered
    ses,      \* RouterSession
    saved,    \* the session's configuration in the state store
    turn,     \* run_primary_turn in progress
    prompts, faults

vars == <<barred, proc, route, late, ses, saved, turn, prompts, faults>>

Request == [to : Candidates \cup {None}, user : BOOLEAN]
NoSwitch == [to |-> None, user |-> FALSE]

SessionRecord ==
    [cand : Candidates \cup {None},      \* pin.candidate
     sid : Nat,                          \* pin.downstream_sid
     told : BOOLEAN,                     \* that session holds the conversation
     profile : Profiles \cup {None},     \* preclass_profile
     picked : BOOLEAN,                   \* pin_user_pick
     override : Candidates \cup {None},  \* candidate_override
     byUser : BOOLEAN,                   \* ... whose source is UserPick
     switch : Request,                   \* pending_switch
     recover : Candidates \cup {None},   \* usage_recovery_target
     context : BOOLEAN,                  \* pending_context
     history : BOOLEAN,                  \* pending_history
     elevated : BOOLEAN,                 \* elevation
     skill : BOOLEAN,                    \* elevation_skill
     coordinator : BOOLEAN,
     cancelled : BOOLEAN,
     prior : BOOLEAN,                    \* an agent_response is logged
     partial : {"none", "tool", "text"}, \* turn_side_effect, turn_saw_output
     esc : Candidates \cup {None},       \* escalation_requested
     escalations : Nat]

\* SessionConfig
SavedRecord ==
    [cand : Candidates \cup {None}, user : BOOLEAN, profile : Profiles \cup {None},
     coordinator : BOOLEAN, elevated : BOOLEAN, skill : BOOLEAN, escalations : Nat]

Phases == {"new", "closed", "idle", "classify", "evaluate", "dispatch", "begin", "plan",
           "walk", "pinned", "switch", "summary", "open", "send", "running", "settle",
           "background", "wait"}

TurnRecord ==
    [at : Phases,
     ask : UNION {Asks[n] : n \in 1..MaxPrompts} \cup {None},
     tried : SUBSET Candidates,          \* evaluators that were asked
     judge : Candidates \cup {None},     \* the one that is asked, and its session
     jsid : Nat,
     goal : {"first", "recover", "failover", "retry"}, \* which pin_session call
     chain : Seq(Candidates),            \* ranked candidates not yet tried
     named : Candidates \cup {None},     \* the human's pick when it was ranked
     sw : Request,                       \* the switch being made
     why : {"pending", "escalation", "repair"},
     out : Classes \cup {"ok"},          \* how the last attempt ended
     refused : BOOLEAN,                  \* ... by the router's own check
     failed : Candidates \cup {None},
     attempt : Nat,
     continuing : BOOLEAN,
     recovered : BOOLEAN,                \* pick_recovered
     repaired : BOOLEAN,                 \* repaired_once
     seen : SUBSET Candidates,           \* seen_available
     fresh : BOOLEAN,                    \* this turn opened the pin
     asked : Candidates \cup {None}]     \* a human's switch in this prompt

TypeOK ==
    /\ barred \in [Candidates -> SUBSET Bars]
    /\ proc \in [Agents -> [up : BOOLEAN, last : Nat, base : Nat]]
    /\ route \subseteq Agents \X Nat \X (Sessions \cup {None})
    /\ late \subseteq Agents \X (Sessions \cup {None})
    /\ ses \in [Sessions -> SessionRecord]
    /\ saved \in [Sessions -> SavedRecord]
    /\ turn \in [Sessions -> TurnRecord]
    /\ prompts \in 0..MaxPrompts
    /\ faults \in 0..MaxFaults

Unpinned ==
    [cand |-> None, sid |-> 0, told |-> FALSE, profile |-> None, picked |-> FALSE, override |-> None, byUser |-> FALSE,
     switch |-> NoSwitch, recover |-> None, context |-> FALSE, history |-> FALSE,
     elevated |-> FALSE, skill |-> FALSE, coordinator |-> FALSE, cancelled |-> FALSE, prior |-> FALSE,
     partial |-> "none", esc |-> None, escalations |-> 0]

NoTurn ==
    [at |-> "idle", ask |-> None, tried |-> {}, judge |-> None, jsid |-> 0,
     goal |-> "first", chain |-> <<>>, named |-> None, sw |-> NoSwitch,
     why |-> "pending", out |-> "ok", refused |-> FALSE, failed |-> None, attempt |-> 0,
     continuing |-> FALSE, recovered |-> FALSE, repaired |-> FALSE, seen |-> {}, fresh |-> FALSE, asked |-> None]

\* capture: the switch that waits, else the pin, else the override; a human's
\* choice if either of the last two is one.
Captured(rec) ==
    [cand |-> IF rec.switch # NoSwitch THEN rec.switch.to
              ELSE IF rec.cand # None THEN rec.cand ELSE rec.override,
     user |-> IF rec.switch # NoSwitch THEN rec.switch.user ELSE rec.picked \/ rec.byUser,
     profile |-> rec.profile, coordinator |-> rec.coordinator, elevated |-> rec.elevated,
     skill |-> rec.skill, escalations |-> rec.escalations]

Init ==
    /\ barred = [c \in Candidates |-> {}]
    /\ proc = [a \in Agents |-> [up |-> TRUE, last |-> 0, base |-> 0]]
    /\ route = {}
    /\ late = {}
    /\ ses = [s \in Sessions |-> Unpinned]
    /\ saved = [s \in Sessions |-> Captured(Unpinned)]
    /\ turn = [s \in Sessions |-> [NoTurn EXCEPT !.at = "new"]]
    /\ prompts = 0
    /\ faults = 0

------------------------------------------------------------------------------
\* What may serve.  P is the state of the processes.

Up(P, c) == P[AgentOf[c]].up
\* eligible_views_core for a candidate nobody named.
Eligible(P, c) == Up(P, c) /\ barred[c] = {}
\* candidate_view_serving: a model outage does not stop what already serves.
Serving(P, c) == Up(P, c) /\ barred[c] \subseteq {"outage"}
\* candidate_view_revivable: a dead process is restarted on demand.
Revivable(c) == barred[c] \subseteq {"quarantine"}

\* candidate_unavailable_reason, as the class its text is read as.
Unavailable(c, midTurn) ==
    \/ barred[c] \cap {"usage", "limit", "auth", "quarantine"} # {}
    \/ ~midTurn /\ "outage" \in barred[c]
    \/ ~Up(proc, c)
RefusalClass(c) == IF barred[c] \cap {"usage", "limit"} # {} THEN "limit" ELSE "outage"

PinKey(s) == <<AgentOf[ses[s].cand], ses[s].sid>>
Pinned(s) == ses[s].cand # None
\* route_for: some session has a route under the pin's key.
Routed(s) == \E o \in Sessions : <<PinKey(s)[1], PinKey(s)[2], o>> \in route

\* coordinator_blocks
Blocked(s, c) == ses[s].coordinator /\ c \notin Pool

\* human_pick
HumanPick(s, c) ==
    IF ses[s].override # None THEN ses[s].override = c /\ ses[s].byUser
                              ELSE ses[s].picked

\* plan_route: the override that survives exclusion, a usage cordon and the
\* coordinator's pool.
LiveOverride(s, excluded) ==
    LET o == ses[s].override IN
    IF /\ o # None
       /\ o \notin excluded
       /\ "usage" \notin barred[o]
       /\ ~Blocked(s, o) \/ ses[s].byUser
    THEN o ELSE None

\* Mutant: a coordinator's failover widens to every candidate.
RoutePoolWide(P, s, excluded) == {c \in Candidates \ excluded : Eligible(P, c)}

RoutePool(P, s, excluded) ==
    {c \in Candidates \ excluded :
        /\ Eligible(P, c)
        /\ ~Blocked(s, c) \/ (ses[s].byUser /\ c = LiveOverride(s, excluded))}

\* A coordinator plans, whatever phase its client chose.
Role(opt) == [opt EXCEPT !.phase = "planning", !.explicit = FALSE]

\* An automatic override keeps to its model within its provider, where it may
\* move to another account.
Target(v, S, o) ==
    LET same == {c \in S : GroupOf[c] = GroupOf[o] /\ ModelOf[c] = ModelOf[o]}
    IN IF o \in S \/ same = {} THEN o ELSE Head(ByIndex(v, same))

\* The ranking of a pool by the session's strategy, and by an override, which is
\* an exact request.
Ranked(S, v, opt, profile, coordinator) ==
    LET pool == Prioritized(v, S, None)
        role == IF coordinator THEN Role(opt) ELSE opt
    IN Preferring(Rank(Capped(v, pool), pool, role, profile), opt.prefer)

Exact(S, v, opt, o, user) ==
    LET pool == Prioritized(v, S, IF user THEN o ELSE None)
    IN Preferring(Static(v, pool, IF user THEN o ELSE Target(v, pool, o)), opt.prefer)

\* What a ranking may come to.  It depends on nothing that changes.
Rankings ==
    {[pool |-> S, profile |-> p, coordinator |-> k, chain |-> Ranked(S, v, opt, p, k)] :
        S \in SUBSET Candidates, p \in Profiles, k \in BOOLEAN, v \in Views, opt \in Options}
Exacts ==
    {[pool |-> S, pick |-> o, user |-> u, chain |-> Exact(S, v, opt, o, u)] :
        S \in SUBSET Candidates, o \in Candidates, u \in BOOLEAN, v \in Views, opt \in Options}

\* plan_route: the rankings it may come to, <<>> for an error.
Chains(P, s, excluded) ==
    LET o == LiveOverride(s, excluded)
        user == ses[s].byUser
        open == {c \in RoutePool(P, s, excluded) :
                    o # None /\ ~user /\ GroupOf[c] = GroupOf[o] => ModelOf[c] = ModelOf[o]}
        profiles == IF ses[s].profile = None THEN Profiles ELSE {ses[s].profile}
        exact(r) == r.pool = open /\ r.pick = o /\ r.user = user
        ranked(r) == r.pool = open /\ r.profile \in profiles /\ r.coordinator = ses[s].coordinator
    IN IF o # None THEN {r.chain : r \in {x \in Exacts : exact(x)}}
       ELSE {r.chain : r \in {x \in Rankings : ranked(x)}}

------------------------------------------------------------------------------
\* Effects on the shared state.

\* apply_failure: who is barred when c fails with a class.
AfterFailure(c, class) ==
    [x \in Candidates |-> barred[x] \cup
        CASE class = "limit" /\ AgentOf[x] = AgentOf[c] -> {"limit"}
          [] class = "outage" /\ ModelOf[x] = ModelOf[c] -> {"outage"}
          [] class \in {"spend", "capacity"} /\ x = c -> {"usage"}
          [] OTHER -> {}]

SignedOut(a) == [x \in Candidates |-> barred[x] \cup IF AgentOf[x] = a THEN {"auth"} ELSE {}]

\* Mutant: the routes of a dead process survive it.
RoutesKept(R, a) == R

\* mark_target_dead drops every route of the process.
RoutesWithout(R, a) == {r \in R : r[1] # a}

\* start_downstream and its probe: a new process knows no session.
Started(P, A) ==
    [a \in Agents |-> IF a \in A
        THEN LET n == IF ReuseIds THEN 0 ELSE P[a].last
             IN [up |-> TRUE, last |-> n, base |-> n]
        ELSE P[a]]

\* revive_dead_targets: every dead process is tried, or none comes up.
Revivals == {proc, Started(proc, {a \in Agents : ~proc[a].up})}

\* ensure_target_ready before a session is opened on c: a dead process is
\* started, which may fail.
Readied(c, ok) == IF Up(proc, c) \/ ~ok THEN proc ELSE Started(proc, {AgentOf[c]})

Fault == faults < MaxFaults /\ faults' = faults + 1
NoFault == UNCHANGED faults
Unless(bad) == IF bad THEN Fault ELSE NoFault

\* checkpoint, with what the step has made of the session.
Saved(s) == saved' = [saved EXCEPT ![s] = Captured(ses'[s])]
Unsaved == UNCHANGED saved

Go(s, t) == turn' = [turn EXCEPT ![s] = t]
Put(s, rec) == ses' = [ses EXCEPT ![s] = rec]
At(s, phase) == turn[s].at = phase
Busy(s) == turn[s].at \notin {"new", "closed", "idle"}

\* close_downstream_session and cleanup_failed_session: whoever's route it is.
Closed(R, key) == {r \in R : <<r[1], r[2]>> # key}

\* open_downstream_session, successful: a new id, routed to s.
NewId(P, c) == P[AgentOf[c]].last + 1
Opened(P, c) == [P EXCEPT ![AgentOf[c]].last = NewId(P, c)]
NewKey(P, c) == <<AgentOf[c], NewId(P, c)>>
Registered(R, P, c, s) == R \cup {<<AgentOf[c], NewId(P, c), s>>}

------------------------------------------------------------------------------
\* A session's life: session/new, its options, session/close and session/load.

Create(s) ==
    /\ At(s, "new")
    /\ Put(s, Unpinned)
    /\ Saved(s)
    /\ Go(s, NoTurn)
    /\ UNCHANGED <<barred, proc, route, late, prompts, faults>>

\* on_set_config_option: until the session is being pinned its client may
\* choose the model, even while a prompt is classified.
Choose(s, c) ==
    /\ turn[s].at \in {"idle", "classify", "evaluate", "dispatch"}
    /\ ~Pinned(s)
    /\ c # ses[s].override
    /\ Fault
    /\ Put(s, [ses[s] EXCEPT !.override = c, !.byUser = (c # None)])
    /\ Saved(s)
    /\ UNCHANGED <<barred, proc, route, late, turn, prompts>>

Gone(s) == [Unpinned EXCEPT !.prior = ses[s].prior]

\* close, between prompts: the conversation and the checkpoint survive.
Close(s) ==
    /\ At(s, "idle") /\ prompts > 0
    /\ Fault
    /\ saved' = [saved EXCEPT ![s] = Captured(ses[s])]
    /\ Put(s, Gone(s))
    /\ route' = IF Pinned(s) THEN Closed(route, PinKey(s)) ELSE route
    /\ Go(s, [NoTurn EXCEPT !.at = "closed"])
    /\ UNCHANGED <<barred, proc, late, prompts>>

\* rehydrated, apply: what was saved, with the logged conversation for the next
\* prompt.  The pin is made anew, from the candidate that was saved.
Restored(rec, s) ==
    [rec EXCEPT !.override = saved[s].cand, !.byUser = saved[s].user, !.picked = saved[s].user,
                !.profile = saved[s].profile, !.coordinator = saved[s].coordinator,
                !.elevated = saved[s].elevated, !.skill = saved[s].skill,
                !.escalations = saved[s].escalations, !.history = TRUE]

\* restore
Load(s) ==
    /\ At(s, "closed")
    /\ Put(s, Restored(ses[s], s))
    /\ Saved(s)
    /\ Go(s, NoTurn)
    /\ UNCHANGED <<barred, proc, route, late, prompts, faults>>

------------------------------------------------------------------------------
\* A prompt arrives: prepare_parent_prompt, dispatch_prompt.

\* queue_coordinator_return, before the prompt's own directives.
Returned(s, rec, t) ==
    IF /\ rec.coordinator
       /\ rec.cand # None
       /\ ~rec.picked
       /\ rec.cand \notin Pool
       /\ t # None
    THEN [rec EXCEPT !.switch = [to |-> t, user |-> FALSE]] ELSE rec

\* A `switch=` directive or a model named at the start of the prompt.
PickBy(rec, c) ==
    IF rec.cand # None
    THEN [rec EXCEPT !.recover = None, !.switch = [to |-> c, user |-> TRUE]]
    ELSE [rec EXCEPT !.override = c, !.byUser = TRUE]

\* apply_skill_route with the target it selects.
SkillBy(P, rec, t) ==
    IF rec.cand \in SkillPool /\ Eligible(P, rec.cand)
    THEN [rec EXCEPT !.elevated = TRUE, !.skill = TRUE, !.switch = NoSwitch]
    ELSE IF t = None THEN rec
    ELSE IF rec.cand # None
    THEN [rec EXCEPT !.switch = [to |-> t, user |-> FALSE], !.elevated = TRUE, !.skill = TRUE]
    ELSE IF rec.override # None /\ rec.byUser THEN rec
    ELSE [rec EXCEPT !.override = t, !.byUser = FALSE, !.elevated = TRUE, !.skill = TRUE]

\* queue_planner_phase_switch: a human's pick stays.
PhaseBy(rec, t) ==
    IF rec.cand # None /\ ~rec.picked /\ t # None /\ rec.switch = NoSwitch
    THEN [rec EXCEPT !.switch = [to |-> t, user |-> FALSE]] ELSE rec

OrNone(S) == IF S = {} THEN {None} ELSE S

\* parse_one_prompt_directive: the model a prompt names.  What cannot be parsed
\* is answered with an error before anything else happens.
Named(ask) == IF ask \in Candidates THEN ask ELSE None

\* should_run: once per session, for a prompt that names no model.
ShouldRun(s, ask) == Evaluators # {} /\ Named(ask) = None /\ ses[s].profile = None

\* What a prompt says of itself: an implementation command or the accepted plan
\* makes its session a planner parent, a directive names a model.
Parented(rec, ask) == [rec EXCEPT !.coordinator = @ \/ ask = "parent"]
Directed(rec, ask) == IF Named(ask) # None THEN PickBy(rec, ask) ELSE rec

\* prepare_parent_prompt and what dispatch_prompt does before it classifies.
Prompt(s, ask) ==
    /\ At(s, "idle")
    /\ prompts < MaxPrompts
    /\ prompts' = prompts + 1
    /\ \E P \in Revivals :
        /\ proc' = P
        /\ \E home \in OrNone({c \in Pool : Eligible(P, c)}) :
            Put(s, Directed(Returned(s, Parented(ses[s], ask), home), ask))
    /\ Saved(s)
    /\ Go(s, [NoTurn EXCEPT !.at = IF ShouldRun(s, ask) THEN "classify" ELSE "dispatch",
                            !.ask = ask,
                            !.asked = IF Pinned(s) THEN Named(ask) ELSE None])
    /\ UNCHANGED <<barred, route, late, faults>>

\* select_planner_target: the planner's first choice for the implementation
\* phase, for a task of middling complexity.
Built(S, v, p) ==
    LET pool == Prioritized(v, S, None)
        opt == [phase |-> "implementation", difficulty |-> "none", explicit |-> FALSE]
    IN Planner(Capped(v, pool), pool, opt, [p EXCEPT !.complexity = 50])

Builds == {[pool |-> S, chain |-> Built(S, v, p)] :
              S \in SUBSET Candidates, v \in Views, p \in Profiles}
Builders(S) == {Head(r.chain) : r \in {x \in Builds : x.pool = S /\ x.chain # <<>>}}

\* The implementation phase begins, by a directive, a command or a skill; a
\* planner parent keeps its models.
PhaseBegins(s) == turn[s].ask = "phase" /\ ~ses[s].coordinator

\* The rest of dispatch_prompt: the planner's phase and a skill may queue a
\* switch, and a cancel that came before is forgotten.
Dispatch(s) ==
    /\ At(s, "dispatch")
    /\ LET able == {c \in Candidates : Eligible(proc, c)}
           rec == [ses[s] EXCEPT !.cancelled = FALSE]
       IN \E skill \in OrNone(able \cap SkillPool), builder \in OrNone(Builders(able)) :
            Put(s, CASE turn[s].ask = "skill" -> SkillBy(proc, rec, skill)
                     [] PhaseBegins(s) -> PhaseBy(rec, builder)
                     [] OTHER -> rec)
    /\ Saved(s)
    /\ Go(s, [turn[s] EXCEPT !.at = "begin", !.ask = None, !.tried = {}])
    /\ UNCHANGED <<barred, proc, route, late, prompts, faults>>

\* on_cancel: the flag; the adapter is told and answers in its own time.
Cancel(s) ==
    /\ Busy(s) /\ ~ses[s].cancelled
    /\ Fault
    /\ Put(s, [ses[s] EXCEPT !.cancelled = TRUE])
    /\ UNCHANGED <<barred, proc, route, late, turn, saved, prompts>>

------------------------------------------------------------------------------
\* The pre-classifier: evaluate and evaluate_on_candidate.

\* first_eligible_candidate: the best of the preferred evaluators that were not
\* tried, or of all candidates when none of them is left.  One whose credential
\* was repaired is asked again.
Judges(s) ==
    LET able == {c \in Candidates \ turn[s].tried : Eligible(proc, c)}
        pool == IF able \cap Evaluators # {} THEN able \cap Evaluators ELSE able
        worth(v, c) == 10 * v[c].quality + v[c].preference
    IN IF turn[s].judge # None THEN {turn[s].judge}
       ELSE {c \in pool : \E v \in Views : \A d \in pool : worth(v, c) >= worth(v, d)}

\* dispatch_prompt keeps the profile for the session's rankings.
Classified(s, p) ==
    /\ Put(s, [ses[s] EXCEPT !.profile = p])
    /\ Go(s, [turn[s] EXCEPT !.at = "dispatch", !.tried = {}, !.judge = None, !.jsid = 0,
                             !.repaired = FALSE])

Tried(s, c) ==
    [turn[s] EXCEPT !.at = "classify", !.tried = @ \cup {c}, !.judge = None, !.jsid = 0,
                    !.repaired = FALSE]
JudgeKey(s) == <<AgentOf[turn[s].judge], turn[s].jsid>>

\* An evaluator fails.  A rejected credential may be repaired, once; any other
\* failure counts as one of a prompt does, and the next evaluator is asked.
JudgeFailed(s, c, class) ==
    \/ /\ class = "auth" /\ ~turn[s].repaired
       /\ proc' = Started(proc, {AgentOf[c]})
       /\ route' = RoutesWithout(route, AgentOf[c])
       /\ late' = {r \in late : r[1] # AgentOf[c]}
       /\ Go(s, [turn[s] EXCEPT !.at = "classify", !.judge = c, !.jsid = 0, !.repaired = TRUE])
       /\ UNCHANGED barred
    \/ /\ barred' = IF class = "auth" THEN SignedOut(AgentOf[c]) ELSE AfterFailure(c, class)
       /\ route' = IF At(s, "evaluate") THEN Closed(route, JudgeKey(s)) ELSE route
       /\ late' = IF class = "timeout" THEN late \cup {<<AgentOf[c], None>>} ELSE late
       /\ Go(s, Tried(s, c))
       /\ UNCHANGED proc

\* open_evaluator_session.  A refusal, or a mode that is not safe, leaves
\* nothing open.  The evaluation gives up a slow one without a trace, so that
\* a late answer registers its session all the same.
Judge(s, c, how) ==
    /\ At(s, "classify")
    /\ c \in Judges(s)
    /\ Unless(how # "opened")
    /\ IF how = "opened"
       THEN LET P == Readied(c, TRUE) IN
            /\ proc' = Opened(P, c)
            /\ route' = Registered(route, P, c, None)
            /\ Go(s, [turn[s] EXCEPT !.at = "evaluate", !.judge = c, !.jsid = NewId(P, c)])
            /\ UNCHANGED <<barred, late>>
       ELSE JudgeFailed(s, c, how)
    /\ UNCHANGED <<ses, saved, prompts>>

\* The route of an evaluator denies every callback and counts a tool call as a
\* violation, which is a failure of no particular class.
Violations == {"other"}
\* guard_turn: what may come instead of a reply.  Silence past the stall
\* timeout and a dead peer are told from a violation by their text alone.
Misses == Failures \cup Violations

\* evaluate_on_candidate after the opening: the reply, or its failure, and the session's
\* end.  A reply without a routing decision, a tool call and a silent
\* evaluator bar nobody.
Verdict(s, out) ==
    /\ At(s, "evaluate")
    /\ Unless(out # "ok")
    /\ IF out = "ok"
       THEN /\ \E p \in Profiles : Classified(s, p)
            /\ route' = Closed(route, JudgeKey(s))
            /\ UNCHANGED <<barred, proc, late>>
       ELSE JudgeFailed(s, turn[s].judge, out) /\ UNCHANGED ses
    /\ UNCHANGED <<saved, prompts>>

\* static_fallback: nobody is left to ask.
Fallback(s) ==
    /\ At(s, "classify") /\ Judges(s) = {}
    /\ \E p \in Profiles : Classified(s, p)
    /\ UNCHANGED <<barred, proc, route, late, saved, prompts, faults>>

\* The client withdraws its request: a prompt without a class is refused.
Withdraw(s) ==
    /\ At(s, "classify") \/ At(s, "evaluate")
    /\ Fault
    /\ route' = IF At(s, "evaluate") THEN Closed(route, JudgeKey(s)) ELSE route
    /\ Go(s, NoTurn)
    /\ UNCHANGED <<barred, proc, late, ses, saved, prompts>>

------------------------------------------------------------------------------
\* queue_usage_cordon_escape: off a usage-cordoned pin, to what the skill or
\* the session's own routing ranks.
EscapeTargets(s) ==
    LET cur == ses[s].cand IN
    IF ses[s].switch # NoSwitch \/ ses[s].esc # None \/ "usage" \notin barred[cur] THEN {}
    ELSE IF ses[s].skill THEN {c \in SkillPool \ {cur} : Eligible(proc, c)}
    ELSE {IF chain = <<>> THEN None ELSE Head(chain) : chain \in Chains(proc, s, {cur})}

\* queue_usage_cordon_recovery, and its target once it has one.
Recovering(s) ==
    /\ ses[s].recover # None
    /\ ses[s].switch = NoSwitch /\ ses[s].esc = None
    /\ ses[s].recover # ses[s].cand /\ ~ses[s].picked

\* queue_usage_cordon_escape, else the recovery, else the switch that waits,
\* and the model to return to.
Moves(s, t) ==
    LET rec == ses[s]
        waits == rec.switch # NoSwitch \/ rec.esc # None \/ Recovering(s)
    IN IF t # None THEN [sw |-> [to |-> t, user |-> FALSE], recover |-> rec.cand]
       ELSE [sw |-> IF Recovering(s) /\ Revivable(rec.recover)
                    THEN [to |-> rec.recover, user |-> FALSE] ELSE rec.switch,
             recover |-> IF waits THEN rec.recover ELSE None]

\* The start of run_primary_turn_inner: proactive moves, then the one switch
\* there may be, which a coordinator refuses unless a human asked for it.
Begin(s) ==
    /\ At(s, "begin")
    /\ IF ~Pinned(s)
       THEN /\ Go(s, [turn[s] EXCEPT !.at = "plan", !.goal = "first"])
            /\ UNCHANGED ses
       ELSE \E t \in OrNone(EscapeTargets(s)) :
            LET sw == Moves(s, t).sw
                go == sw.to # None /\ (sw.user \/ ~Blocked(s, sw.to))
            IN /\ Put(s, [ses[s] EXCEPT !.switch = NoSwitch, !.recover = Moves(s, t).recover])
               /\ Go(s, [turn[s] EXCEPT !.at = IF go THEN "switch" ELSE "send",
                                        !.sw = IF go THEN sw ELSE NoSwitch,
                                        !.why = "pending"])
    /\ UNCHANGED <<barred, proc, route, late, saved, prompts, faults>>

------------------------------------------------------------------------------
\* switch_pin

\* What follows a switch: the prompt is sent, or, after a failed one, the turn
\* of a human's pick ends and a repaired credential's failover goes on.
Switched(s) == [turn[s] EXCEPT !.at = "send", !.sw = NoSwitch]
\* Mutant: a failed pick runs on the model the human left.
StaysPut(s) == [turn[s] EXCEPT !.at = "send", !.sw = NoSwitch]

NotSwitched(s) ==
    CASE turn[s].why = "repair" -> [turn[s] EXCEPT !.at = "settle", !.sw = NoSwitch]
      [] turn[s].why = "pending" /\ turn[s].sw.user -> NoTurn
      [] OTHER -> [turn[s] EXCEPT !.at = "send", !.sw = NoSwitch]

\* The target is started and checked before the old model is asked anything.
Switch(s) ==
    /\ At(s, "switch")
    /\ LET to == turn[s].sw.to
           old == ses[s].cand
       IN IF to = old /\ Routed(s)
          THEN /\ Go(s, Switched(s))
               /\ Put(s, [ses[s] EXCEPT !.recover = IF @ = to THEN None ELSE @])
               /\ UNCHANGED <<proc, faults>>
          ELSE \E ok \in BOOLEAN :
               /\ Unless(~ok)
               /\ proc' = Readied(to, ok)
               /\ Go(s, IF ok /\ Serving(proc', to)
                        THEN [turn[s] EXCEPT !.at = IF Serving(proc', old) /\ Routed(s)
                                                    THEN "summary" ELSE "open"]
                        ELSE NotSwitched(s))
               /\ UNCHANGED ses
    /\ UNCHANGED <<barred, route, late, saved, prompts>>

\* The outgoing model summarizes; its failure counts against it, and the
\* handoff becomes a reference to the saved history.
Summary(s, out) ==
    /\ At(s, "summary")
    /\ Unless(out # "ok")
    /\ barred' = AfterFailure(ses[s].cand, out)
    /\ Go(s, [turn[s] EXCEPT !.at = "open"])
    /\ UNCHANGED <<proc, route, late, ses, saved, prompts>>

\* Mutant: the old session is left open.
OldLeft(R, s, P, c) == R

\* A restarted adapter may give the old id again: then there is nothing to close.
OldClosed(R, s, P, c) == IF PinKey(s) = NewKey(P, c) THEN R ELSE Closed(R, PinKey(s))

\* The new session, the handoff for it, and the old session's end.  A timeout
\* leaves a request that is answered late.  When the state cannot be saved the
\* pin has moved all the same, and the old session stays.
SwitchOpen(s, how) ==
    /\ At(s, "open")
    /\ Unless(how # "opened")
    /\ LET to == turn[s].sw.to
           user == turn[s].sw.user
           P == Readied(to, how = "opened")
       IN IF how = "opened"
          THEN \E stored \in Saves :
               /\ proc' = Opened(P, to)
               /\ route' = IF stored THEN OldClosed(Registered(route, P, to, s), s, P, to)
                           ELSE Registered(route, P, to, s)
               /\ Put(s, [ses[s] EXCEPT !.cand = to, !.sid = NewId(P, to), !.told = FALSE,
                            !.picked = user, !.switch = NoSwitch, !.context = TRUE,
                            !.override = IF user THEN to ELSE @,
                            !.byUser = @ \/ user])
               /\ Go(s, [IF stored THEN Switched(s) ELSE NotSwitched(s) EXCEPT !.fresh = TRUE,
                            !.continuing = @ \/ (turn[s].why = "repair" /\ ses[s].partial # "none")])
               /\ IF stored THEN Saved(s) ELSE Unsaved
               /\ UNCHANGED late
          ELSE /\ late' = IF how = "timeout" THEN late \cup {<<AgentOf[to], s>>} ELSE late
               /\ Go(s, NotSwitched(s))
               /\ UNCHANGED <<proc, route, ses, saved>>
    /\ UNCHANGED <<barred, prompts>>

\* Mutant: a late answer registers its route as if someone waited for it.
LateRoute(a, s) == route \cup {<<a, proc[a].last + 1, s>>}

\* The answer to a timed-out session/new is closed at once, unless whoever
\* asked is gone.
LateRoutes(a, s) == IF s = None THEN route \cup {<<a, proc[a].last + 1, s>>} ELSE route

LateOpen(a, s) ==
    /\ <<a, s>> \in late
    /\ late' = late \ {<<a, s>>}
    /\ route' = LateRoutes(a, s)
    /\ proc' = [proc EXCEPT ![a].last = @ + 1]
    /\ UNCHANGED <<barred, ses, turn, saved, prompts, faults>>

------------------------------------------------------------------------------
\* One attempt: run_primary_turn_inner's loop, send_primary_prompt.

\* The prompt as it is put together: the handoff goes in front of it, once, and
\* what was restored until an attempt has succeeded.
Told(s) == ses[s].context \/ ses[s].history \/ ~(ses[s].prior \/ turn[s].continuing)

\* send_primary_prompt checks availability before anything leaves.
Refused(s) == Unavailable(ses[s].cand, FALSE) \/ ~Routed(s)

\* What waits for the prompt is taken before the check; the adapter holds the
\* conversation once it has been given it.
Send(s) ==
    /\ At(s, "send")
    /\ Put(s, [ses[s] EXCEPT !.context = FALSE, !.esc = None, !.partial = "none",
                             !.told = @ \/ (~Refused(s) /\ Told(s))])
    /\ Go(s, [turn[s] EXCEPT !.at = IF Refused(s) THEN "settle" ELSE "running",
                             !.attempt = @ + 1, !.refused = Refused(s), !.failed = None,
                             !.goal = "first", !.why = "pending",
                             !.out = IF Refused(s) THEN RefusalClass(ses[s].cand) ELSE "ok"])
    /\ UNCHANGED <<barred, proc, route, late, saved, prompts, faults>>

\* Output that reached the client has to be carried by a failover.
Shown(rec, kind) == [rec EXCEPT !.partial = kind]

\* handle_downstream_dispatch: output and tool calls of the turn.
Output(s, kind) ==
    /\ At(s, "running")
    /\ ses[s].partial = "none"
    /\ Put(s, Shown(ses[s], kind))
    /\ UNCHANGED <<barred, proc, route, late, turn, saved, prompts, faults>>

\* A request to the client: it writes a file or runs a command, which is partial
\* work before anything was shown.
Callback(s) ==
    /\ At(s, "running")
    /\ ses[s].partial = "none"
    /\ Put(s, [ses[s] EXCEPT !.partial = "tool"])
    /\ UNCHANGED <<barred, proc, route, late, turn, saved, prompts, faults>>

\* ranked_escalation_target: a stronger candidate.
Stronger(s) == {c \in Candidates : /\ Eligible(proc, c) /\ ~Blocked(s, c)
                                  /\ Grade[c] > Grade[ses[s].cand]}

\* note_investigation, note_tool_failure: a stronger model is asked for and the
\* running turn is told to stop.
Escalate(s, c) ==
    /\ At(s, "running")
    /\ ses[s].esc = None
    /\ ses[s].escalations < MaxEscalations
    /\ c \in Stronger(s)
    /\ Put(s, [ses[s] EXCEPT !.esc = c])
    /\ UNCHANGED <<barred, proc, route, late, turn, saved, prompts, faults>>

\* The adapter answers, or reports a failure.
Reply(s, out) ==
    /\ At(s, "running")
    /\ Unless(out # "ok")
    /\ Go(s, [turn[s] EXCEPT !.at = "settle", !.out = out])
    /\ UNCHANGED <<barred, proc, route, late, ses, saved, prompts>>

\* The watch on a running turn: the human cancelled, or the candidate may no
\* longer be used.
Watch(s) ==
    /\ At(s, "running")
    /\ ses[s].cancelled \/ Unavailable(ses[s].cand, TRUE)
    /\ Go(s, [turn[s] EXCEPT !.at = "settle", !.refused = ~ses[s].cancelled,
                !.out = IF ses[s].cancelled THEN "ok" ELSE RefusalClass(ses[s].cand)])
    /\ UNCHANGED <<barred, proc, route, late, ses, saved, prompts, faults>>

------------------------------------------------------------------------------
\* How an attempt ends.

\* A cancelled turn ends whatever the adapter said.
SettleCancelled(s) ==
    /\ At(s, "settle") /\ ses[s].cancelled
    /\ Go(s, NoTurn)
    /\ UNCHANGED <<barred, proc, route, late, ses, saved, prompts, faults>>

\* A requested escalation replays the prompt on the stronger model.
SettleEscalation(s) ==
    /\ At(s, "settle") /\ ~ses[s].cancelled /\ ses[s].esc # None
    /\ Put(s, [ses[s] EXCEPT !.esc = None, !.escalations = @ + 1,
                             !.history = @ /\ turn[s].out # "ok",
                             !.elevated = TRUE, !.skill = FALSE])
    /\ Go(s, [turn[s] EXCEPT !.at = "switch", !.why = "escalation",
                             !.sw = [to |-> ses[s].esc, user |-> FALSE]])
    /\ UNCHANGED <<barred, proc, route, late, saved, prompts, faults>>

Ended(s) == At(s, "settle") /\ ~ses[s].cancelled /\ ses[s].esc = None

\* update_confidence_and_maybe_upgrade: after a quiet turn an elevated pin may
\* be demoted, after a struggle a stronger model takes the next prompt.
Demoted(s) == {c \in Candidates : /\ ses[s].elevated /\ ses[s].switch = NoSwitch
                                  /\ Eligible(proc, c) /\ ~Blocked(s, c)
                                  /\ Grade[c] < Grade[ses[s].cand]
                                  /\ ses[s].skill => c \in SkillPool}
Upgraded(s) == IF ses[s].switch = NoSwitch THEN Stronger(s) ELSE {}

\* An answer.  The turn ends, or it waits for the terminals it left running.
SettleAnswer(s) ==
    /\ Ended(s) /\ turn[s].out = "ok"
    /\ \E c \in Demoted(s) \cup Upgraded(s) \cup {None} :
        Put(s, [ses[s] EXCEPT !.prior = TRUE, !.history = FALSE,
            !.switch = IF c = None THEN @ ELSE [to |-> c, user |-> FALSE],
            !.elevated = IF c \in Demoted(s) THEN FALSE ELSE @ \/ c # None,
            !.skill = @ /\ c = None])
    /\ Saved(s)
    /\ \/ Go(s, NoTurn) /\ NoFault
       \/ Go(s, [turn[s] EXCEPT !.at = "background"]) /\ Fault
    /\ UNCHANGED <<barred, proc, route, late, prompts>>

\* wait_for_managed_backgrounds: a cancel stops the terminals, their exit or a
\* steering message continues the turn with a new budget of attempts.
Background(s) ==
    /\ At(s, "background")
    /\ Go(s, IF ses[s].cancelled THEN NoTurn
             ELSE [turn[s] EXCEPT !.at = "send", !.attempt = 0, !.continuing = FALSE,
                                  !.asked = None])
    /\ UNCHANGED <<barred, proc, route, late, ses, saved, prompts, faults>>

\* A rejected credential is repaired once: the process restarts and the pin is
\* opened again in it.
SettleRepair(s) ==
    /\ Ended(s) /\ turn[s].out = "auth" /\ ~turn[s].repaired
    /\ LET agent == AgentOf[ses[s].cand] IN
       /\ proc' = Started(proc, {agent})
       /\ route' = RoutesWithout(route, agent)
       /\ late' = {r \in late : r[1] # agent}
       /\ Go(s, [turn[s] EXCEPT !.at = "switch", !.why = "repair", !.repaired = TRUE,
                                !.sw = [to |-> ses[s].cand, user |-> ses[s].picked]])
    /\ UNCHANGED <<barred, ses, saved, prompts, faults>>

\* Mutant: only partial work is carried to the replacement.
CarriesPartial(s, work) == work \/ turn[s].out = "overflow"

\* The replacement gets a reference to the saved conversation.
Carries(s, work) == work \/ turn[s].out = "overflow" \/ ses[s].prior

\* adopt_capacity_substitute: a full model moves a human's pick to its nearest.
Substitutes(s) ==
    LET c == ses[s].cand IN
    IF turn[s].out = "capacity" /\ ~turn[s].refused /\ HumanPick(s, c)
    THEN {x \in Candidates \ {c} : Eligible(proc, x) /\ ~Blocked(s, x) /\ barred'[x] = {}}
    ELSE {}

\* A failure: its consequences for others, then the failed session is closed
\* and another is looked for, unless the class or the budget forbids it.
SettleFailure(s) ==
    /\ Ended(s) /\ turn[s].out # "ok"
    /\ LET c == ses[s].cand
           out == turn[s].out
           work == turn[s].continuing \/ ses[s].partial # "none"
           retry == out # "other" /\ turn[s].attempt < MaxAttempts
           again == /\ out \in {"outage", "adapter"}
                    /\ turn[s].refused \/ out = "adapter"
                    /\ ~turn[s].recovered /\ HumanPick(s, c)
       IN /\ out = "auth" => turn[s].repaired \/ faults < MaxFaults
          /\ Unless(out = "auth" /\ ~turn[s].repaired)
          /\ barred' = IF turn[s].refused THEN barred
                       ELSE IF out = "auth" THEN SignedOut(AgentOf[c])
                       ELSE AfterFailure(c, out)
          /\ IF retry
             THEN \E pick \in OrNone(Substitutes(s)) :
                  /\ Put(s, [ses[s] EXCEPT !.context = @ \/ Carries(s, work),
                        !.history = @ /\ out # "overflow",
                        !.prior = @ \/ ses[s].partial = "text",
                        !.override = IF pick = None THEN @ ELSE pick,
                        !.byUser = @ \/ pick # None])
                  /\ route' = Closed(route, PinKey(s))
                  /\ Go(s, [turn[s] EXCEPT !.at = "plan", !.failed = c, !.continuing = work,
                        !.goal = IF again THEN "recover" ELSE "failover",
                        !.recovered = @ \/ again])
             ELSE /\ Go(s, NoTurn)
                  /\ UNCHANGED <<ses, route>>
    /\ UNCHANGED <<proc, late, saved, prompts>>

------------------------------------------------------------------------------
\* pin_session: plan_route, then pin_ranked walks the candidates.

Excluded(s) ==
    IF turn[s].goal = "failover" \/ (turn[s].goal = "retry" /\ Unavailable(turn[s].failed, FALSE))
    THEN {turn[s].failed} ELSE {}

\* retry_wait_until: only cordons that end keep the failed candidate out.
Awaited(s) == barred[turn[s].failed] \cap {"outage", "usage", "limit"} # {}

\* Mutant: routing is retried whether or not a cordon is about to end.
NoPinWaits(s) ==
    CASE turn[s].goal = "first" -> NoTurn
      [] turn[s].goal = "recover" -> [turn[s] EXCEPT !.at = "plan", !.goal = "failover"]
      [] OTHER -> [turn[s] EXCEPT !.at = "wait"]

\* No candidate, or none that opens.
NoPin(s) ==
    CASE turn[s].goal = "first" -> NoTurn
      [] turn[s].goal = "recover" -> [turn[s] EXCEPT !.at = "plan", !.goal = "failover"]
      [] OTHER -> IF Awaited(s) THEN [turn[s] EXCEPT !.at = "wait"] ELSE NoTurn

\* Dead processes get their chance, then the candidates are ranked.
Plan(s) ==
    /\ At(s, "plan")
    /\ \E P \in Revivals :
        LET chains == Chains(P, s, Excluded(s))
        IN /\ proc' = P
           /\ \E chain \in chains : Go(s,
                IF chain = <<>> THEN NoPin(s)
                ELSE [turn[s] EXCEPT !.at = "walk", !.chain = chain,
                        !.named = IF ses[s].byUser THEN LiveOverride(s, Excluded(s)) ELSE None])
    /\ UNCHANGED <<barred, route, late, ses, saved, prompts, faults>>

\* pin_ranked: the first candidate that opens becomes the pin, and only then.
Walk(s) ==
    /\ At(s, "walk") /\ ~ses[s].cancelled
    /\ LET c == Head(turn[s].chain)
           P == Readied(c, TRUE)
       IN /\ proc' = Opened(P, c)
          /\ route' = Registered(route, P, c, s)
          /\ Put(s, [ses[s] EXCEPT !.cand = c, !.sid = NewId(P, c), !.told = FALSE,
                                   !.picked = (c = turn[s].named)])
    /\ Go(s, [turn[s] EXCEPT !.at = "pinned", !.chain = <<>>, !.named = None, !.fresh = TRUE])
    /\ UNCHANGED <<barred, late, saved, prompts, faults>>

\* A cancel that came in the meantime ends the turn before the prompt is sent.
AfterPin(s, stored) ==
    CASE ses[s].cancelled -> NoTurn
      [] ~stored -> NoPin(s)
      [] turn[s].goal = "first" -> [turn[s] EXCEPT !.at = "begin"]
      [] OTHER -> [turn[s] EXCEPT !.at = "send"]

\* The new pin is given its mode, disclosed and saved.
PinDone(s) ==
    /\ At(s, "pinned")
    /\ UNCHANGED <<barred, proc, route, late, ses, prompts, faults>>
    /\ \E stored \in Saves :
        /\ IF stored /\ ~ses[s].cancelled THEN Saved(s) ELSE Unsaved
        /\ Go(s, AfterPin(s, stored))

\* What may go wrong besides a failure the provider reports: the session opens
\* and does not confirm its effort, or the answer does not come in time.
Balks == {"effort", "timeout"}

\* The candidate does not open: the failure counts and the next one is tried.
\* One that opened and refused the effort is closed and ends the walk.
WalkFailed(s, how) ==
    /\ At(s, "walk") /\ ~ses[s].cancelled
    /\ Fault
    /\ LET c == Head(turn[s].chain)
           rest == Tail(turn[s].chain)
       IN IF how = "effort"
          THEN /\ proc' = Opened(Readied(c, TRUE), c)
               /\ Go(s, NoPin(s))
               /\ UNCHANGED <<barred, late>>
          ELSE /\ barred' = CASE how = "timeout" -> AfterFailure(c, "outage")
                              [] how = "auth" -> SignedOut(AgentOf[c])
                              [] OTHER -> AfterFailure(c, how)
               /\ late' = IF how = "timeout" THEN late \cup {<<AgentOf[c], s>>} ELSE late
               /\ Go(s, IF rest = <<>> THEN NoPin(s) ELSE [turn[s] EXCEPT !.chain = rest])
               /\ UNCHANGED proc
    /\ UNCHANGED <<route, ses, saved, prompts>>

WalkCancelled(s) ==
    /\ At(s, "walk") /\ ses[s].cancelled
    /\ Go(s, NoTurn)
    /\ UNCHANGED <<barred, proc, route, late, ses, saved, prompts, faults>>

\* wait_for_retry: until the cordon ends, another candidate becomes available,
\* or the human gives up.
Wait(s) ==
    /\ At(s, "wait")
    /\ LET able == {c \in Candidates : Eligible(proc, c)} IN
       \/ /\ ses[s].cancelled
          /\ Go(s, NoTurn)
       \/ /\ ~ses[s].cancelled
          /\ ~Awaited(s) \/ able \ turn[s].seen # {}
          /\ Go(s, [turn[s] EXCEPT !.at = "plan", !.goal = "retry", !.seen = able])
    /\ UNCHANGED <<barred, proc, route, late, ses, saved, prompts, faults>>

------------------------------------------------------------------------------
\* The environment.

\* What a poll, another session's failure or an operator takes out of service:
\* an account's cordon or sign-in covers the agent, an outage the model.
Scope(c, why) ==
    {x \in Candidates : CASE why \in {"limit", "auth"} -> AgentOf[x] = AgentOf[c]
                          [] why = "outage" -> ModelOf[x] = ModelOf[c]
                          [] OTHER -> x = c}

Bar(c, why) ==
    /\ why \notin barred[c]
    /\ Fault
    /\ barred' = [x \in Candidates |-> barred[x] \cup IF x \in Scope(c, why) THEN {why} ELSE {}]
    /\ UNCHANGED <<proc, route, late, ses, turn, saved, prompts>>

\* A cordon reaches its reset, an account is signed in again.
Lift(c, why) ==
    /\ why \in barred[c]
    /\ barred' = [x \in Candidates |-> barred[x] \ IF x \in Scope(c, why) THEN {why} ELSE {}]
    /\ UNCHANGED <<proc, route, late, ses, turn, saved, prompts, faults>>

\* The adapter process ends.  Its answers fail, its sessions are gone.
Die(a) ==
    /\ proc[a].up
    /\ Fault
    /\ proc' = [proc EXCEPT ![a].up = FALSE]
    /\ route' = RoutesWithout(route, a)
    /\ late' = {r \in late : r[1] # a}
    /\ turn' = [s \in Sessions |->
        IF At(s, "running") /\ AgentOf[ses[s].cand] = a
        THEN [turn[s] EXCEPT !.at = "settle", !.out = "adapter"]
        ELSE IF At(s, "evaluate") /\ AgentOf[turn[s].judge] = a
        THEN Tried(s, turn[s].judge) ELSE turn[s]]
    /\ UNCHANGED <<barred, ses, saved, prompts>>

\* The router's process ends, and every adapter with it.  What was saved and
\* logged remains; cordons are remembered in memory only.
Crash ==
    /\ \E s \in Sessions : turn[s].at \notin {"new", "closed"} /\ prompts > 0
    /\ Fault
    /\ proc' = Started(proc, Agents)
    /\ route' = {} /\ late' = {}
    /\ barred' = [c \in Candidates |-> barred[c] \cap {"usage", "auth"}]
    /\ ses' = [s \in Sessions |-> Gone(s)]
    /\ turn' = [s \in Sessions |->
        IF At(s, "new") THEN turn[s] ELSE [NoTurn EXCEPT !.at = "closed"]]
    /\ UNCHANGED <<saved, prompts>>

------------------------------------------------------------------------------
Steps(s) ==
    \/ Begin(s) \/ Switch(s) \/ Send(s) \/ Watch(s)
    \/ Summary(s, "ok") \/ SwitchOpen(s, "opened")
    \/ SettleCancelled(s) \/ SettleEscalation(s) \/ SettleAnswer(s)
    \/ SettleRepair(s) \/ SettleFailure(s) \/ Background(s)
    \/ Plan(s) \/ Walk(s) \/ PinDone(s) \/ WalkCancelled(s) \/ Wait(s)
    \/ (\E c \in Candidates : Judge(s, c, "opened")) \/ Verdict(s, "ok") \/ Fallback(s)
    \/ Dispatch(s)

Next ==
    \/ \E s \in Sessions :
        \/ \E ask \in Asks[Low(prompts + 1, MaxPrompts)] : Prompt(s, ask)
        \/ Create(s) \/ Close(s) \/ Load(s)
        \/ \E c \in Choices : Choose(s, c)
        \/ Cancel(s)
        \/ Steps(s)
        \/ \E out \in Failures : Summary(s, out)
        \/ \E how \in {"refused", "timeout"} : SwitchOpen(s, how)
        \/ \E c \in Candidates, how \in {"refused", "timeout", "auth"} : Judge(s, c, how)
        \/ \E out \in Misses : Verdict(s, out)
        \/ Withdraw(s)
        \/ \E kind \in {"tool", "text"} : Output(s, kind)
        \/ Callback(s)
        \/ \E c \in Candidates : Escalate(s, c)
        \/ \E out \in Failures \cup {"ok"} : Reply(s, out)
        \/ \E how \in Failures \cup Balks : WalkFailed(s, how)
    \/ \E a \in Agents, s \in Sessions \cup {None} : LateOpen(a, s)
    \/ \E c \in Candidates, why \in Hits : Bar(c, why)
    \/ \E c \in Candidates, why \in Bars : Lift(c, why)
    \/ \E a \in Agents : Die(a)
    \/ Crash

\* The router's own steps are tasks that run to their end; an adapter answers or
\* dies, and so does a terminal left running; every cordon has a reset time.
Fairness ==
    /\ \A s \in Sessions : WF_vars(Steps(s) \/ Reply(s, "ok"))
    /\ WF_vars(\E c \in Candidates, why \in Bars : Lift(c, why))

Spec == Init /\ [][Next]_vars /\ Fairness

------------------------------------------------------------------------------
\* Properties.

\* Between prompts a session holds no adapter session but its pin: what a
\* switch left, what a failover abandoned and what opened too late is closed.
NoLeak ==
    \A s \in Sessions : ~Busy(s) =>
        \A r \in route : r[3] = s => Pinned(s) /\ <<r[1], r[2]>> = PinKey(s)

\* A model that takes over a conversation, by a switch, an escalation or a
\* failover, is given it with the first prompt it runs.
Informed ==
    \A s \in Sessions :
        At(s, "running") /\ turn[s].fresh /\ (ses[s].prior \/ turn[s].continuing)
            => ses[s].told

\* A prompt that names a model runs there first or does not run at all.
PickHonoured ==
    \A s \in Sessions :
        At(s, "running") /\ turn[s].attempt = 1 /\ turn[s].asked # None
            => ses[s].cand = turn[s].asked

\* The adapter session that runs a prompt was opened by the process that runs
\* now and is routed to the session whose prompt it is, and to no other.
OwnSession ==
    \A s \in Sessions : At(s, "running") =>
        /\ ses[s].sid > proc[PinKey(s)[1]].base
        /\ {r \in route : <<r[1], r[2]>> = PinKey(s)} = {<<PinKey(s)[1], PinKey(s)[2], s>>}

\* A planner parent leaves the planning pool only for a human's pick.
CoordinatorStays ==
    [][\A s \in Sessions :
        ses[s].coordinator /\ ses'[s].cand # ses[s].cand /\ ses'[s].cand \in Candidates \ Pool
            => ses'[s].picked]_vars

\* The comment on maybe_demote: a human's pick is never demoted.
PickNotDemoted ==
    [][\A s \in Sessions :
        /\ At(s, "settle") /\ ses[s].picked
        /\ ses[s].switch = NoSwitch /\ ses'[s].switch # NoSwitch
        => Grade[ses'[s].switch.to] >= Grade[ses[s].cand]]_vars

\* Every prompt ends.
TurnEnds == \A s \in Sessions : Busy(s) ~> ~Busy(s)
==============================================================================
