----------------------------- MODULE PlannerAdopt -----------------------------
(***************************************************************************)
(* Which session coordinates a plan (planner_adopt.rs).  A run belongs to  *)
(* its parent session.  When the router that drove it is gone, /implement  *)
(* in another session adopts it: the adopter claims the old run, merges    *)
(* the claimed document into its own run and retires what it moved from    *)
(* the old one.  Each phase is one revision-checked save of one document;  *)
(* between them the adopter may die, and the old owner may return.         *)
(***************************************************************************)
EXTENDS Integers, FiniteSets

CONSTANTS
    Sessions,   \* parent sessions of one checkout
    Routers,    \* router processes
    Mortal,     \* the routers that may die
    Stalled,    \* the routers whose wake loop may stall past the lease
    Failing,    \* the processes whose saves may fail
    Commands,   \* `adopt-run` commands, processes without sessions
    Works,      \* work identities
    Inputs,     \* operator inputs that are queued for a parent
    NoOne,      \* no session, no router
    Drained,    \* the sessions that a client shuts down
    Hasty,      \* those whose close or lease may overtake their drain
    Returns,    \* the sessions that a person still uses once superseded
    MaxVersion  \* bound on the attempts of a work

ASSUME AdoptAssumption ==
    /\ NoOne \notin Sessions \cup Routers \cup Commands
    /\ Commands \cap Routers = {}
    /\ Mortal \subseteq Routers /\ Stalled \subseteq Routers
    /\ Failing \subseteq Routers \cup Commands
    /\ Drained \subseteq Sessions /\ Hasty \subseteq Sessions /\ Returns \subseteq Sessions
    /\ MaxVersion \in Nat \ {0}

VARIABLES
    runs,    \* the documents, one per session
    fresh,   \* the session's lease is young, or it logged activity of late
    loaded,  \* the router that has the session loaded
    drain,   \* the router that drains the session
    alive,   \* the routers that run
    calls,   \* the adoption a process is in
    latest   \* history: attempts ever begun for the work a session admitted

vars == <<runs, fresh, loaded, drain, alive, calls, latest>>

Processes == Routers \cup Commands
Session == Sessions \cup {NoOne}
Router == Routers \cup {NoOne}

\* `child` names the session that admitted the work (the child id is a hash of
\* both), `at` the router of an attempt that did not end, `version` the work's
\* progress.
NoWork == [child |-> NoOne, at |-> NoOne, version |-> 0]
Work == [child : Session, at : Router, version : 0 .. MaxVersion]

\* An input: queued and not yet delivered; queued and delivered in a turn that
\* has not ended well; delivered, and the queue entry gone; historical, to be
\* acknowledged only; acknowledged; or its queue entry moved to another run.
InputState == {"none", "queued", "turn", "received", "replayed", "resolved", "moved"}

Status == {"none", "running", "draining", "paused", "superseded"}

\* `claim` is the router whose turn has a wake of the run.
Run == [status : Status, by : Session, pending : Session, owner : Router,
        claim : Router, works : [Works -> Work], inputs : [Inputs -> InputState]]

NoRun == [status |-> "none", by |-> NoOne, pending |-> NoOne, owner |-> NoOne,
          claim |-> NoOne, works |-> [w \in Works |-> NoWork],
          inputs |-> [i \in Inputs |-> "none"]]

\* Where adopt_at is: about to load and check, about to save the claim, the
\* merge, the retirement, or the end of the pending handoff.
Call == [at : {"idle", "check", "claim", "merge", "retire", "clear"},
         from : Session, into : Session, read : Run,
         works : SUBSET Works, inputs : SUBSET Inputs]

Idle == [at |-> "idle", from |-> NoOne, into |-> NoOne, read |-> NoRun,
         works |-> {}, inputs |-> {}]

TypeOK ==
    /\ runs \in [Sessions -> Run]
    /\ fresh \in [Sessions -> BOOLEAN]
    /\ loaded \in [Sessions -> Router]
    /\ drain \in [Sessions -> Router]
    /\ alive \subseteq Routers
    /\ calls \in [Processes -> Call]
    /\ latest \in [Sessions -> [Works -> 0 .. MaxVersion]]

Init ==
    /\ runs = [s \in Sessions |-> NoRun]
    /\ fresh = [s \in Sessions |-> FALSE]
    /\ loaded = [s \in Sessions |-> NoOne]
    /\ drain = [s \in Sessions |-> NoOne]
    /\ alive = Routers
    /\ calls = [p \in Processes |-> Idle]
    /\ latest = [s \in Sessions |-> [w \in Works |-> 0]]

Has(r, w) == r.works[w].child # NoOne

------------------------------------------------------------------------------
(* Saves *)

\* Mutant: a save that does not look at the revision.
SavedOver(s) == calls

\* A save of s conflicts with the claim that was checked on the document
\* before it: that call loads and checks again.
Saved(s) ==
    [p \in Processes |->
        IF calls[p].at = "claim" /\ calls[p].from = s
        THEN [calls[p] EXCEPT !.at = "check", !.read = NoRun] ELSE calls[p]]

Save(s, r) ==
    /\ runs' = [runs EXCEPT ![s] = r]
    /\ calls' = Saved(s)

------------------------------------------------------------------------------
(* The parent session and its run *)

Loaded(s) == loaded[s] # NoOne
Usable(s) == runs[s].status = "superseded" => s \in Returns

Load(s, p) ==
    /\ ~Loaded(s)
    /\ p \in alive
    /\ loaded' = [loaded EXCEPT ![s] = p]
    /\ UNCHANGED <<runs, fresh, drain, alive, calls, latest>>

\* The wake loop renews the lease of every loaded run, unless it was adopted.
Heartbeat(s) ==
    /\ Loaded(s)
    /\ runs[s].status \notin {"none", "superseded"}
    /\ Save(s, [runs[s] EXCEPT !.owner = loaded[s]])
    /\ fresh' = [fresh EXCEPT ![s] = TRUE]
    /\ UNCHANGED <<loaded, drain, alive, latest>>

\* The drain, if any, may be overtaken.
Settled(s) == drain[s] = NoOne \/ s \in Hasty

\* Time passes without a heartbeat and without activity.
Lapse(s) ==
    /\ fresh[s]
    /\ Loaded(s) => loaded[s] \in Stalled
    /\ Settled(s)
    /\ fresh' = [fresh EXCEPT ![s] = FALSE]
    /\ UNCHANGED <<runs, loaded, drain, alive, calls, latest>>

\* session/close: the run is paused and this router's lease handed back.
Close(s) ==
    /\ Loaded(s)
    /\ Settled(s)
    /\ LET r == runs[s]
       IN  Save(s, [r EXCEPT !.status = IF @ = "running" THEN "paused" ELSE @,
                             !.owner = IF @ = loaded[s] THEN NoOne ELSE @])
    /\ loaded' = [loaded EXCEPT ![s] = NoOne]
    /\ UNCHANGED <<fresh, drain, alive, latest>>

\* The earlier run /implement finds: the latest one of the checkout.
Earlier(s) ==
    {a \in Sessions \ {s} : /\ runs[a].by = NoOne
                            /\ runs[a].status \in {"running", "draining", "paused"}}

\* /implement: the run of this session starts or resumes, and the handoff of
\* an earlier run is recorded.
Implement(s, a) ==
    /\ Loaded(s)
    /\ runs[s].status # "superseded"
    /\ ~(runs[s].status = "draining" /\ drain[s] = loaded[s])
    /\ a \in Earlier(s) \cup {NoOne}
    /\ Save(s, [runs[s] EXCEPT
                  !.status = "running",
                  !.owner = IF runs[s].status = "none" THEN loaded[s] ELSE @,
                  !.pending = IF a = NoOne THEN @ ELSE a])
    /\ fresh' = [fresh EXCEPT ![s] = TRUE]
    /\ UNCHANGED <<loaded, drain, alive, latest>>

\* A person's prompt resumes a paused run; one with a phase directive resumes
\* any run that is not being drained here.
Observe_input(s, directed) ==
    /\ Loaded(s)
    /\ Usable(s)
    /\ LET draining == runs[s].status = "draining" /\ drain[s] = loaded[s]
       IN  \/ runs[s].status = "paused"
           \/ runs[s].status = "draining" /\ ~draining
           \/ directed /\ runs[s].status # "none" /\ ~draining
    /\ Save(s, [runs[s] EXCEPT !.status = "running"])
    /\ fresh' = [fresh EXCEPT ![s] = TRUE]
    /\ UNCHANGED <<loaded, drain, alive, latest>>

\* _router/planner_shutdown: the run drains, whatever its status was.
Run_drain(s) ==
    /\ Loaded(s)
    /\ s \in Drained
    /\ drain[s] = NoOne
    /\ fresh[s] \/ s \in Hasty
    /\ runs[s].status # "none"
    /\ Usable(s)
    /\ Save(s, [runs[s] EXCEPT !.status = "draining"])
    /\ drain' = [drain EXCEPT ![s] = loaded[s]]
    /\ UNCHANGED <<fresh, loaded, alive, latest>>

\* Its end: the workers have stopped and the run is paused.
DrainEnds(s) ==
    /\ drain[s] # NoOne
    /\ \A w \in Works : runs[s].works[w].at # drain[s]
    /\ Save(s, [runs[s] EXCEPT !.status = "paused"])
    /\ drain' = [drain EXCEPT ![s] = NoOne]
    /\ UNCHANGED <<fresh, loaded, alive, latest>>

------------------------------------------------------------------------------
(* Works *)

\* No new work while a handoff is pending.
Admit(s, w) ==
    /\ Loaded(s)
    /\ runs[s].status = "running"
    /\ runs[s].pending = NoOne
    /\ ~Has(runs[s], w)
    /\ latest[s][w] = 0
    /\ Save(s, [runs[s] EXCEPT !.works[w] = [NoWork EXCEPT !.child = s, !.version = 1]])
    /\ latest' = [latest EXCEPT ![s][w] = 1]
    /\ UNCHANGED <<fresh, loaded, drain, alive>>

\* An attempt begins: the work makes progress.
Begin_work(s, w) ==
    /\ Loaded(s)
    /\ runs[s].status = "running"
    /\ Has(runs[s], w)
    /\ runs[s].works[w].at \notin alive
    /\ runs[s].works[w].version < MaxVersion
    /\ Save(s, [runs[s] EXCEPT !.works[w].at = loaded[s], !.works[w].version = @ + 1])
    /\ latest' = [latest EXCEPT ![runs[s].works[w].child][w] = runs[s].works[w].version + 1]
    /\ UNCHANGED <<fresh, loaded, drain, alive>>

\* Its router ends it, or the wake loop ends the attempt of a dead router.
Attempt_ended(s, w) ==
    /\ runs[s].works[w].at # NoOne
    /\ \/ runs[s].works[w].at \in alive
       \/ Loaded(s) /\ runs[s].status # "superseded"
    /\ Save(s, [runs[s] EXCEPT !.works[w].at = NoOne])
    /\ UNCHANGED <<fresh, loaded, drain, alive, latest>>

------------------------------------------------------------------------------
(* Operator input *)

\* A prompt that comes while a turn holds the parent.
Enqueue_parent_input(s, i) ==
    /\ Loaded(s)
    /\ Usable(s)
    /\ runs[s].status # "none"
    /\ \A t \in Sessions : runs[t].inputs[i] = "none"
    /\ Save(s, [runs[s] EXCEPT !.inputs[i] = "queued"])
    /\ fresh' = [fresh EXCEPT ![s] = TRUE]
    /\ UNCHANGED <<loaded, drain, alive, latest>>

\* The wake loop gives a queued input its own turn.
Deliver_queued_input(s, i) ==
    /\ Loaded(s)
    /\ runs[s].status # "superseded"
    /\ runs[s].inputs[i] \in {"queued", "turn"}
    /\ runs[s].claim \notin alive
    /\ Save(s, [runs[s] EXCEPT !.inputs[i] = "turn", !.claim = loaded[s]])
    /\ UNCHANGED <<fresh, loaded, drain, alive, latest>>

\* The turn ends; unless it failed, the queue entry goes.
TurnEnds(s, i) ==
    /\ runs[s].claim \in alive
    /\ runs[s].inputs[i] \in {"turn", "resolved"}
    /\ \/ Save(s, [runs[s] EXCEPT !.claim = NoOne,
                                  !.inputs[i] = IF @ = "turn" THEN "received" ELSE @])
       \/ Save(s, [runs[s] EXCEPT !.claim = NoOne])
    /\ UNCHANGED <<fresh, loaded, drain, alive, latest>>

Acknowledge_input(s, i) ==
    /\ Loaded(s)
    /\ runs[s].status # "superseded"
    /\ runs[s].inputs[i] \in {"turn", "received", "replayed"}
    /\ Save(s, [runs[s] EXCEPT !.inputs[i] = "resolved"])
    /\ UNCHANGED <<fresh, loaded, drain, alive, latest>>

------------------------------------------------------------------------------
(* Adoption *)

Loaded_here(p, s) == p \in Routers /\ loaded[s] = p

\* Mutant: an attempt of a live worker does not fence its run.
Live_ownerByLease(p, s) ==
    \/ Loaded_here(p, s)
    \/ runs[s].owner \in alive /\ fresh[s]
    \/ runs[s].claim \in alive
    \/ runs[s].owner = NoOne /\ fresh[s]

\* The run is loaded here, or its owner runs and confirmed it lately, or one
\* of its workers or wakes is held by a running router, or it has no owner and
\* was active lately.
Live_owner(p, s) ==
    \/ Loaded_here(p, s)
    \/ runs[s].owner \in alive /\ fresh[s]
    \/ \E w \in Works : runs[s].works[w].at \in alive
    \/ runs[s].claim \in alive
    \/ runs[s].owner = NoOne /\ fresh[s]

Unfinished(r) == \E w \in Works : r.works[w].at # NoOne

Adoptable(p, s) ==
    /\ runs[s].status \in {"running", "draining", "paused"}
    /\ ~(runs[s].status = "paused" /\ Unfinished(runs[s]))
    /\ ~Live_owner(p, s)

\* Mutant: the merge takes the source's copy of a work it already moved.
MergedWorkOver(mine, theirs) ==
    IF theirs.child # NoOne /\ mine.child \in {NoOne, theirs.child} THEN theirs ELSE mine

\* A work the destination has is never overwritten.
MergedWork(mine, theirs) == IF mine.child = NoOne THEN theirs ELSE mine

\* The works the report names: moved now, or by an adoption that was cut short.
\* Another work under the same identity stays with the source.
MovedWorks(into, from) ==
    {w \in Works : /\ Has(from, w)
                   /\ into.works[w].child \in {NoOne, from.works[w].child}}

Queued == {"queued", "turn"}
Delivered == {"turn", "received", "replayed", "moved"}

\* An input that was delivered becomes historical; a queued one that was not
\* stays a request.
Adopted(i) == IF i \in Delivered THEN "replayed" ELSE i

\* The queue of the source goes to the front of the destination's, but for
\* what is resolved, historical or already there.
Requeued(mine, theirs) ==
    /\ theirs \in Queued
    /\ mine \notin Queued \cup {"resolved", "replayed"}
    /\ ~(mine = "none" /\ theirs = "turn")

\* Mutant: the source's queue replaces the destination's own.
MergedInputOver(mine, theirs) ==
    CASE Requeued(mine, theirs) -> IF mine = "received" THEN "turn" ELSE "queued"
      [] mine = "none" -> Adopted(theirs)
      [] mine = "queued" /\ theirs \notin Queued -> "moved"
      [] OTHER -> mine

\* An input the destination has keeps its state, but for its place in the queue.
MergedInput(mine, theirs) ==
    CASE Requeued(mine, theirs) -> IF mine = "received" THEN "turn" ELSE "queued"
      [] mine = "none" -> Adopted(theirs)
      [] OTHER -> mine

\* The inputs the report names: a new wake, or a new queue entry.
MovedInputs(into, from) ==
    {i \in Inputs :
        \/ from.inputs[i] \in Delivered /\ into.inputs[i] \in {"none", "resolved"}
        \/ Requeued(into.inputs[i], from.inputs[i])}

Merged(into, from) ==
    [into EXCEPT
        !.works = [w \in Works |-> MergedWork(into.works[w], from.works[w])],
        !.inputs = [i \in Inputs |-> MergedInput(into.inputs[i], from.inputs[i])]]

\* What stays with the superseded run: everything that was not moved.
Retired(from, works, inputs, into) ==
    [from EXCEPT
        !.works = [w \in Works |-> IF w \in works THEN NoWork ELSE from.works[w]],
        !.inputs = [i \in Inputs |->
                       CASE i \in inputs /\ from.inputs[i] = "queued" -> "moved"
                         [] i \in inputs /\ from.inputs[i] = "turn" -> "received"
                         [] OTHER -> from.inputs[i]],
        !.status = "superseded",
        !.by = into]

Holds_claimed_content(r) ==
    \/ \E w \in Works : Has(r, w)
    \/ \E i \in Inputs : r.inputs[i] \in Queued

Goto(p, c) == calls' = [calls EXCEPT ![p] = c]

Adopt_at(from, into) == [Idle EXCEPT !.at = "check", !.from = from, !.into = into]
Clear(into) == [Idle EXCEPT !.at = "clear", !.into = into]

\* `adopt-run --from .. --into ..`
Adopt_run(p, from, into) ==
    /\ calls[p].at = "idle"
    /\ from # into
    /\ Goto(p, Adopt_at(from, into))
    /\ UNCHANGED <<runs, fresh, loaded, drain, alive, latest>>

\* The capacity cycle of the destination's router retries the handoff.
Retry_pending(s) ==
    LET p == loaded[s]
        a == runs[s].pending
        Begin(c) == calls' = [Saved(s) EXCEPT ![p] = c]
    IN  /\ Loaded(s)
        /\ calls[p].at = "idle"
        /\ runs[s].status = "running"
        /\ a # NoOne
        /\ \/ /\ runs[a].by = s
              /\ Begin(IF runs[a].status = "superseded" /\ Holds_claimed_content(runs[a])
                       THEN Adopt_at(a, s) ELSE Clear(s))
           \/ /\ runs[a].by \notin {s, NoOne}
              /\ Begin(Clear(s))
           \/ /\ runs[a].by = NoOne
              /\ ~Live_owner(p, a)
              /\ Begin(Adopt_at(a, s))
        /\ UNCHANGED <<runs, fresh, loaded, drain, alive, latest>>

\* Mutant: a claim of an adoption that was cut short is not resumed.
ClaimedBeforeNever(c) == FALSE

\* A run that this destination claimed in an adoption that was cut short.
ClaimedBefore(c) == runs[c.from].status = "superseded" /\ runs[c.from].by = c.into

\* Load both runs and check; a run that was claimed before goes on with the
\* merge.
Check(p) ==
    LET c == calls[p]
    IN  /\ c.at = "check"
        /\ runs[c.into].status \notin {"none", "superseded"}
        /\ ClaimedBefore(c) \/ Adoptable(p, c.from)
        /\ Goto(p, [c EXCEPT !.at = IF ClaimedBefore(c) THEN "merge" ELSE "claim",
                             !.read = runs[c.from]])
        /\ UNCHANGED <<runs, fresh, loaded, drain, alive, latest>>

\* The check, or the merge, refuses.
Refused(p) ==
    LET c == calls[p]
    IN  /\ \/ /\ c.at = "check"
              /\ \/ runs[c.into].status \in {"none", "superseded"}
                 \/ ~ClaimedBefore(c) /\ ~Adoptable(p, c.from)
           \/ c.at = "merge" /\ runs[c.into].status = "superseded"
        /\ Goto(p, Idle)
        /\ UNCHANGED <<runs, fresh, loaded, drain, alive, latest>>

\* Mutant: the claim does not fence the source.
ClaimedOpen(r, into) == [r EXCEPT !.by = into]

Claimed(r, into) == [r EXCEPT !.status = "superseded", !.by = into]

Claim(p) ==
    LET c == calls[p]
        r == Claimed(c.read, c.into)
    IN  /\ c.at = "claim"
        /\ runs' = [runs EXCEPT ![c.from] = r]
        /\ calls' = [Saved(c.from) EXCEPT ![p] = [c EXCEPT !.at = "merge", !.read = r]]
        /\ UNCHANGED <<fresh, loaded, drain, alive, latest>>

\* The claimed document goes into the destination as it is now.
Merge(p) ==
    LET c == calls[p]
        into == runs[c.into]
    IN  /\ c.at = "merge"
        /\ into.status # "superseded"
        /\ runs' = [runs EXCEPT ![c.into] = Merged(into, c.read)]
        /\ calls' = [Saved(c.into) EXCEPT
                       ![p] = [c EXCEPT !.at = "retire", !.read = NoRun,
                                        !.works = MovedWorks(into, c.read),
                                        !.inputs = MovedInputs(into, c.read)]]
        /\ UNCHANGED <<fresh, loaded, drain, alive, latest>>

\* What was moved leaves the source as it is now.
Retire(p) ==
    LET c == calls[p]
    IN  /\ c.at = "retire"
        /\ runs' = [runs EXCEPT ![c.from] = Retired(@, c.works, c.inputs, c.into)]
        /\ calls' = [Saved(c.from) EXCEPT ![p] = Clear(c.into)]
        /\ UNCHANGED <<fresh, loaded, drain, alive, latest>>

\* The handoff is over: admissions may go on.
Adoption_pending(p) ==
    LET c == calls[p]
    IN  /\ c.at = "clear"
        /\ runs' = [runs EXCEPT ![c.into].pending = NoOne]
        /\ calls' = [Saved(c.into) EXCEPT ![p] = Idle]
        /\ UNCHANGED <<fresh, loaded, drain, alive, latest>>

\* A save stays contended, the store fails, or the command is killed: the call
\* ends where it is.
GivesUp(p) ==
    /\ calls[p].at # "idle"
    /\ Goto(p, Idle)
    /\ UNCHANGED <<runs, fresh, loaded, drain, alive, latest>>

Dies(p) ==
    /\ p \in alive
    /\ alive' = alive \ {p}
    /\ loaded' = [s \in Sessions |-> IF loaded[s] = p THEN NoOne ELSE loaded[s]]
    /\ drain' = [s \in Sessions |-> IF drain[s] = p THEN NoOne ELSE drain[s]]
    /\ Goto(p, Idle)
    /\ UNCHANGED <<runs, fresh, latest>>

------------------------------------------------------------------------------

Adoption(p) ==
    \/ Check(p) \/ Refused(p)
    \/ Claim(p) \/ Merge(p) \/ Retire(p) \/ Adoption_pending(p)

SessionStep(s) ==
    \/ \E p \in Routers : Load(s, p)
    \/ Heartbeat(s) \/ Lapse(s) \/ Close(s)
    \/ \E a \in Sessions \cup {NoOne} : Implement(s, a)
    \/ \E directed \in BOOLEAN : Observe_input(s, directed)
    \/ Run_drain(s) \/ DrainEnds(s)
    \/ \E w \in Works : Admit(s, w) \/ Begin_work(s, w) \/ Attempt_ended(s, w)
    \/ \E i \in Inputs :
          \/ Enqueue_parent_input(s, i) \/ Deliver_queued_input(s, i)
          \/ TurnEnds(s, i) \/ Acknowledge_input(s, i)
    \/ Retry_pending(s)

Next ==
    \/ \E s \in Sessions : SessionStep(s)
    \/ \E p \in Commands, from, into \in Sessions : Adopt_run(p, from, into)
    \/ \E p \in Processes : Adoption(p)
    \/ \E p \in Failing : GivesUp(p)
    \/ \E p \in Mortal : Dies(p)

Spec == Init /\ [][Next]_vars

\* A process that runs goes on with the adoption it is in, and a router retries
\* the handoffs of its sessions every fifteen seconds; a claim that is repeated
\* at once is not beaten for ever.
Fairness ==
    /\ \A p \in Processes : WF_vars(Adoption(p)) /\ SF_vars(Claim(p))
    /\ \A s \in Sessions : SF_vars(Retry_pending(s))

FairSpec == Spec /\ Fairness
------------------------------------------------------------------------------
(* Properties *)

\* A plan has one coordinator: no two runs that may still act hold the same
\* work, however the phases of adoptions interleave with the owner's return
\* ("an owner that comes back mid-flight can never end up coordinating beside
\* the adopter", adopt).
OneCoordinator ==
    \A s, t \in Sessions, w \in Works :
        (/\ s # t
         /\ Has(runs[s], w)
         /\ runs[s].works[w].child = runs[t].works[w].child) =>
            "superseded" \in {runs[s].status, runs[t].status}

\* A work's latest progress is never lost: some run has it, and a run that may
\* still act has nothing older.  A claim on a document that changed meanwhile,
\* or a merge repeated after a crash, would break it (adopt_at, merge, retire).
ProgressKept ==
    /\ \A c \in Sessions, w \in Works :
          latest[c][w] > 0 =>
             \E s \in Sessions : /\ runs[s].works[w].child = c
                                 /\ runs[s].works[w].version = latest[c][w]
    /\ \A s \in Sessions, w \in Works :
          Has(runs[s], w) /\ runs[s].status # "superseded" =>
             runs[s].works[w].version = latest[runs[s].works[w].child][w]

\* An operator's input stays pending somewhere until it is acknowledged (merge,
\* retire): once recorded, some run has it queued, delivered or historical, or
\* resolved.
InputKept ==
    \A i \in Inputs :
        (\E s \in Sessions : runs[s].inputs[i] # "none") =>
            \E s \in Sessions : runs[s].inputs[i] \notin {"none", "moved"}

\* A run with a worker in a turn is not taken over: an attempt that lives stays
\* in the run that began it, until it ends (live_owner, adopt_at).
LiveAttemptStays ==
    [][\A s \in Sessions, w \in Works :
          runs[s].works[w].at \in alive =>
             \/ runs[s].works[w].at \notin alive'
             \/ runs'[s].works[w].at \in {NoOne, runs[s].works[w].at}
                   /\ runs'[s].works[w].child = runs[s].works[w].child
                   /\ (runs'[s].status = "superseded" => runs[s].status = "superseded")]_vars

\* What a destination waits for.
Waiting(s) ==
    /\ Loaded(s)
    /\ runs[s].status = "running"
    /\ runs[s].pending # NoOne

\* A recorded handoff ends, whatever dies between its phases, unless its
\* source is alive, is paused with an attempt that never ended, or its
\* destination is suspended (retry_pending_at, retry_source).
HandoffEnds ==
    \A s \in Sessions :
        []<>(Waiting(s) => LET a == runs[s].pending
                           IN  \/ Live_owner(loaded[s], a)
                               \/ runs[a].status = "paused" /\ Unfinished(runs[a]))

\* "The normal capacity cycle retries that exact handoff at most every 15
\* seconds; no second command or monitor prompt is needed"
\* (docs/planner-capacity.md): a handoff waits for a living owner only.
HandoffNeedsNoCommand ==
    \A s \in Sessions : []<>(Waiting(s) => Live_owner(loaded[s], runs[s].pending))

\* "Another session adopted this run; it continues there and never resumes
\* here" (RunStatus::Superseded).
SupersededForGood ==
    [][\A s \in Sessions :
          runs[s].status = "superseded" => runs'[s].status = "superseded"]_vars

\* "A crash between phases leaves `from` claimed with its content intact;
\* rerunning resumes from the claim" (adopt): the run that claimed it can still
\* take it.
ClaimCanFinish ==
    \A s \in Sessions :
        runs[s].status = "superseded" /\ Holds_claimed_content(runs[s]) =>
            runs[runs[s].by].status # "superseded"

\* "rerunning (the capacity cycle's `retry_pending`, or `adopt-run` again)
\* resumes from the claim instead of declaring an empty adoption complete"
\* (adopt): an input that was received and not acknowledged is pending in a run
\* that may act, or in one whose adoption is not over.
ReceivedKept ==
    \A s \in Sessions, i \in Inputs :
        runs[s].status = "superseded" /\ runs[s].inputs[i] = "received" =>
            \/ runs[runs[s].by].pending = s
            \/ \E p \in Processes : calls[p].from = s
            \/ runs[runs[s].by].inputs[i] \in Queued \cup Delivered \cup {"resolved"}

\* "content the destination already holds is reported, not duplicated" (adopt):
\* an input that was delivered is not queued again.
DeliveredNotRequeued ==
    [][\A s \in Sessions, i \in Inputs :
          runs[s].inputs[i] \in {"received", "resolved"} =>
              runs'[s].inputs[i] \notin Queued]_vars
===============================================================================
