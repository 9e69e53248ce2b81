---------------------------- MODULE PlannerRelease ----------------------------
(***************************************************************************)
(* Release rounds over the work ledger (planner_release.rs).  A selection   *)
(* freezes finished revisions into a candidate; its checkpoints carry it    *)
(* through staging and production to the disposition, or it fails, and a     *)
(* failed round is replaced by a repair or, before production, abandoned.    *)
(*                                                                          *)
(* Evidence, SHAs and the host's verdict are external, as in PlannerLedger.  *)
(* The record of a checkpoint is one step: module PlannerWorkflow shows why  *)
(* the compare-and-swap lets an operation be read that way.                  *)
(***************************************************************************)
EXTENDS PlannerLedger

CONSTANT ROUND_LIMIT  \* a clean round carries every ready head up to this many

None == "none"  \* a checkpoint that replaces no release

ASSUME ReleaseAssumption == ROUND_LIMIT \in Nat /\ None \notin ReleaseIds

EarlyStages == {"selected", "candidate-passed", "staging-deployed",
                "staging-passed"}
ProductionStages == {"production-merged", "production-deployed",
                     "production-passed"}

NextStage == [s \in EarlyStages \cup ProductionStages |->
    CASE s = "selected"            -> "candidate-passed"
      [] s = "candidate-passed"    -> "staging-deployed"
      [] s = "staging-deployed"    -> "staging-passed"
      [] s = "staging-passed"      -> "production-merged"
      [] s = "production-merged"   -> "production-deployed"
      [] s = "production-deployed" -> "production-passed"
      [] s = "production-passed"   -> "disposed"]

Selected(i) == {w \in Works : releases[i].selection[w] # NoRev}

------------------------------------------------------------------------------
(* Recording the next checkpoint of an existing release *)

\* A failed candidate that never reached production may be abandoned.
Failed_staging_abandonment(i, stage) ==
    /\ releases[i].stage = "failed"
    /\ stage = "abandoned"
    /\ ~releases[i].merged

Closed(i) ==
    \/ releases[i].superseded
    \/ releases[i].stage \in {"disposed", "failed", "abandoned"}

\* Mutant: a replaced failure may still be abandoned.
StageFollowsReplaced(i, stage) ==
    \/ Failed_staging_abandonment(i, stage)
    \/ /\ ~Closed(i)
       /\ \/ stage = NextStage[releases[i].stage]
          \/ stage = "failed"
          \/ stage = "abandoned" /\ releases[i].stage \in EarlyStages

StageFollows(i, stage) ==
    \/ Failed_staging_abandonment(i, stage) /\ ~releases[i].superseded
    \/ /\ ~Closed(i)
       /\ \/ stage = NextStage[releases[i].stage]
          \/ stage = "failed"
          \/ stage = "abandoned" /\ releases[i].stage \in EarlyStages

\* Mutant: production takes any round.
ProductionFreeAlways(i) == TRUE

\* Production takes one round at a time, and none over an open failure.
ProductionFree(i) ==
    \A j \in ReleaseIds \ {i} : Active(j) =>
        releases[j].stage \notin {"production-merged", "production-deployed",
                                  "failed"}

\* Mutant: one receipt is enough.
ReceiptsSome(i) ==
    \E w \in Selected(i) : works[w].integration = releases[i].selection[w]

\* Every work of the round has its integration receipt.
Receipts(i) ==
    \A w \in Selected(i) :
        /\ works[w].status = "integrated"
        /\ works[w].integration = releases[i].selection[w]

CheckpointReady(i, stage) ==
    /\ Mutable
    /\ HasHost
    /\ releases[i].used
    /\ StageFollows(i, stage)
    /\ stage = "production-merged" => ProductionFree(i)
    /\ stage = "disposed" => Receipts(i)

CheckpointCommit(i, stage) ==
    /\ releases' = [releases EXCEPT
                       ![i].stage = stage,
                       ![i].merged = @ \/ stage \in ProductionStages]
    /\ UNCHANGED <<runStatus, phase, exec, works>>
    /\ KeepProcesses

RecordCheckpoint(i, stage) ==
    CheckpointReady(i, stage) /\ CheckpointCommit(i, stage)

------------------------------------------------------------------------------
(* Selecting a new round *)

\* Mutant: the lane is not looked at.
StagingLaneFreeAlways(replaces) == TRUE

\* The staging lane holds one open candidate or failure; a replacement takes
\* the place of the failure it names.
StagingLaneFree(replaces) ==
    \A j \in ReleaseIds : Active(j) /\ j # replaces =>
        releases[j].stage \notin EarlyStages \cup {"failed"}

\* Mutant: a source in any open round will do.
SourceCarriedOpen(sel, d, r) ==
    \/ sel[d] = r
    \/ works[d].status = "integrated" /\ works[d].integration = r
    \/ \E j \in ReleaseIds : releases[j].used /\ releases[j].selection[d] = r

\* The upstream source of a selected work is in this round, integrated, or in
\* a round that reached production.
SourceCarried(sel, d, r) ==
    \/ sel[d] = r
    \/ works[d].status = "integrated" /\ works[d].integration = r
    \/ \E j \in ReleaseIds :
          /\ releases[j].used
          /\ ~releases[j].superseded
          /\ releases[j].stage \in ProductionStages \cup {"disposed"}
          /\ releases[j].selection[d] = r

Qualified(sel, w, replaces) ==
    /\ Finished_revision(w, sel[w])
    /\ \A j \in ReleaseIds : Active(j) /\ j # replaces =>
          releases[j].selection[w] # sel[w]
    /\ \A d \in Works, r \in Revs :
          <<w, d, r>> \in ReadyDeps => SourceCarried(sel, d, r)

\* Finished heads the round leaves out.  The first repair of a failure may
\* isolate itself; exempt works are deferred by evidence or already carried
\* by the staging tip.
Waiting_heads(sel, replaces, exempt) ==
    IF replaces # None /\ ~releases[replaces].replacement THEN {}
    ELSE {w \in Works \ exempt :
            /\ works[w].finish # NoRev
            /\ Finished_revision(w, works[w].finish)
            /\ sel[w] = NoRev
            /\ \A j \in ReleaseIds : Active(j) \/ j = replaces =>
                  releases[j].selection[w] = NoRev
            /\ \A d \in Works, r \in Revs : <<w, d, r>> \in ReadyDeps =>
                  \/ sel[d] = r
                  \/ works[d].status = "integrated" /\ works[d].integration = r}

\* A repair hold's attestation: the selection is its repairs and the closure
\* of their reviewed sources.
Validate_attestation(sel) ==
    \A w \in Works : sel[w] # NoRev =>
        \A d \in Works, r \in Revs : <<w, d, r>> \in ReadyDeps => sel[d] = r

\* Mutant: any open release may be replaced.
ReplaceableOpen(i) == releases[i].used /\ ~releases[i].superseded

\* A replacement names an open failure.
Replaceable(i) ==
    /\ releases[i].used
    /\ releases[i].stage = "failed"
    /\ ~releases[i].superseded

SelectReady(i, sel, replaces, held, exempt) ==
    LET carried == {w \in Works : sel[w] # NoRev}
    IN  /\ Mutable
        /\ HasHost
        /\ ~releases[i].used
        /\ carried # {}
        /\ held => Validate_attestation(sel)
        /\ StagingLaneFree(replaces)
        /\ replaces # None => Replaceable(replaces)
        /\ \A w \in carried : Qualified(sel, w, replaces)
        /\ \/ held
           \/ Cardinality(carried) >= ROUND_LIMIT
           \/ Waiting_heads(sel, replaces, exempt) = {}

SelectCommit(i, sel, replaces) ==
    /\ releases' = [j \in ReleaseIds |->
          IF j = i
          THEN [NoRelease EXCEPT !.used = TRUE, !.selection = sel,
                                 !.replacement = replaces # None]
          ELSE IF j = replaces
          THEN [releases[j] EXCEPT !.superseded = TRUE]
          ELSE releases[j]]
    /\ UNCHANGED <<runStatus, phase, exec, works>>
    /\ KeepProcesses

SelectRelease(i, sel, replaces, held, exempt) ==
    SelectReady(i, sel, replaces, held, exempt) /\ SelectCommit(i, sel, replaces)

------------------------------------------------------------------------------
(* The specification: the ledger with its releases *)

ReleaseOperation ==
    \E i \in ReleaseIds :
        \/ \E stage \in Stages : RecordCheckpoint(i, stage)
        \/ \E sel \in [Works -> OptRev], replaces \in ReleaseIds \cup {None},
              held \in BOOLEAN, exempt \in SUBSET Works :
              SelectRelease(i, sel, replaces, held, exempt)

ReleaseNext == LedgerNext \/ ReleaseOperation

ReleaseSpec == Init /\ [][ReleaseNext]_ledgerVars

\* Rounds over finished heads: the ledger as the parent holds it once every
\* work was implemented, accepted and finished at one of Revs and its attempt
\* handed back.
FinishedInit ==
    /\ runStatus = "running"
    /\ phase = "implementation"
    /\ exec = TRUE
    /\ works \in [Works -> {[AbsentWork EXCEPT
            !.status = "finished", !.workspace = TRUE,
            !.artifact = [rev |-> r, unresolved |-> FALSE],
            !.review = [rev |-> r, accepted |-> TRUE],
            !.finish = r] : r \in Revs}]
    /\ releases = [i \in ReleaseIds |-> NoRelease]
    /\ nextAttempt = 1
    /\ allocs = {}
    /\ delegates = {}
    /\ stops = {}
    /\ drain = [r \in Routers |-> "none"]
    /\ alive = Routers

\* The rounds race the operations and the client's stops.  Commands and prompts
\* only suspend the run, which takes operations away, and no attempt runs.
RoundsNext ==
    \/ \E r \in alive : Operation(r) \/ \E w \in Works : ChildStop(r, w)
    \/ ReleaseOperation

RoundsSpec == FinishedInit /\ [][RoundsNext]_ledgerVars

------------------------------------------------------------------------------
(* Properties *)

\* One candidate at a time is on its way through staging, also when a failure
\* there or in production is being repaired (record_with_carried).
OneStagingCandidate ==
    \A i, j \in ReleaseIds : i # j /\ Active(i) /\ Active(j) =>
        ~(releases[i].stage \in EarlyStages /\ releases[j].stage \in EarlyStages)

\* One round at a time is merged to production and not yet proven there, whoever
\* else is selected, repaired or disposed meanwhile (record_with_carried).
OneProductionRollout ==
    \A i, j \in ReleaseIds : i # j /\ Active(i) /\ Active(j) =>
        ~(/\ releases[i].stage \in {"production-merged", "production-deployed"}
          /\ releases[j].stage \in {"production-merged", "production-deployed"})

\* Both lanes at once: a staging candidate never meets another one, and neither
\* does a rollout that is not proven (record_with_carried).
LanesExclusive == OneStagingCandidate /\ OneProductionRollout

\* A release is disposed only with the integration receipt of every work it
\* froze, and those receipts outlive later corrections of the works
\* (record_with_carried, reconcile).
DisposedIsIntegrated ==
    \A i \in ReleaseIds : releases[i].used /\ releases[i].stage = "disposed" =>
        \A w \in Selected(i) :
            releases[i].selection[w] \in
                works[w].prior \cup {works[w].integration}

\* A revision that some release froze is integrated only through a release
\* that reached production with exactly that revision (integration_allowed).
IntegratedThroughRelease ==
    \A w \in Works : works[w].integration # NoRev =>
        LET selecting == {i \in ReleaseIds : /\ releases[i].used
                                             /\ releases[i].selection[w] =
                                                    works[w].integration}
        IN  selecting = {} \/ \E i \in selecting : releases[i].merged

\* A round that reached production never runs ahead of a reviewed source it was
\* built on: that source is in the round itself, was integrated, or is in a
\* round that reached production (record_with_carried).
ProductionCarriesSources ==
    \A i \in ReleaseIds, w \in Works, d \in Works, r \in Revs :
        /\ releases[i].merged
        /\ releases[i].selection[w] # NoRev
        /\ <<w, d, r>> \in ReadyDeps
        => \/ releases[i].selection[d] = r
           \/ r \in works[d].prior \cup {works[d].integration}
           \/ \E j \in ReleaseIds : releases[j].merged /\ releases[j].selection[d] = r

\* A replaced round is a failed one and stays so: it is not abandoned,
\* continued or replaced again (record_with_carried).
ReplacedHasFailed ==
    \A i \in ReleaseIds : releases[i].superseded => releases[i].stage = "failed"

\* A frozen selection, a replacement and a close are for ever, whatever is
\* recorded under the same release id later (record_with_carried).
SelectionFrozen ==
    [][\A i \in ReleaseIds : releases[i].used =>
          /\ releases'[i].selection = releases[i].selection
          /\ releases[i].superseded => releases'[i] = releases[i]
          /\ releases[i].stage \in {"disposed", "abandoned"} =>
                releases'[i] = releases[i]]_ledgerVars

\* "Otherwise each failed round blocks replacing the other, and neither release
\* can make progress" (the comment in record_with_carried): of two open
\* failures one can still be abandoned.
FailuresStayRepairable ==
    \A i, j \in ReleaseIds :
        /\ i # j
        /\ Active(i) /\ releases[i].stage = "failed"
        /\ Active(j) /\ releases[j].stage = "failed"
        => ~releases[i].merged \/ ~releases[j].merged
===============================================================================
