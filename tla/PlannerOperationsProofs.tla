----------------------- MODULE PlannerOperationsProofs -----------------------
(***************************************************************************)
(* Proofs about the planner's work ledger and the two layers over it.      *)
(*                                                                         *)
(* The ledger (PlannerLedger), for every set of works, revisions, routers  *)
(* and releases, every dependency relation and any number of attempts.     *)
(*                                                                         *)
(* The operations (PlannerWorkflow), with the awaits between their checks  *)
(* and their saves, implement the atomic ledger.  The argument is the      *)
(* compare-and-swap: an operation may save only while nobody saved since   *)
(* it loaded, and until then what it checked still holds.                  *)
(*                                                                         *)
(* The release rounds (PlannerRelease), over the ledger with all its       *)
(* operations (ReleaseSpec) and over the finished heads that TLC starts    *)
(* from (RoundsSpec), for every set of works, revisions and release        *)
(* identities.                                                             *)
(***************************************************************************)
EXTENDS PlannerWorkflow, PlannerRelease, TLAPS

(***************************************************************************)
(* The ledger.                                                             *)
(***************************************************************************)
(* The inductive invariant.  The custody properties speak of one work at a  *)
(* time, so they are collected into a predicate on a work's record.          *)

\* What holds of every work's record between two steps.
WorkInv(x) ==
    /\ x.status = "integrated" <=> x.integration # NoRev
    /\ x.integration # NoRev =>
          x.finish = x.integration /\ x.workspace /\ x.attempt.ended
    /\ x.status = "finished" => x.finish # NoRev
    /\ x.finish # NoRev => x.review.accepted /\ x.review.rev = x.finish
    /\ x.review.accepted =>
          /\ x.artifact.rev = x.review.rev
          /\ ~x.artifact.unresolved
    /\ x.status \in {"running", "allocating"} => ~x.attempt.ended
    /\ x.status \in {"absent", "admitted", "retired", "integrated",
                     "blocked", "watching"} => x.attempt.ended

\* At most one allocation runs for a work.
OneAllocation == \A a, b \in allocs : a.work = b.work => a = b

\* TypeOK, every record's WorkInv, and the claims of the allocations.
LedgerInv ==
    /\ TypeOK
    /\ \A w \in Works : WorkInv(works[w])
    /\ AllocationKeepsClaim
    /\ OneAllocation

------------------------------------------------------------------------------
(* Records *)

\* The empty record and the empty parts are well formed.
LEMMA EmptyTypes ==
    /\ NoAttempt \in Attempt
    /\ NoArtifact \in Artifact
    /\ NoReview \in Review
    /\ AbsentWork \in Work
    /\ NoRelease \in Release
  BY DEF NoAttempt, Attempt, NoArtifact, Artifact, NoReview, Review,
         AbsentWork, Work, WorkStatus, OptRev, NoRelease, Release, Stages

\* The record of a work before it is admitted satisfies WorkInv.
LEMMA AbsentInv == WorkInv(AbsentWork)
  BY DEF WorkInv, AbsentWork, NoAttempt, NoReview

\* The initial state satisfies the invariant.
THEOREM InitInv == Init => LedgerInv
<1> SUFFICES ASSUME Init PROVE LedgerInv
  OBVIOUS
<1>1. TypeOK
  BY LedgerAssumption, EmptyTypes
     DEF Init, TypeOK, RunStatus, Phases, Drains
<1>2. \A w \in Works : WorkInv(works[w])
  BY AbsentInv DEF Init
<1>3. AllocationKeepsClaim /\ OneAllocation
  BY DEF Init, AllocationKeepsClaim, OneAllocation
<1> QED
  BY <1>1, <1>2, <1>3 DEF LedgerInv

------------------------------------------------------------------------------
(* One work is written *)

\* A work that is not allocating, has no live attempt or has a dead owner is
\* not being allocated for.
LEMMA NoClaim ==
    ASSUME LedgerInv, NEW w \in Works,
           \/ works[w].status # "allocating"
           \/ ~Live(w)
           \/ ~Owner_alive(w)
    PROVE  \A a \in allocs : a.work # w
<1> SUFFICES ASSUME NEW a \in allocs, a.work = w PROVE FALSE
  OBVIOUS
<1>1. /\ a.by \in alive
      /\ works[w].status = "allocating"
      /\ works[w].attempt = [id |-> a.attempt, router |-> a.by,
                             ended |-> FALSE]
  BY DEF LedgerInv, AllocationKeepsClaim
<1>2. /\ works[w].attempt.router = a.by
      /\ works[w].attempt.ended = FALSE
  BY <1>1
<1> QED
  BY <1>1, <1>2 DEF Live, Owner_alive

\* Writing one well-formed record keeps the works' part of the invariant.
LEMMA WriteWorks ==
    ASSUME LedgerInv, NEW w \in Works, NEW x \in Work, WorkInv(x), Write(w, x)
    PROVE  /\ works' \in [Works -> Work]
           /\ \A v \in Works : WorkInv(works'[v])
<1>1. works \in [Works -> Work] /\ works' = [works EXCEPT ![w] = x]
  BY DEF LedgerInv, TypeOK, Write
<1>2. ASSUME NEW v \in Works PROVE WorkInv(works'[v])
  <2>1. CASE v = w
    <3>1. works'[v] = x
      BY <1>1, <2>1
    <3> QED BY <3>1
  <2>2. CASE v # w
    <3>1. works'[v] = works[v]
      BY <1>1, <2>2
    <3> QED BY <3>1 DEF LedgerInv
  <2> QED BY <2>1, <2>2
<1> QED BY <1>1, <1>2

\* Such a write keeps the claims when it leaves the allocations alone.
LEMMA WriteClaims ==
    ASSUME LedgerInv, NEW w \in Works, NEW x \in Work, WorkInv(x), Write(w, x),
           \/ x.attempt = works[w].attempt /\ x.status = works[w].status
           \/ \A a \in allocs : a.work # w,
           UNCHANGED <<allocs, alive>>
    PROVE  /\ works' \in [Works -> Work]
           /\ \A v \in Works : WorkInv(works'[v])
           /\ AllocationKeepsClaim'
           /\ OneAllocation'
<1>1. works' \in [Works -> Work] /\ \A v \in Works : WorkInv(works'[v])
  BY WriteWorks
<1>2. works \in [Works -> Work] /\ works' = [works EXCEPT ![w] = x]
  BY DEF LedgerInv, TypeOK, Write
<1>3. AllocationKeepsClaim'
  BY <1>2 DEF LedgerInv, TypeOK, Alloc, AllocationKeepsClaim
<1>4. OneAllocation'
  BY DEF LedgerInv, OneAllocation
<1> QED
  BY <1>1, <1>3, <1>4

\* The same for the whole invariant, when nothing else changes.
LEMMA WriteInv ==
    ASSUME LedgerInv, NEW w \in Works, NEW x \in Work, WorkInv(x), Write(w, x),
           \/ x.attempt = works[w].attempt /\ x.status = works[w].status
           \/ \A a \in allocs : a.work # w,
           KeepRun, KeepProcesses
    PROVE  LedgerInv'
<1>1. UNCHANGED <<allocs, alive>>
  BY DEF KeepProcesses
<1>2. /\ works' \in [Works -> Work]
      /\ \A v \in Works : WorkInv(works'[v])
      /\ AllocationKeepsClaim'
      /\ OneAllocation'
  BY <1>1, WriteClaims
<1>3. TypeOK'
  BY <1>2 DEF LedgerInv, TypeOK, KeepRun, KeepProcesses
<1> QED
  BY <1>2, <1>3 DEF LedgerInv

\* The same when sub-sessions close or their stops are taken.
LEMMA WriteStopsInv ==
    ASSUME LedgerInv, NEW w \in Works, NEW x \in Work, WorkInv(x), Write(w, x),
           \/ x.attempt = works[w].attempt /\ x.status = works[w].status
           \/ \A a \in allocs : a.work # w,
           stops' \subseteq Works, delegates' \subseteq LiveDelegate,
           KeepRun, UNCHANGED <<nextAttempt, allocs, drain, alive>>
    PROVE  LedgerInv'
<1>1. /\ works' \in [Works -> Work]
      /\ \A v \in Works : WorkInv(works'[v])
      /\ AllocationKeepsClaim'
      /\ OneAllocation'
  BY WriteClaims
<1>2. TypeOK'
  BY <1>1 DEF LedgerInv, TypeOK, KeepRun
<1> QED
  BY <1>1, <1>2 DEF LedgerInv

------------------------------------------------------------------------------
(* The operations *)

\* Admission creates a clean record.
LEMMA AdmitInv ==
    ASSUME LedgerInv, NEW w \in Works, Admit(w) PROVE LedgerInv'
<1> DEFINE x == [AbsentWork EXCEPT !.status = "admitted"]
<1>1. x \in Work /\ WorkInv(x)
  BY EmptyTypes DEF Work, WorkStatus, WorkInv, AbsentWork, NoAttempt, NoReview
<1>2. Write(w, x) /\ KeepRun /\ KeepProcesses /\ works[w].status = "absent"
  BY DEF Admit, AdmitReady, AdmitCommit, Present
<1>3. \A a \in allocs : a.work # w
  BY <1>2, NoClaim
<1> HIDE DEF x
<1> QED
  BY <1>1, <1>2, <1>3, WriteInv

\* Retirement needs an ended attempt and no integration.
LEMMA RetireInv ==
    ASSUME LedgerInv, NEW w \in Works, Retire(w) PROVE LedgerInv'
<1> DEFINE x == [works[w] EXCEPT !.status = "retired", !.paused = TRUE,
                                 !.required = FALSE]
<1>0. works[w] \in Work /\ WorkInv(works[w])
  BY DEF LedgerInv, TypeOK
<1>1. Write(w, x) /\ KeepRun /\ KeepProcesses /\ ~Live(w)
        /\ works[w].status # "integrated"
  BY DEF Retire, RetireReady, RetireCommit
<1>2. x \in Work /\ WorkInv(x)
  BY <1>0, <1>1 DEF Work, WorkStatus, WorkInv, Live
<1>3. \A a \in allocs : a.work # w
  BY <1>1, NoClaim
<1> HIDE DEF x
<1> QED
  BY <1>1, <1>2, <1>3, WriteInv

\* A review replaces the verdict on the current artifact and drops the receipts.
LEMMA ReviewInv ==
    ASSUME LedgerInv, NEW w \in Works, NEW rev \in Revs, NEW accepted \in BOOLEAN,
           ReviewArtifact(w, rev, accepted)
    PROVE  LedgerInv'
<1> DEFINE x == [works[w] EXCEPT
                  !.review = [rev |-> rev, accepted |-> accepted],
                  !.finish = NoRev, !.integration = NoRev,
                  !.status = IF accepted THEN "accepted" ELSE "corrections"]
<1>0. works[w] \in Work /\ WorkInv(works[w])
  BY DEF LedgerInv, TypeOK
<1>1. /\ Write(w, x) /\ KeepRun /\ KeepProcesses
      /\ works[w].artifact.rev = rev
      /\ works[w].status # "allocating"
      /\ accepted => ~works[w].artifact.unresolved
  BY DEF ReviewArtifact, ReviewReady, ReviewCommit
<1>2. x \in Work /\ WorkInv(x)
  BY <1>0, <1>1 DEF Work, WorkStatus, WorkInv, Review, OptRev, Artifact
<1>3. \A a \in allocs : a.work # w
  BY <1>1, NoClaim
<1> HIDE DEF x
<1> QED
  BY <1>1, <1>2, <1>3, WriteInv

\* A changed packet drops the review and the receipts of the previous one.
LEMMA ArtifactInv ==
    ASSUME LedgerInv, NEW w \in Works, NEW r \in Routers, NEW packet \in Artifact,
           ReportArtifact(w, r, packet)
    PROVE  LedgerInv'
<1> DEFINE x == IF works[w].artifact = packet THEN works[w]
                ELSE [works[w] EXCEPT !.artifact = packet,
                        !.review = NoReview, !.finish = NoRev,
                        !.integration = NoRev, !.status = "review-pending"]
<1>0. works[w] \in Work /\ WorkInv(works[w])
  BY DEF LedgerInv, TypeOK
<1>1. /\ Write(w, x) /\ KeepRun /\ KeepProcesses
      /\ Live(w) /\ works[w].status # "allocating"
  BY DEF ReportArtifact, ArtifactReady, ArtifactCommit, Require_worker
<1>2. x \in Work /\ WorkInv(x)
  <2>1. CASE works[w].artifact = packet
    BY <1>0, <2>1
  <2>2. CASE works[w].artifact # packet
    <3>1. x \in Work
      BY <1>0, <2>2, EmptyTypes DEF Work, WorkStatus, OptRev
    <3>2. /\ x.artifact = packet /\ x.review = NoReview /\ x.finish = NoRev
          /\ x.integration = NoRev /\ x.status = "review-pending"
      BY <1>0, <2>2 DEF Work
    <3> QED
      BY <3>1, <3>2 DEF WorkInv, NoReview
  <2> QED BY <2>1, <2>2
<1>3. \A a \in allocs : a.work # w
  BY <1>1, NoClaim
<1> HIDE DEF x
<1> QED
  BY <1>1, <1>2, <1>3, WriteInv

\* The child's finishing receipt binds the accepted revision.
LEMMA FinishedInv ==
    ASSUME LedgerInv, NEW w \in Works, NEW r \in Routers, NEW rev \in Revs,
           Finished(w, r, rev)
    PROVE  LedgerInv'
<1> DEFINE x == [works[w] EXCEPT !.finish = rev, !.status = "finished"]
<1>0. works[w] \in Work /\ WorkInv(works[w])
  BY DEF LedgerInv, TypeOK
<1>1. /\ Write(w, x) /\ KeepRun /\ KeepProcesses
      /\ Live(w) /\ works[w].status # "allocating"
      /\ Accepted_revision(w, rev)
  BY DEF Finished, FinishedReady, FinishCommit, Require_worker
<1>2. x \in Work /\ WorkInv(x)
  BY <1>0, <1>1, LedgerAssumption DEF Work, WorkStatus, WorkInv, OptRev, Live, Accepted_revision
<1>3. \A a \in allocs : a.work # w
  BY <1>1, NoClaim
<1> HIDE DEF x
<1> QED
  BY <1>1, <1>2, <1>3, WriteInv

\* The parent's finalization binds the accepted revision of a stopped child.
LEMMA FinalizeInv ==
    ASSUME LedgerInv, NEW w \in Works, NEW rev \in Revs,
           Finalize(w, rev)
    PROVE  LedgerInv'
<1> DEFINE x == [works[w] EXCEPT !.finish = rev, !.status = "finished"]
<1>0. works[w] \in Work /\ WorkInv(works[w])
  BY DEF LedgerInv, TypeOK
<1>1. /\ Write(w, x) /\ KeepRun /\ KeepProcesses
      /\ ~Live(w) /\ works[w].status \in {"accepted", "interrupted"}
      /\ Accepted_revision(w, rev)
  BY DEF Finalize, FinalizeReady, FinishCommit
<1>2. x \in Work /\ WorkInv(x)
  BY <1>0, <1>1, LedgerAssumption DEF Work, WorkStatus, WorkInv, OptRev, Live, Accepted_revision
<1>3. \A a \in allocs : a.work # w
  BY <1>1, NoClaim
<1> HIDE DEF x
<1> QED
  BY <1>1, <1>2, <1>3, WriteInv

\* Integration extends the chain by the finished revision.
LEMMA IntegrateInv ==
    ASSUME LedgerInv, NEW w \in Works, NEW rev \in Revs,
           Integrate(w, rev)
    PROVE  LedgerInv'
<1> DEFINE x == [works[w] EXCEPT !.integration = rev, !.status = "integrated"]
<1>0. works[w] \in Work /\ WorkInv(works[w])
  BY DEF LedgerInv, TypeOK
<1>1. /\ Write(w, x) /\ KeepRun /\ KeepProcesses
      /\ Finished_revision(w, rev) /\ ~Live(w)
  BY DEF Integrate, IntegrateReady, IntegrateCommit, Finished_revision
<1>2. x \in Work /\ WorkInv(x)
  BY <1>0, <1>1, LedgerAssumption DEF Work, WorkStatus, WorkInv, OptRev, Live, Finished_revision, Accepted_revision
<1>3. \A a \in allocs : a.work # w
  BY <1>1, NoClaim
<1> HIDE DEF x
<1> QED
  BY <1>1, <1>2, <1>3, WriteInv

\* A disposition leaves custody alone and is refused for integrated work.
LEMMA DispositionInv ==
    ASSUME LedgerInv, NEW w \in Works, NEW watching \in BOOLEAN,
           Disposition(w, watching)
    PROVE  LedgerInv'
<1> DEFINE x == [works[w] EXCEPT
                  !.status = IF watching THEN "watching" ELSE "blocked"]
<1>0. works[w] \in Work /\ WorkInv(works[w])
  BY DEF LedgerInv, TypeOK
<1>1. /\ Write(w, x) /\ KeepRun /\ KeepProcesses
      /\ ~Live(w) /\ works[w].status # "integrated"
  BY DEF Disposition, DispositionReady, DispositionCommit
<1>2. x \in Work /\ WorkInv(x)
  BY <1>0, <1>1 DEF Work, WorkStatus, WorkInv, Live
<1>3. \A a \in allocs : a.work # w
  BY <1>1, NoClaim
<1> HIDE DEF x
<1> QED
  BY <1>1, <1>2, <1>3, WriteInv

\* Another turn reopens the last attempt of an unfinished work.
LEMMA FollowupInv ==
    ASSUME LedgerInv, NEW w \in Works,
           Begin_followup(w)
    PROVE  LedgerInv'
<1> DEFINE x == [works[w] EXCEPT
                  !.attempt.ended = FALSE,
                  !.status = IF Continuation_finishes(w) THEN "accepted"
                             ELSE "running"]
<1>0. works[w] \in Work /\ WorkInv(works[w])
  BY DEF LedgerInv, TypeOK
<1>1. /\ Write(w, x) /\ KeepRun /\ KeepProcesses
      /\ ~Live(w)
      /\ works[w].status \in {"accepted", "corrections", "interrupted"}
  BY DEF Begin_followup
<1>2. x \in Work /\ WorkInv(x)
  BY <1>0, <1>1 DEF Work, WorkStatus, WorkInv, Attempt
<1>3. \A a \in allocs : a.work # w
  BY <1>1, NoClaim
<1> HIDE DEF x
<1> QED
  BY <1>1, <1>2, <1>3, WriteInv

\* Reconciliation fences the prior attempt; what it keeps of the custody chain
\* it keeps together, and a reopened integration moves to prior completions.
LEMMA ReconcileInv ==
    ASSUME LedgerInv, NEW w \in Works, NEW source \in Revs,
           NEW changed \in BOOLEAN, Reconcile(w, source, changed)
    PROVE  LedgerInv'
<1> DEFINE old == works[w]
           base == [old EXCEPT !.workspace = TRUE, !.required = FALSE,
                               !.attempt = NoAttempt, !.asks = FALSE,
                               !.paused = FALSE]
           kept == [base EXCEPT !.status = IF old.review.accepted
                                           THEN "accepted" ELSE "admitted"]
           cleared == [base EXCEPT !.artifact = NoArtifact,
                         !.review = NoReview, !.finish = NoRev,
                         !.status = "admitted"]
           reopened == [cleared EXCEPT !.integration = NoRev,
                          !.prior = @ \cup Completion(old)]
           x == IF Terminal_correction(w) THEN reopened
                ELSE IF changed \/ (/\ old.artifact.rev # NoRev
                                    /\ old.artifact.rev # source)
                THEN cleared ELSE kept
<1>0. old \in Work /\ WorkInv(old)
  BY DEF LedgerInv, TypeOK
<1>1. Write(w, x) /\ KeepRun /\ KeepProcesses
  BY DEF Reconcile, ReconcileCommit
<1>2. IF Terminal_correction(w) THEN ~Live(w)
      ELSE ~Owner_alive(w) /\ old.status \notin {"integrated", "finished"}
  BY DEF Reconcile, ReconcileReady
<1>3. base \in Work /\ kept \in Work /\ cleared \in Work
  BY <1>0, EmptyTypes DEF Work, WorkStatus, OptRev
<1>4. reopened \in Work
  <2>1. cleared.prior \cup Completion(old) \in SUBSET Revs
    BY <1>0, <1>3 DEF Work, OptRev, Completion
  <2>2. NoRev \in OptRev
    BY DEF OptRev
  <2> HIDE DEF cleared
  <2> QED
    BY <1>3, <2>1, <2>2 DEF Work
<1>5. WorkInv(reopened)
  BY <1>0, EmptyTypes DEF Work, WorkInv, NoAttempt, NoReview
<1>6. ~Terminal_correction(w) => old.integration = NoRev
  BY <1>0, <1>2 DEF WorkInv
<1>7. ~Terminal_correction(w) => WorkInv(cleared)
  BY <1>0, <1>6, EmptyTypes DEF Work, WorkInv, NoAttempt, NoReview
<1>8. ~Terminal_correction(w) => WorkInv(kept)
  BY <1>0, <1>6, EmptyTypes DEF Work, WorkInv, NoAttempt
<1>9. x \in Work /\ WorkInv(x)
  BY <1>3, <1>4, <1>5, <1>7, <1>8
<1>10. \A a \in allocs : a.work # w
  BY <1>2, NoClaim
<1> HIDE DEF x
<1> QED
  BY <1>1, <1>9, <1>10, WriteInv

\* Completion changes only the run's status.
LEMMA CompleteInv == ASSUME LedgerInv, Complete PROVE LedgerInv'
  BY DEF LedgerInv, TypeOK, AllocationKeepsClaim, OneAllocation, Complete,
         CompleteCommit, KeepProcesses, RunStatus, WorkInv

------------------------------------------------------------------------------
(* Attempts *)

\* A claim is made where no allocation runs, and is the newest attempt.
LEMMA BeginInv ==
    ASSUME LedgerInv, NEW w \in Works, NEW r \in alive, Begin_work(w, r)
    PROVE  LedgerInv'
<1> DEFINE claim == [id |-> nextAttempt, router |-> r, ended |-> FALSE]
           x == [works[w] EXCEPT !.attempt = claim, !.status = "allocating",
                                 !.asks = FALSE]
           new == [work |-> w, attempt |-> nextAttempt, by |-> r,
                   finishing |-> Continuation_finishes(w)]
<1>0. works[w] \in Work /\ WorkInv(works[w]) /\ r \in Routers
        /\ nextAttempt \in Nat
  BY DEF LedgerInv, TypeOK
<1>1. /\ Write(w, x) /\ KeepRun
      /\ nextAttempt' = nextAttempt + 1
      /\ allocs' = allocs \cup {new}
      /\ UNCHANGED <<delegates, stops, drain, alive>>
      /\ ~Owner_alive(w)
      /\ works[w].status # "integrated" /\ works[w].status # "finished"
  BY DEF Begin_work, BeginReady, BeginCommit
<1>2. claim \in Attempt
  BY <1>0 DEF Attempt
<1>3. x \in Work
  BY <1>0, <1>2 DEF Work, WorkStatus
<1>4. WorkInv(x)
  BY <1>0, <1>1 DEF Work, WorkInv
<1>5. works' \in [Works -> Work] /\ \A v \in Works : WorkInv(works'[v])
  BY <1>1, <1>3, <1>4, WriteWorks
<1>6. new \in Alloc
  <2>1. Continuation_finishes(w) \in BOOLEAN
    BY Zenon DEF Continuation_finishes
  <2> QED
    BY <1>0, <2>1 DEF Alloc
<1>7. TypeOK'
  BY <1>0, <1>1, <1>5, <1>6 DEF LedgerInv, TypeOK, KeepRun
<1>8. \A a \in allocs : a.work # w
  BY <1>1, NoClaim
<1>9. OneAllocation'
  BY <1>1, <1>8 DEF LedgerInv, OneAllocation
<1>10. AllocationKeepsClaim'
  <2>2. works \in [Works -> Work] /\ works' = [works EXCEPT ![w] = x]
    BY <1>1 DEF LedgerInv, TypeOK, Write
  <2>3. ASSUME NEW a \in allocs
        PROVE  /\ a.by \in alive'
               /\ works'[a.work].attempt =
                    [id |-> a.attempt, router |-> a.by, ended |-> FALSE]
               /\ works'[a.work].status = "allocating"
    BY <1>1, <1>8, <2>2 DEF LedgerInv, TypeOK, Alloc, AllocationKeepsClaim
  <2>4. /\ new.by \in alive'
        /\ works'[new.work].attempt =
             [id |-> new.attempt, router |-> new.by, ended |-> FALSE]
        /\ works'[new.work].status = "allocating"
    BY <1>0, <1>1, <2>2 DEF Work
  <2> HIDE DEF new
  <2> QED
    BY <1>1, <2>3, <2>4 DEF AllocationKeepsClaim
<1> QED
  BY <1>5, <1>7, <1>9, <1>10 DEF LedgerInv

\* When an allocation ends, no other one runs for its work, so the record it
\* writes disturbs nobody's claim.
LEMMA AllocationEnds ==
    ASSUME LedgerInv, NEW b \in allocs, NEW x \in Work, WorkInv(x),
           Write(b.work, x), allocs' = allocs \ {b}, KeepRun,
           UNCHANGED <<nextAttempt, delegates, stops, drain, alive>>
    PROVE  LedgerInv'
<1>1. b.work \in Works
  BY DEF LedgerInv, TypeOK, Alloc
<1>2. works' \in [Works -> Work] /\ \A v \in Works : WorkInv(works'[v])
  BY <1>1, WriteWorks
<1>3. TypeOK'
  BY <1>2 DEF LedgerInv, TypeOK, KeepRun
<1>4. OneAllocation' /\ \A a \in allocs' : a \in allocs /\ a.work # b.work
  BY DEF LedgerInv, OneAllocation
<1>5. works \in [Works -> Work] /\ works' = [works EXCEPT ![b.work] = x]
  BY DEF LedgerInv, TypeOK, Write
<1>6. AllocationKeepsClaim'
  BY <1>4, <1>5 DEF LedgerInv, TypeOK, Alloc, AllocationKeepsClaim
<1> QED
  BY <1>2, <1>3, <1>4, <1>6 DEF LedgerInv

\* The record of a work that is being allocated for.
LEMMA Allocating ==
    ASSUME LedgerInv, NEW b \in allocs
    PROVE  /\ b.work \in Works /\ works[b.work] \in Work
           /\ WorkInv(works[b.work])
           /\ works[b.work].attempt.id = b.attempt
           /\ works[b.work].attempt.ended = FALSE
           /\ works[b.work].status = "allocating"
           /\ works[b.work].attempt \in Attempt
           /\ b.finishing \in BOOLEAN
<1>1. b \in Alloc /\ works[b.work].attempt =
          [id |-> b.attempt, router |-> b.by, ended |-> FALSE]
  BY DEF LedgerInv, TypeOK, AllocationKeepsClaim
<1>2. b.work \in Works /\ b.finishing \in BOOLEAN
  BY <1>1 DEF Alloc
<1>3. works[b.work] \in Work /\ WorkInv(works[b.work])
  BY <1>2 DEF LedgerInv, TypeOK
<1> QED
  BY <1>1, <1>2, <1>3 DEF LedgerInv, AllocationKeepsClaim, Work

\* A failed allocation ends its claim.
LEMMA AllocationFailsInv ==
    ASSUME LedgerInv, NEW b \in allocs, AllocationFails(b) PROVE LedgerInv'
<1> DEFINE x == [works[b.work] EXCEPT !.attempt.ended = TRUE,
                                      !.status = "interrupted"]
<1>0. /\ works[b.work] \in Work /\ WorkInv(works[b.work])
      /\ works[b.work].attempt.ended = FALSE
      /\ works[b.work].status = "allocating"
      /\ works[b.work].attempt \in Attempt
      /\ b.finishing \in BOOLEAN
  BY Allocating
<1>1. /\ Write(b.work, x) /\ allocs' = allocs \ {b} /\ KeepRun
      /\ UNCHANGED <<nextAttempt, delegates, stops, drain, alive>>
  BY Allocating DEF AllocationFails
<1>2. x \in Work /\ WorkInv(x)
  BY <1>0 DEF Work, WorkStatus, Attempt, WorkInv
<1> HIDE DEF x
<1> QED
  BY <1>1, <1>2, AllocationEnds

\* An allocation that returns starts the turn, or ends its claim when the run
\* was suspended meanwhile.
LEMMA AllocationReturnsInv ==
    ASSUME LedgerInv, NEW b \in allocs, AllocationReturns(b) PROVE LedgerInv'
<1> DEFINE work == [works[b.work] EXCEPT !.workspace = TRUE]
           y == [work EXCEPT !.attempt.ended = TRUE, !.status = "interrupted"]
           z == [work EXCEPT !.status = IF b.finishing THEN "accepted"
                                        ELSE "running"]
           x == IF runStatus # "running" \/ phase # "implementation"
                THEN y ELSE z
<1>0. /\ works[b.work] \in Work /\ WorkInv(works[b.work])
      /\ works[b.work].attempt.ended = FALSE
      /\ works[b.work].status = "allocating"
      /\ works[b.work].attempt \in Attempt
      /\ b.finishing \in BOOLEAN
  BY Allocating
<1>1. /\ Write(b.work, x) /\ allocs' = allocs \ {b} /\ KeepRun
      /\ UNCHANGED <<nextAttempt, delegates, stops, drain, alive>>
  BY Allocating DEF AllocationReturns
<1>2. y \in Work /\ WorkInv(y)
  BY <1>0 DEF Work, WorkStatus, Attempt, WorkInv
<1>3. z \in Work /\ WorkInv(z)
  BY <1>0 DEF Work, WorkStatus, Attempt, WorkInv
<1>4. x \in Work /\ WorkInv(x)
  BY <1>2, <1>3
<1> HIDE DEF x
<1> QED
  BY <1>1, <1>4, AllocationEnds

\* Closing open sub-sessions keeps the two queues well typed.
LEMMA CloseTypes ==
    ASSUME LedgerInv, NEW ds \in SUBSET delegates, CloseDelegates(ds)
    PROVE  stops' \subseteq Works /\ delegates' \subseteq LiveDelegate
  BY DEF LedgerInv, TypeOK, CloseDelegates, LiveDelegate

\* An ended attempt interrupts a running work and leaves the others' status.
LEMMA EndedKeeps ==
    ASSUME NEW x \in Work, WorkInv(x)
    PROVE  Ended(x) \in Work /\ WorkInv(Ended(x))
  BY DEF Ended, Work, WorkStatus, Attempt, WorkInv

\* A turn that returns ends its attempt and may close its child.
LEMMA TurnEndsInv ==
    ASSUME LedgerInv, NEW w \in Works, TurnEnds(w) PROVE LedgerInv'
<1> DEFINE x == Ended(works[w])
           ds == IF works[w].status \in {"finished", "integrated"}
                 THEN {d \in delegates : d.work = w
                                         /\ d.by = works[w].attempt.router}
                 ELSE {}
<1>0. works[w] \in Work /\ WorkInv(works[w])
  BY DEF LedgerInv, TypeOK
<1>1. /\ Write(w, x) /\ CloseDelegates(ds) /\ KeepRun
      /\ UNCHANGED <<nextAttempt, allocs, drain, alive>>
      /\ works[w].status # "allocating"
  BY DEF TurnEnds, TurnRuns
<1>2. x \in Work /\ WorkInv(x)
  BY <1>0, EndedKeeps
<1>3. \A a \in allocs : a.work # w
  BY <1>1, NoClaim
<1>4. ds \in SUBSET delegates
  OBVIOUS
<1> HIDE DEF x, ds
<1>5. stops' \subseteq Works /\ delegates' \subseteq LiveDelegate
  BY <1>1, <1>4, CloseTypes
<1> QED
  BY <1>1, <1>2, <1>3, <1>5, WriteStopsInv

\* The reaper ends the attempt of a dead router.
LEMMA ReapOrphanInv ==
    ASSUME LedgerInv, NEW w \in Works, ReapOrphan(w) PROVE LedgerInv'
<1> DEFINE x == Ended(works[w])
<1>0. works[w] \in Work /\ WorkInv(works[w])
  BY DEF LedgerInv, TypeOK
<1>1. Write(w, x) /\ KeepRun /\ KeepProcesses /\ ~Owner_alive(w)
  BY DEF ReapOrphan
<1>2. x \in Work /\ WorkInv(x)
  BY <1>0, EndedKeeps
<1>3. \A a \in allocs : a.work # w
  BY <1>1, NoClaim
<1> HIDE DEF x
<1> QED
  BY <1>1, <1>2, <1>3, WriteInv

\* The client's stop touches the pause flag and closes sub-sessions.
LEMMA ChildStopInv ==
    ASSUME LedgerInv, NEW r \in Routers, NEW w \in Works, ChildStop(r, w)
    PROVE  LedgerInv'
<1> DEFINE x == [works[w] EXCEPT !.paused = TRUE]
           ds == {d \in delegates : d.work = w /\ d.by = r}
<1>0. works[w] \in Work /\ WorkInv(works[w])
  BY DEF LedgerInv, TypeOK
<1>1. /\ Write(w, x) /\ CloseDelegates(ds) /\ KeepRun
      /\ UNCHANGED <<nextAttempt, allocs, drain, alive>>
  BY DEF ChildStop
<1>2. x \in Work /\ WorkInv(x)
  BY <1>0 DEF Work, WorkInv
<1>3. x.attempt = works[w].attempt /\ x.status = works[w].status
  BY <1>0 DEF Work
<1>4. ds \in SUBSET delegates
  OBVIOUS
<1> HIDE DEF x, ds
<1>5. stops' \subseteq Works /\ delegates' \subseteq LiveDelegate
  BY <1>1, <1>4, CloseTypes
<1> QED
  BY <1>1, <1>2, <1>3, <1>5, WriteStopsInv

\* A refused stop interrupts a stopped, unfinished work.
LEMMA StopRefusedInv ==
    ASSUME LedgerInv, NEW w \in Works, Planner_stop_refused(w)
    PROVE  LedgerInv'
<1> DEFINE x == [works[w] EXCEPT !.status = "interrupted", !.asks = FALSE]
<1>0. works[w] \in Work /\ WorkInv(works[w])
  BY DEF LedgerInv, TypeOK
<1>1. /\ Write(w, x) /\ KeepRun /\ KeepProcesses
      /\ ~Live(w) /\ works[w].status # "integrated"
  BY DEF Planner_stop_refused
<1>2. x \in Work /\ WorkInv(x)
  BY <1>0, <1>1 DEF Work, WorkStatus, WorkInv
<1>3. \A a \in allocs : a.work # w
  BY <1>1, NoClaim
<1> HIDE DEF x
<1> QED
  BY <1>1, <1>2, <1>3, WriteInv

\* Requiring a reconciliation changes one flag of a record.
LEMMA MarkedKeeps ==
    ASSUME NEW x \in Work
    PROVE  /\ Marked(x) \in Work
           /\ WorkInv(x) => WorkInv(Marked(x))
           /\ Marked(x).attempt = x.attempt
           /\ Marked(x).status = x.status
  BY DEF Marked, Work, WorkInv

\* A handoff changes the flags of a work whose child runs.
LEMMA HandoffInv ==
    ASSUME LedgerInv, NEW w \in Works, NEW asks \in BOOLEAN,
           Record_handoff(w, asks)
    PROVE  LedgerInv'
<1> DEFINE y == [works[w] EXCEPT !.asks = asks]
           x == IF asks THEN Marked(y) ELSE y
<1>0. works[w] \in Work /\ WorkInv(works[w])
  BY DEF LedgerInv, TypeOK
<1>1. Write(w, x) /\ KeepRun /\ KeepProcesses
  BY DEF Record_handoff
<1>2. /\ y \in Work /\ WorkInv(y)
      /\ y.attempt = works[w].attempt /\ y.status = works[w].status
  BY <1>0 DEF Work, WorkInv
<1> HIDE DEF y
<1>3. /\ x \in Work /\ WorkInv(x)
      /\ x.attempt = works[w].attempt /\ x.status = works[w].status
  BY <1>2, MarkedKeeps
<1> HIDE DEF x
<1> QED
  BY <1>1, <1>3, WriteInv

------------------------------------------------------------------------------
(* The person, the client and the processes *)

\* A step that changes neither works nor allocations nor live processes keeps
\* the invariant if it keeps the types.
LEMMA OtherInv ==
    ASSUME LedgerInv, TypeOK', UNCHANGED <<works, allocs, alive>>
    PROVE  LedgerInv'
  BY DEF LedgerInv, AllocationKeepsClaim, OneAllocation, WorkInv

\* A person's prompt to a child resumes the run and unpauses the work.
LEMMA ChildPromptInv ==
    ASSUME LedgerInv, NEW w \in Works, NEW r \in Routers, ChildPrompt(r, w)
    PROVE  LedgerInv'
<1> DEFINE x == [works[w] EXCEPT !.paused = FALSE]
<1>0. works[w] \in Work /\ WorkInv(works[w])
  BY DEF LedgerInv, TypeOK
<1>1. /\ Write(w, x) /\ UNCHANGED <<allocs, alive>>
      /\ runStatus' \in RunStatus
      /\ UNCHANGED <<phase, exec, releases, nextAttempt, delegates, stops, drain>>
  BY DEF ChildPrompt, KeepProcesses, HumanResumes, RunStatus, LedgerInv, TypeOK
<1>2. /\ x \in Work /\ WorkInv(x)
      /\ x.attempt = works[w].attempt /\ x.status = works[w].status
  BY <1>0 DEF Work, WorkInv
<1> HIDE DEF x
<1>3. /\ works' \in [Works -> Work]
      /\ \A v \in Works : WorkInv(works'[v])
      /\ AllocationKeepsClaim'
      /\ OneAllocation'
  BY <1>1, <1>2, WriteClaims
<1>4. TypeOK'
  BY <1>1, <1>3 DEF LedgerInv, TypeOK
<1> QED
  BY <1>3, <1>4 DEF LedgerInv

\* A command changes the run and may require reconciliations.
LEMMA UserCommandInv ==
    ASSUME LedgerInv, NEW r \in Routers, NEW p \in Phases,
           NEW queued \in BOOLEAN, User_command(r, p, queued)
    PROVE  LedgerInv'
<1>1. /\ UNCHANGED <<allocs, alive, releases, nextAttempt, delegates, stops, drain>>
      /\ phase' \in Phases /\ exec' \in BOOLEAN /\ runStatus' \in RunStatus
  BY DEF User_command, KeepProcesses, RunStatus, LedgerInv, TypeOK
<1>2. works \in [Works -> Work] /\ \A w \in Works : WorkInv(works[w])
  BY DEF LedgerInv, TypeOK
<1>3. works' = works \/ works' = [w \in Works |-> Marked(works[w])]
  BY DEF User_command
<1>4. /\ works' \in [Works -> Work]
      /\ \A w \in Works : /\ WorkInv(works'[w])
                          /\ works'[w].attempt = works[w].attempt
                          /\ works'[w].status = works[w].status
  <2>1. CASE works' = works
    BY <1>2, <2>1
  <2>2. CASE works' = [w \in Works |-> Marked(works[w])]
    <3>1. \A w \in Works : works[w] \in Work
      BY <1>2
    <3>2. \A w \in Works : /\ Marked(works[w]) \in Work
                           /\ WorkInv(Marked(works[w]))
                           /\ Marked(works[w]).attempt = works[w].attempt
                           /\ Marked(works[w]).status = works[w].status
      BY <1>2, <3>1, MarkedKeeps
    <3> QED
      BY <2>2, <3>2
  <2> QED
    BY <1>3, <2>1, <2>2
<1>5. TypeOK'
  BY <1>1, <1>4 DEF LedgerInv, TypeOK
<1>6. AllocationKeepsClaim' /\ OneAllocation'
  BY <1>1, <1>4 DEF LedgerInv, TypeOK, Alloc, AllocationKeepsClaim,
                    OneAllocation
<1> QED
  BY <1>4, <1>5, <1>6 DEF LedgerInv

\* The remaining run controls and the drain change only the run.
LEMMA RunControlInv ==
    ASSUME LedgerInv, NEW r \in Routers,
           \/ \E human \in BOOLEAN, d \in Phases \cup {"none"} :
                 Observe_input(r, human, d)
           \/ \E plans \in BOOLEAN : Enqueue_parent_input(plans)
           \/ CloseSession(r)
           \/ RequestDrain(r) \/ StartDrain(r) \/ EndDrain(r)
           \/ \E w \in Works : StopDelivered(w)
    PROVE  LedgerInv'
<1>1. UNCHANGED <<works, allocs, alive, releases, nextAttempt>>
  BY DEF Observe_input, Enqueue_parent_input, CloseSession, RequestDrain,
         StartDrain, EndDrain, StopDelivered, KeepProcesses, KeepRun
<1>2. phase' \in Phases /\ exec' \in BOOLEAN /\ runStatus' \in RunStatus
  BY DEF Observe_input, Enqueue_parent_input, CloseSession, RequestDrain,
         StartDrain, EndDrain, StopDelivered, KeepProcesses, KeepRun,
         HumanResumes, RunStatus, Phases, LedgerInv, TypeOK
<1>3. drain' \in [Routers -> Drains]
  BY DEF Observe_input, Enqueue_parent_input, CloseSession, RequestDrain,
         StartDrain, EndDrain, StopDelivered, KeepProcesses, KeepRun,
         Drains, LedgerInv, TypeOK
<1>4. stops' \subseteq Works /\ delegates' \subseteq LiveDelegate
  <2>1. CASE CloseSession(r)
    BY <2>1, CloseTypes DEF CloseSession
  <2>2. CASE ~CloseSession(r)
    BY <2>2 DEF Observe_input, Enqueue_parent_input, RequestDrain,
         StartDrain, EndDrain, StopDelivered, KeepProcesses, KeepRun,
         LedgerInv, TypeOK
  <2> QED BY <2>1, <2>2
<1>5. TypeOK'
  BY <1>1, <1>2, <1>3, <1>4 DEF LedgerInv, TypeOK
<1> QED
  BY <1>1, <1>5, OtherInv

\* Opening or closing a sub-session leaves the record alone.
LEMMA DelegateInv ==
    ASSUME LedgerInv,
           \/ \E w \in Works : OpenDelegate(w)
           \/ \E d \in delegates : CloseDelegate(d)
    PROVE  LedgerInv'
<1>1. /\ UNCHANGED <<works, nextAttempt, allocs, drain, alive>>
      /\ KeepRun
  BY DEF OpenDelegate, CloseDelegate
<1>2. stops' \subseteq Works /\ delegates' \subseteq LiveDelegate
  <2>1. ASSUME NEW w \in Works, OpenDelegate(w)
        PROVE  stops' \subseteq Works /\ delegates' \subseteq LiveDelegate
    <3>1. works[w].attempt \in Attempt /\ works[w].attempt.router \in Routers
      BY <2>1 DEF OpenDelegate, TurnRuns, Owner_alive, LedgerInv, TypeOK, Work
    <3>2. Delegate(w) \in LiveDelegate
      BY <3>1 DEF Delegate, LiveDelegate, Attempt
    <3> QED
      BY <2>1, <3>2 DEF OpenDelegate, LedgerInv, TypeOK
  <2>2. ASSUME NEW d \in delegates, CloseDelegate(d)
        PROVE  stops' \subseteq Works /\ delegates' \subseteq LiveDelegate
    BY <2>2, CloseTypes DEF CloseDelegate
  <2> QED BY <2>1, <2>2
<1>3. TypeOK'
  BY <1>1, <1>2 DEF LedgerInv, TypeOK, KeepRun
<1> QED
  BY <1>1, <1>3, OtherInv

\* A dead router's allocations die with it.
LEMMA RouterCrashInv ==
    ASSUME LedgerInv, NEW r \in Routers, RouterCrash(r) PROVE LedgerInv'
<1>1. TypeOK'
  BY DEF RouterCrash, KeepRun, Drains, LedgerInv, TypeOK
<1>2. AllocationKeepsClaim' /\ OneAllocation'
  BY DEF RouterCrash, LedgerInv, TypeOK, Alloc, AllocationKeepsClaim,
         OneAllocation
<1> QED
  BY <1>1, <1>2 DEF LedgerInv, RouterCrash, WorkInv

------------------------------------------------------------------------------
(* The theorems *)

\* Every step of the ledger keeps the invariant.
THEOREM NextInv == LedgerInv /\ [LedgerNext]_ledgerVars => LedgerInv'
<1> SUFFICES ASSUME LedgerInv, [LedgerNext]_ledgerVars PROVE LedgerInv'
  OBVIOUS
<1>1. CASE UNCHANGED ledgerVars
  BY <1>1 DEF ledgerVars, LedgerInv, TypeOK, AllocationKeepsClaim,
              OneAllocation, WorkInv
<1>2. CASE LedgerNext
  <2> PICK r \in alive : Operation(r) \/ Mutation(r) \/ Event(r)
    BY <1>2 DEF LedgerNext
  <2>0. r \in Routers
    BY DEF LedgerInv, TypeOK
  <2>1. CASE Operation(r)
    <3>1. ASSUME NEW rev \in Revs, NEW b \in BOOLEAN
          PROVE  [rev |-> rev, unresolved |-> b] \in Artifact
      BY DEF Artifact, OptRev
    <3> QED
      BY <2>0, <2>1, <3>1, CompleteInv, RetireInv, BeginInv, ReconcileInv,
         ArtifactInv, ReviewInv, FinishedInv, FinalizeInv, IntegrateInv,
         DispositionInv DEF Operation
  <2>2. CASE Mutation(r)
    BY <2>0, <2>2, TurnEndsInv, ReapOrphanInv, UserCommandInv, RunControlInv,
       AdmitInv,
       HandoffInv, FollowupInv, StopRefusedInv, ChildStopInv,
       ChildPromptInv, AllocationFailsInv, AllocationReturnsInv
       DEF Mutation
  <2>3. CASE Event(r)
    BY <2>0, <2>3, RunControlInv, DelegateInv, RouterCrashInv DEF Event
  <2> QED
    BY <2>1, <2>2, <2>3
<1> QED
  BY <1>1, <1>2

\* The invariant holds in every reachable state of the ledger.
THEOREM LedgerInvariant == LedgerSpec => []LedgerInv
  BY InitInv, NextInv, PTL DEF LedgerSpec

\* Every variable keeps its type.
THEOREM LedgerTypes == LedgerSpec => []TypeOK
<1>1. LedgerInv => TypeOK
  BY DEF LedgerInv
<1> QED
  BY <1>1, LedgerInvariant, PTL

\* The custody chain behind an integration receipt is never broken.
THEOREM Custody == LedgerSpec => []ChainOfCustody
<1>1. LedgerInv => ChainOfCustody
  BY DEF LedgerInv, ChainOfCustody, WorkInv, Live
<1> QED
  BY <1>1, LedgerInvariant, PTL

\* A finishing receipt always names the accepted, resolved artifact.
THEOREM FinishAccepted == LedgerSpec => []FinishIsAccepted
<1>1. LedgerInv => FinishIsAccepted
  BY DEF LedgerInv, FinishIsAccepted, WorkInv, Accepted_revision
<1> QED
  BY <1>1, LedgerInvariant, PTL

\* The status of a work and the state of its attempt agree.
THEOREM StatusAttempt == LedgerSpec => []StatusMatchesAttempt
<1>1. LedgerInv => StatusMatchesAttempt
  BY DEF LedgerInv, StatusMatchesAttempt, WorkInv, Live
<1> QED
  BY <1>1, LedgerInvariant, PTL

\* No allocation ever finds its claim lost.
THEOREM ClaimsKept == LedgerSpec => []AllocationKeepsClaim
<1>1. LedgerInv => AllocationKeepsClaim
  BY DEF LedgerInv
<1> QED
  BY <1>1, LedgerInvariant, PTL

------------------------------------------------------------------------------
(* What one step may do to one work: the action properties of the ledger, as  *)
(* conditions on the record y that the step writes for w.                      *)

\* Only the live attempt of a live router puts a new artifact on the record.
Fenced(w, y) ==
    y.artifact \notin {works[w].artifact, NoArtifact} =>
        Owner_alive(w) /\ y.attempt = works[w].attempt

\* What was integrated stays on the record or among its prior completions.
Retained(w, y) ==
    \A r \in Revs : r \in works[w].prior \cup {works[w].integration} =>
                    r \in y.prior \cup {y.integration}

\* A turn starts on a run and on a work that allow it.
Authorized(w, y) ==
    (/\ ~y.attempt.ended
     /\ y.attempt.id # works[w].attempt.id \/ works[w].attempt.ended) =>
        /\ Mutable /\ phase = "implementation"
        /\ ~works[w].paused /\ ~works[w].required
        /\ ~Owner_alive(w)
        /\ Dependencies_ready(w)

\* An allocation that ends in a turn ends on a run that is not suspended.
Dispatched(w, y) ==
    (/\ works[w].status = "allocating" /\ y.status # "allocating"
     /\ ~y.attempt.ended) =>
        runStatus = "running" /\ phase = "implementation"

\* A receipt is written only for a revision whose releases allow it.
Admissible(w, y) ==
    y.integration \in {works[w].integration, NoRev}
        \/ Integration_allowed(w, y.integration)

\* A second invariant, which only the action properties need: nothing marks a
\* work while it allocates, and a work not yet admitted has no history.
WorkMore(x) ==
    /\ x.status = "allocating" => ~x.required
    /\ x.status = "absent" => x.prior = {}

StepInv ==
    /\ phase = "implementation" => exec
    /\ \A w \in Works : WorkMore(works[w])

WorkStep(w, y) ==
    /\ Fenced(w, y)
    /\ Retained(w, y)
    /\ Authorized(w, y)
    /\ Dispatched(w, y)
    /\ Admissible(w, y)
    /\ WorkMore(y)

\* A record left alone satisfies all of them.
LEMMA SameStep ==
    ASSUME LedgerInv, StepInv, NEW w \in Works
    PROVE  WorkStep(w, works[w])
  BY DEF WorkStep, Fenced, Retained, Authorized, Dispatched, Admissible, StepInv

\* A step that writes one record is judged by that record.
LEMMA OneWorkStep ==
    ASSUME LedgerInv, StepInv, NEW w \in Works, NEW x, Write(w, x),
           WorkStep(w, x)
    PROVE  \A v \in Works : WorkStep(v, works'[v])
<1>1. works'[w] = x /\ \A v \in Works \ {w} : works'[v] = works[v]
  BY DEF LedgerInv, TypeOK, Write
<1> QED
  BY <1>1, SameStep

\* The receipts of w are kept by y.
Keeps(w, y) ==
    \/ y.prior = works[w].prior /\ y.integration = works[w].integration
    \/ y.prior = works[w].prior /\ works[w].integration = NoRev
    \/ y.prior = works[w].prior \cup Completion(works[w])

\* A step that reports no artifact, starts no turn and keeps the receipts, and
\* that leaves the status alone or takes the work to one outside allocation.
LEMMA QuietWork ==
    ASSUME StepInv, NEW w \in Works, NEW y,
           y.artifact \in {works[w].artifact, NoArtifact},
           Keeps(w, y),
           Admissible(w, y),
           y.attempt = works[w].attempt \/ y.attempt.ended,
           \/ /\ y.status = works[w].status
              /\ y.prior = works[w].prior
              /\ works[w].status = "allocating" => y.required = works[w].required
           \/ /\ y.status \notin {"absent", "allocating"}
              /\ works[w].status = "allocating" => y.attempt.ended
    PROVE  WorkStep(w, y)
<1>1. Retained(w, y)
  BY LedgerAssumption DEF Keeps, Retained, Completion
<1>2. Fenced(w, y) /\ Authorized(w, y) /\ Dispatched(w, y)
  BY DEF Fenced, Authorized, Dispatched
<1>3. WorkMore(y)
  BY DEF StepInv, WorkMore
<1> QED
  BY <1>1, <1>2, <1>3 DEF WorkStep

\* A work without an integration receipt: its status, or a live attempt, tells.
LEMMA NoReceipt ==
    ASSUME LedgerInv, NEW w \in Works, works[w].status # "integrated" \/ Live(w)
    PROVE  works[w].integration = NoRev
  BY DEF LedgerInv, WorkInv, Live

\* The parent's operations, and the child's finishing receipt.
LEMMA ParentStep ==
    ASSUME LedgerInv, StepInv, NEW w \in Works,
           \/ Retire(w)
           \/ \E b \in BOOLEAN : Disposition(w, b)
           \/ \E rev \in Revs, b \in BOOLEAN : ReviewArtifact(w, rev, b)
           \/ \E rev \in Revs : Finalize(w, rev) \/ Integrate(w, rev)
           \/ \E rev \in Revs, r \in Routers : Finished(w, r, rev)
    PROVE  \A v \in Works : WorkStep(v, works'[v])
<1>0. works[w] \in Work
  BY DEF LedgerInv, TypeOK
<1>1. ASSUME NEW y, Write(w, y),
             y.artifact = works[w].artifact, y.prior = works[w].prior,
             y.attempt = works[w].attempt, works[w].integration = NoRev,
             Admissible(w, y),
             y.status \notin {"absent", "allocating"},
             works[w].status # "allocating"
      PROVE  \A v \in Works : WorkStep(v, works'[v])
  <2>1. WorkStep(w, y)
    BY <1>1, QuietWork DEF Keeps, Admissible
  <2> QED
    BY <1>1, <2>1, OneWorkStep
<1>2. CASE Retire(w)
  <2> DEFINE y == [works[w] EXCEPT !.status = "retired", !.paused = TRUE,
                                   !.required = FALSE]
  <2>1. Write(w, y) /\ works[w].status # "integrated" /\ ~Live(w)
    BY <1>2 DEF Retire, RetireReady, RetireCommit
  <2>2. works[w].status # "allocating"
    BY <2>1 DEF LedgerInv, WorkInv, Live
  <2>3. /\ y.artifact = works[w].artifact /\ y.prior = works[w].prior
        /\ y.attempt = works[w].attempt /\ y.status = "retired"
        /\ y.integration = works[w].integration
    BY <1>0 DEF Work
  <2> HIDE DEF y
  <2> QED
    BY <1>1, <2>1, <2>2, <2>3, NoReceipt DEF Admissible
<1>3. ASSUME NEW b \in BOOLEAN, Disposition(w, b)
      PROVE  \A v \in Works : WorkStep(v, works'[v])
  <2> DEFINE y == [works[w] EXCEPT !.status = IF b THEN "watching" ELSE "blocked"]
  <2>1. Write(w, y) /\ works[w].status # "integrated" /\ ~Live(w)
    BY <1>3 DEF Disposition, DispositionReady, DispositionCommit
  <2>2. works[w].status # "allocating"
    BY <2>1 DEF LedgerInv, WorkInv, Live
  <2>3. /\ y.artifact = works[w].artifact /\ y.prior = works[w].prior
        /\ y.attempt = works[w].attempt /\ y.status \in {"watching", "blocked"}
        /\ y.integration = works[w].integration
    BY <1>0 DEF Work
  <2> HIDE DEF y
  <2> QED
    BY <1>1, <2>1, <2>2, <2>3, NoReceipt DEF Admissible
<1>4. ASSUME NEW rev \in Revs, NEW b \in BOOLEAN, ReviewArtifact(w, rev, b)
      PROVE  \A v \in Works : WorkStep(v, works'[v])
  <2> DEFINE y == [works[w] EXCEPT !.review = [rev |-> rev, accepted |-> b],
                      !.finish = NoRev, !.integration = NoRev,
                      !.status = IF b THEN "accepted" ELSE "corrections"]
  <2>1. Write(w, y) /\ works[w].status \in {"review-pending", "accepted", "corrections"}
    BY <1>4 DEF ReviewArtifact, ReviewReady, ReviewCommit
  <2>2. /\ y.artifact = works[w].artifact /\ y.prior = works[w].prior
        /\ y.attempt = works[w].attempt
        /\ y.status \in {"accepted", "corrections"} /\ y.integration = NoRev
    BY <1>0 DEF Work
  <2> HIDE DEF y
  <2> QED
    BY <1>1, <2>1, <2>2, NoReceipt DEF Admissible
<1>5. ASSUME NEW rev \in Revs, Write(w, [works[w] EXCEPT !.finish = rev, !.status = "finished"]),
             works[w].status \notin {"integrated", "allocating"} \/ (Live(w) /\ works[w].status # "allocating")
      PROVE  \A v \in Works : WorkStep(v, works'[v])
  <2> DEFINE y == [works[w] EXCEPT !.finish = rev, !.status = "finished"]
  <2>1. Write(w, y)
    BY <1>5
  <2>2. /\ y.artifact = works[w].artifact /\ y.prior = works[w].prior
        /\ y.attempt = works[w].attempt /\ y.status = "finished"
        /\ y.integration = works[w].integration
    BY <1>0 DEF Work
  <2> HIDE DEF y
  <2> QED
    BY <1>1, <1>5, <2>1, <2>2, NoReceipt DEF Admissible
<1>6. ASSUME NEW rev \in Revs, Finalize(w, rev)
      PROVE  \A v \in Works : WorkStep(v, works'[v])
  BY <1>5, <1>6 DEF Finalize, FinalizeReady, FinishCommit
<1>7. ASSUME NEW rev \in Revs, NEW r \in Routers, Finished(w, r, rev)
      PROVE  \A v \in Works : WorkStep(v, works'[v])
  BY <1>5, <1>7 DEF Finished, FinishedReady, FinishCommit, Require_worker
<1>8. ASSUME NEW rev \in Revs, Integrate(w, rev)
      PROVE  \A v \in Works : WorkStep(v, works'[v])
  <2> DEFINE y == [works[w] EXCEPT !.integration = rev, !.status = "integrated"]
  <2>1. /\ Write(w, y) /\ works[w].status \in {"finished", "watching"}
        /\ Integration_allowed(w, rev)
    BY <1>8 DEF Integrate, IntegrateReady, IntegrateCommit, Finished_revision
  <2>2. /\ y.artifact = works[w].artifact /\ y.prior = works[w].prior
        /\ y.attempt = works[w].attempt /\ y.status = "integrated"
        /\ y.integration = rev
    BY <1>0 DEF Work
  <2> HIDE DEF y
  <2> QED
    BY <1>1, <2>1, <2>2, NoReceipt DEF Admissible
<1> QED
  BY <1>2, <1>3, <1>4, <1>6, <1>7, <1>8

\* Admission writes the empty record over a work that was never admitted.
LEMMA AdmitStep ==
    ASSUME LedgerInv, StepInv, NEW w \in Works, Admit(w)
    PROVE  \A v \in Works : WorkStep(v, works'[v])
<1> DEFINE y == [AbsentWork EXCEPT !.status = "admitted"]
<1>1. Write(w, y) /\ works[w].status = "absent"
  BY DEF Admit, AdmitReady, AdmitCommit, Present
<1>2. /\ y.artifact = NoArtifact /\ y.prior = {} /\ y.attempt.ended
      /\ y.status = "admitted" /\ y.integration = NoRev
  BY DEF AbsentWork, NoAttempt
<1>3. works[w].prior = {} /\ works[w].integration = NoRev
  BY <1>1, NoReceipt DEF StepInv, WorkMore
<1> HIDE DEF y
<1>4. Keeps(w, y) /\ Admissible(w, y) /\ works[w].status # "allocating"
  BY <1>1, <1>2, <1>3 DEF Keeps, Admissible
<1>5. WorkStep(w, y)
  BY <1>2, <1>4, QuietWork
<1> QED
  BY <1>1, <1>5, OneWorkStep

\* A reconciliation gives the work no attempt and keeps its receipts.
LEMMA ReconcileStep ==
    ASSUME LedgerInv, StepInv, NEW w \in Works, NEW source \in Revs,
           NEW changed \in BOOLEAN, Reconcile(w, source, changed)
    PROVE  \A v \in Works : WorkStep(v, works'[v])
<1> DEFINE old == works[w]
           base == [old EXCEPT !.workspace = TRUE, !.required = FALSE,
                               !.attempt = NoAttempt, !.asks = FALSE,
                               !.paused = FALSE]
           kept == [base EXCEPT !.status = IF old.review.accepted
                                           THEN "accepted" ELSE "admitted"]
           cleared == [base EXCEPT !.artifact = NoArtifact,
                         !.review = NoReview, !.finish = NoRev,
                         !.status = "admitted"]
           reopened == [cleared EXCEPT !.integration = NoRev,
                          !.prior = @ \cup Completion(old)]
           y == IF Terminal_correction(w) THEN reopened
                ELSE IF changed \/ (/\ old.artifact.rev # NoRev
                                    /\ old.artifact.rev # source)
                THEN cleared ELSE kept
<1>0. old \in Work
  BY DEF LedgerInv, TypeOK
<1>1. Write(w, y)
  BY DEF Reconcile, ReconcileCommit
<1>2. /\ base.attempt = NoAttempt /\ base.prior = old.prior
      /\ base.artifact = old.artifact /\ base.integration = old.integration
  BY <1>0 DEF Work
<1>3. /\ kept.attempt = NoAttempt /\ kept.prior = old.prior
      /\ kept.artifact = old.artifact /\ kept.integration = old.integration
      /\ kept.status \in {"accepted", "admitted"}
  BY <1>0 DEF Work
<1>4. /\ cleared.attempt = NoAttempt /\ cleared.prior = old.prior
      /\ cleared.artifact = NoArtifact /\ cleared.integration = old.integration
      /\ cleared.status = "admitted"
  BY <1>0 DEF Work
<1>5. /\ reopened.attempt = NoAttempt
      /\ reopened.prior = old.prior \cup Completion(old)
      /\ reopened.artifact = NoArtifact /\ reopened.status = "admitted"
      /\ reopened.integration = NoRev
  BY <1>0 DEF Work
<1> HIDE DEF base, kept, cleared, reopened
<1>6. /\ y.attempt.ended /\ y.artifact \in {old.artifact, NoArtifact}
      /\ y.status \in {"accepted", "admitted"} /\ Keeps(w, y) /\ Admissible(w, y)
  BY <1>3, <1>4, <1>5 DEF Keeps, Admissible, NoAttempt
<1> HIDE DEF y
<1>7. WorkStep(w, y)
  BY <1>6, QuietWork
<1> QED
  BY <1>1, <1>7, OneWorkStep

\* The worker's packet is the only new artifact: its attempt lives, in the
\* router that reports it.
LEMMA ArtifactStep ==
    ASSUME LedgerInv, StepInv, NEW w \in Works, NEW r \in alive,
           NEW packet \in Artifact, ReportArtifact(w, r, packet)
    PROVE  \A v \in Works : WorkStep(v, works'[v])
<1> DEFINE x == [works[w] EXCEPT !.artifact = packet,
                        !.review = NoReview, !.finish = NoRev,
                        !.integration = NoRev, !.status = "review-pending"]
<1>0. works[w] \in Work
  BY DEF LedgerInv, TypeOK
<1>1. /\ Live(w) /\ works[w].attempt.router = r
      /\ works[w].status # "allocating"
      /\ Write(w, IF works[w].artifact = packet THEN works[w] ELSE x)
  BY DEF ReportArtifact, ArtifactReady, ArtifactCommit, Require_worker
<1>2. Owner_alive(w) /\ works[w].integration = NoRev
  BY <1>1, NoReceipt DEF Owner_alive
<1>3. /\ x.attempt = works[w].attempt /\ x.prior = works[w].prior
      /\ x.status = "review-pending" /\ x.integration = NoRev
  BY <1>0 DEF Work
<1> HIDE DEF x
<1>4. WorkStep(w, x)
  <2>1. Fenced(w, x)
    BY <1>2, <1>3 DEF Fenced
  <2>2. Retained(w, x)
    BY <1>2, <1>3, LedgerAssumption DEF Retained
  <2>3. Authorized(w, x) /\ Dispatched(w, x) /\ Admissible(w, x) /\ WorkMore(x)
    BY <1>1, <1>3 DEF Authorized, Dispatched, Admissible, WorkMore, Live
  <2> QED
    BY <2>1, <2>2, <2>3 DEF WorkStep
<1>5. WorkStep(w, IF works[w].artifact = packet THEN works[w] ELSE x)
  BY <1>4, SameStep
<1> QED
  BY <1>1, <1>5, OneWorkStep

\* A claim is made on a run that executes and a work that may be dispatched.
LEMMA BeginStep ==
    ASSUME LedgerInv, StepInv, NEW w \in Works, NEW r \in alive, Begin_work(w, r)
    PROVE  \A v \in Works : WorkStep(v, works'[v])
<1> DEFINE y == [works[w] EXCEPT
                    !.attempt = [id |-> nextAttempt, router |-> r,
                                 ended |-> FALSE],
                    !.status = "allocating", !.asks = FALSE]
<1>0. works[w] \in Work
  BY DEF LedgerInv, TypeOK
<1>1. /\ Write(w, y) /\ Executing /\ Dispatchable(w) /\ ~Owner_alive(w)
  BY DEF Begin_work, BeginReady, BeginCommit
<1>2. /\ y.artifact = works[w].artifact /\ y.prior = works[w].prior
      /\ y.integration = works[w].integration
      /\ y.status = "allocating" /\ y.required = works[w].required
  BY <1>0 DEF Work
<1> HIDE DEF y
<1>3. WorkStep(w, y)
  BY <1>1, <1>2 DEF WorkStep, Fenced, Retained, Authorized, Dispatched,
                    Admissible,
                    WorkMore, Executing, Mutable, Dispatchable
<1> QED
  BY <1>1, <1>3, OneWorkStep

\* Another turn of an attempt that ended needs the same of the work.
LEMMA FollowupStep ==
    ASSUME LedgerInv, StepInv, NEW w \in Works, Begin_followup(w)
    PROVE  \A v \in Works : WorkStep(v, works'[v])
<1> DEFINE y == [works[w] EXCEPT
                    !.attempt.ended = FALSE,
                    !.status = IF Continuation_finishes(w) THEN "accepted"
                               ELSE "running"]
<1>0. works[w] \in Work
  BY DEF LedgerInv, TypeOK
<1>1. /\ Write(w, y) /\ Mutable /\ phase = "implementation"
      /\ Dispatchable(w) /\ ~Live(w)
      /\ works[w].status # "allocating"
  BY DEF Begin_followup
<1>2. /\ y.artifact = works[w].artifact /\ y.prior = works[w].prior
      /\ y.integration = works[w].integration
      /\ y.status \in {"accepted", "running"}
  BY <1>0 DEF Work
<1> HIDE DEF y
<1>3. WorkStep(w, y)
  BY <1>1, <1>2 DEF WorkStep, Fenced, Retained, Authorized, Dispatched,
                    Admissible,
                    WorkMore, Dispatchable, Owner_alive
<1> QED
  BY <1>1, <1>3, OneWorkStep

\* An allocation that returns starts its turn only on a run that goes on.
LEMMA AllocationStep ==
    ASSUME LedgerInv, StepInv, NEW b \in allocs,
           AllocationFails(b) \/ AllocationReturns(b)
    PROVE  \A v \in Works : WorkStep(v, works'[v])
<1> DEFINE w == b.work
           given == [works[w] EXCEPT !.attempt.ended = TRUE,
                                     !.status = "interrupted"]
           work == [works[w] EXCEPT !.workspace = TRUE]
           ended == [work EXCEPT !.attempt.ended = TRUE, !.status = "interrupted"]
           turn == [work EXCEPT !.status = IF b.finishing THEN "accepted"
                                           ELSE "running"]
<1>0. /\ w \in Works /\ works[w] \in Work /\ works[w].attempt \in Attempt
      /\ works[w].attempt.id = b.attempt
      /\ works[w].attempt.ended = FALSE
  BY Allocating
<1>1. \/ Write(w, given)
      \/ Write(w, ended)
      \/ Write(w, turn) /\ runStatus = "running" /\ phase = "implementation"
  BY <1>0 DEF AllocationFails, AllocationReturns
<1>2. WorkStep(w, given)
  <2>1. /\ given.artifact = works[w].artifact /\ given.prior = works[w].prior
        /\ given.integration = works[w].integration /\ given.attempt.ended
        /\ given.status = "interrupted"
    BY <1>0 DEF Work, Attempt
  <2> HIDE DEF given
  <2> QED
    BY <1>0, <2>1, QuietWork DEF Keeps, Admissible
<1>3. WorkStep(w, ended)
  <2>1. /\ ended.artifact = works[w].artifact /\ ended.prior = works[w].prior
        /\ ended.integration = works[w].integration /\ ended.attempt.ended
        /\ ended.status = "interrupted"
    BY <1>0 DEF Work, Attempt
  <2> HIDE DEF ended
  <2> QED
    BY <1>0, <2>1, QuietWork DEF Keeps, Admissible
<1>4. ASSUME runStatus = "running", phase = "implementation"
      PROVE  WorkStep(w, turn)
  <2>1. /\ turn.artifact = works[w].artifact /\ turn.prior = works[w].prior
        /\ turn.integration = works[w].integration
        /\ turn.attempt = works[w].attempt
        /\ turn.status \in {"accepted", "running"}
    BY <1>0 DEF Work
  <2> HIDE DEF turn
  <2> QED
    BY <1>0, <1>4, <2>1 DEF WorkStep, Fenced, Retained, Authorized, Dispatched,
                    Admissible,
                            WorkMore
<1> HIDE DEF w, given, work, ended, turn
<1> QED
  BY <1>0, <1>1, <1>2, <1>3, <1>4, OneWorkStep

\* Turns that end, reaped attempts, refused stops and the flags a client, a
\* person or a handoff sets.
LEMMA FlagStep ==
    ASSUME LedgerInv, StepInv, NEW w \in Works,
           \/ TurnEnds(w) \/ ReapOrphan(w) \/ Planner_stop_refused(w)
           \/ \E asks \in BOOLEAN : Record_handoff(w, asks)
           \/ \E r \in Routers : ChildStop(r, w) \/ ChildPrompt(r, w)
    PROVE  \A v \in Works : WorkStep(v, works'[v])
<1>0. works[w] \in Work /\ WorkInv(works[w]) /\ works[w].attempt \in Attempt
  BY DEF LedgerInv, TypeOK, Work
<1>1. ASSUME NEW y, Write(w, y), y.artifact = works[w].artifact,
             y.prior = works[w].prior, y.integration = works[w].integration,
             y.attempt = works[w].attempt \/ y.attempt.ended,
             \/ /\ y.status = works[w].status
                /\ works[w].status = "allocating" => y.required = works[w].required
             \/ /\ y.status \notin {"absent", "allocating"}
                /\ works[w].status = "allocating" => y.attempt.ended
      PROVE  \A v \in Works : WorkStep(v, works'[v])
  <2>1. WorkStep(w, y)
    BY <1>1, QuietWork DEF Keeps, Admissible
  <2> QED
    BY <1>1, <2>1, OneWorkStep
<1>2. CASE TurnEnds(w) \/ ReapOrphan(w)
  <2> DEFINE y == Ended(works[w])
  <2>1. Write(w, y)
    BY <1>2 DEF TurnEnds, ReapOrphan
  <2>2. /\ y.artifact = works[w].artifact /\ y.prior = works[w].prior
        /\ y.integration = works[w].integration /\ y.attempt.ended
        /\ y.status = IF works[w].status \in {"running", "allocating"}
                      THEN "interrupted" ELSE works[w].status
    BY <1>0 DEF Ended, Work, Attempt
  <2> HIDE DEF y
  <2> QED
    BY <1>1, <2>1, <2>2
<1>3. CASE Planner_stop_refused(w)
  <2> DEFINE y == [works[w] EXCEPT !.status = "interrupted", !.asks = FALSE]
  <2>1. Write(w, y) /\ ~Live(w)
    BY <1>3 DEF Planner_stop_refused
  <2>2. /\ y.artifact = works[w].artifact /\ y.prior = works[w].prior
        /\ y.integration = works[w].integration
        /\ y.attempt = works[w].attempt /\ y.status = "interrupted"
    BY <1>0 DEF Work
  <2> HIDE DEF y
  <2> QED
    BY <1>0, <1>1, <2>1, <2>2 DEF WorkInv, Live
<1>4. ASSUME NEW asks \in BOOLEAN, Record_handoff(w, asks)
      PROVE  \A v \in Works : WorkStep(v, works'[v])
  <2> DEFINE x == [works[w] EXCEPT !.asks = asks]
             y == IF asks THEN Marked(x) ELSE x
  <2>1. Write(w, y) /\ works[w].status # "allocating"
    BY <1>4 DEF Record_handoff, TurnRuns
  <2>2. /\ x \in Work
        /\ x.artifact = works[w].artifact /\ x.prior = works[w].prior
        /\ x.integration = works[w].integration
        /\ x.attempt = works[w].attempt /\ x.status = works[w].status
    BY <1>0 DEF Work
  <2> HIDE DEF x
  <2>3. /\ y.artifact = works[w].artifact /\ y.prior = works[w].prior
        /\ y.integration = works[w].integration
        /\ y.attempt = works[w].attempt /\ y.status = works[w].status
    BY <2>2 DEF Marked, Work
  <2> HIDE DEF y
  <2> QED
    BY <1>1, <2>1, <2>3
<1>5. ASSUME NEW r \in Routers, NEW b \in BOOLEAN,
             Write(w, [works[w] EXCEPT !.paused = b])
      PROVE  \A v \in Works : WorkStep(v, works'[v])
  <2> DEFINE y == [works[w] EXCEPT !.paused = b]
  <2>1. Write(w, y)
    BY <1>5
  <2>2. /\ y.artifact = works[w].artifact /\ y.prior = works[w].prior
        /\ y.integration = works[w].integration
        /\ y.attempt = works[w].attempt /\ y.status = works[w].status
        /\ y.required = works[w].required
    BY <1>0 DEF Work
  <2> HIDE DEF y
  <2> QED
    BY <1>1, <2>1, <2>2
<1>6. ASSUME NEW r \in Routers, ChildStop(r, w) \/ ChildPrompt(r, w)
      PROVE  \A v \in Works : WorkStep(v, works'[v])
  BY <1>5, <1>6 DEF ChildStop, ChildPrompt
<1> QED
  BY <1>2, <1>3, <1>4, <1>6

\* A command that marks the works finds none with a live attempt.
LEMMA CommandStep ==
    ASSUME LedgerInv, StepInv, NEW r \in Routers, NEW p \in Phases,
           NEW queued \in BOOLEAN, User_command(r, p, queued)
    PROVE  \A v \in Works : WorkStep(v, works'[v])
<1>1. CASE works' = works
  BY <1>1, SameStep
<1>2. CASE works' = [w \in Works |-> Marked(works[w])] /\ Idle
  <2> SUFFICES ASSUME NEW v \in Works PROVE WorkStep(v, Marked(works[v]))
    BY <1>2
  <2> DEFINE y == Marked(works[v])
  <2>0. works[v] \in Work /\ WorkInv(works[v])
    BY DEF LedgerInv, TypeOK
  <2>1. works[v].status # "allocating"
    BY <1>2, <2>0 DEF Idle, Live, WorkInv
  <2>2. /\ y.artifact = works[v].artifact /\ y.prior = works[v].prior
        /\ y.integration = works[v].integration
        /\ y.attempt = works[v].attempt /\ y.status = works[v].status
    BY <2>0 DEF Marked, Work
  <2> HIDE DEF y
  <2>3. WorkStep(v, y)
    BY <2>1, <2>2, QuietWork DEF Keeps, Admissible
  <2> QED
    BY <2>3 DEF y
<1> QED
  BY <1>1, <1>2 DEF User_command

\* Every step of the ledger takes every work through such a step.
LEMMA WorksStep ==
    ASSUME LedgerInv, StepInv, [LedgerNext]_ledgerVars
    PROVE  \A v \in Works : WorkStep(v, works'[v])
<1>0. CASE works' = works
  BY <1>0, SameStep
<1>1. CASE LedgerNext
  <2> PICK r \in alive : Operation(r) \/ Mutation(r) \/ Event(r)
    BY <1>1 DEF LedgerNext
  <2>0. r \in Routers
    BY DEF LedgerInv, TypeOK
  <2>1. CASE Operation(r)
    <3>1. ASSUME NEW rev \in Revs, NEW b \in BOOLEAN
          PROVE  [rev |-> rev, unresolved |-> b] \in Artifact
      BY DEF Artifact, OptRev
    <3>2. Complete => works' = works
      BY DEF Complete, CompleteCommit
    <3> QED
      BY <1>0, <2>0, <2>1, <3>1, <3>2, ParentStep, BeginStep, ReconcileStep,
         ArtifactStep DEF Operation
  <2>2. CASE Mutation(r)
    <3>1. (\/ \E human \in BOOLEAN, d \in Phases \cup {"none"} :
                 Observe_input(r, human, d)
           \/ \E plans \in BOOLEAN : Enqueue_parent_input(plans)
           \/ CloseSession(r) \/ StartDrain(r) \/ EndDrain(r)) => works' = works
      BY DEF Observe_input, Enqueue_parent_input, CloseSession, StartDrain, EndDrain
    <3> QED
      BY <1>0, <2>0, <2>2, <3>1, CommandStep, AdmitStep, FlagStep,
         FollowupStep, AllocationStep DEF Mutation
  <2>3. CASE Event(r)
    BY <1>0, <2>3 DEF Event, RequestDrain, RouterCrash, StopDelivered,
         OpenDelegate, CloseDelegate
  <2> QED
    BY <2>1, <2>2, <2>3
<1> QED
  BY <1>0, <1>1 DEF ledgerVars

\* A run whose phase is the implementation has been asked to execute.
LEMMA ExecStep ==
    ASSUME LedgerInv, StepInv, [LedgerNext]_ledgerVars
    PROVE  phase' = "implementation" => exec'
<1>0. CASE UNCHANGED <<phase, exec>>
  BY <1>0 DEF StepInv
<1>1. CASE LedgerNext
  <2> PICK r \in alive : Operation(r) \/ Mutation(r) \/ Event(r)
    BY <1>1 DEF LedgerNext
  <2>1. CASE Operation(r)
    BY <1>0, <2>1 DEF Operation, KeepRun, Complete, CompleteCommit, Retire,
       RetireCommit, Begin_work, BeginCommit, Reconcile, ReconcileCommit,
       ReportArtifact, ArtifactCommit, ReviewArtifact, ReviewCommit, Finished,
       FinishCommit, Finalize, Integrate, IntegrateCommit, Disposition,
       DispositionCommit
  <2>2. CASE Mutation(r)
    <3>1. ASSUME NEW p \in Phases, NEW queued \in BOOLEAN, User_command(r, p, queued)
          PROVE  phase' = "implementation" => exec'
      BY <3>1 DEF User_command
    <3>2. ASSUME NEW human \in BOOLEAN, NEW d \in Phases \cup {"none"},
                 Observe_input(r, human, d)
          PROVE  phase' = "implementation" => exec'
      BY <3>2 DEF Observe_input, StepInv
    <3>3. ASSUME NEW plans \in BOOLEAN, Enqueue_parent_input(plans)
          PROVE  phase' = "implementation" => exec'
      BY <3>3 DEF Enqueue_parent_input, StepInv
    <3>4. CASE \/ CloseSession(r) \/ StartDrain(r) \/ EndDrain(r)
               \/ \E w \in Works :
                     \/ Admit(w) \/ TurnEnds(w) \/ ReapOrphan(w)
                     \/ \E asks \in BOOLEAN : Record_handoff(w, asks)
                     \/ Begin_followup(w) \/ Planner_stop_refused(w)
                     \/ ChildStop(r, w) \/ ChildPrompt(r, w)
               \/ \E a \in allocs : AllocationFails(a) \/ AllocationReturns(a)
      BY <1>0, <3>4 DEF KeepRun, CloseSession, StartDrain, EndDrain, Admit,
         AdmitCommit, TurnEnds, ReapOrphan, Record_handoff, Begin_followup,
         Planner_stop_refused, ChildStop, ChildPrompt, AllocationFails,
         AllocationReturns
    <3> QED
      BY <2>2, <3>1, <3>2, <3>3, <3>4 DEF Mutation
  <2>3. CASE Event(r)
    BY <1>0, <2>3 DEF Event, RequestDrain, RouterCrash, StopDelivered,
         OpenDelegate, CloseDelegate, KeepRun
  <2> QED
    BY <2>1, <2>2, <2>3
<1> QED
  BY <1>0, <1>1 DEF ledgerVars

\* The second invariant is inductive beside the first.
LEMMA StepNextInv ==
    LedgerInv /\ StepInv /\ [LedgerNext]_ledgerVars => StepInv'
<1> SUFFICES ASSUME LedgerInv, StepInv, [LedgerNext]_ledgerVars PROVE StepInv'
  OBVIOUS
<1>1. \A w \in Works : WorkMore(works'[w])
  BY WorksStep DEF WorkStep
<1> QED
  BY <1>1, ExecStep DEF StepInv, WorkMore

THEOREM StepInvariant == LedgerSpec => []StepInv
<1>1. Init => StepInv
  BY DEF Init, StepInv, WorkMore, AbsentWork
<1> QED
  BY <1>1, StepNextInv, LedgerInvariant, PTL DEF LedgerSpec

\* Only the child of the live attempt of a living router records an artifact.
THEOREM ArtifactsFenced == LedgerSpec => ArtifactFenced
<1>1. LedgerInv /\ StepInv /\ [LedgerNext]_ledgerVars =>
        [\A w \in Works :
            works'[w].artifact \notin {works[w].artifact, NoArtifact} =>
                /\ Owner_alive(w)
                /\ works'[w].attempt = works[w].attempt]_ledgerVars
  BY WorksStep DEF WorkStep, Fenced
<1> QED
  BY <1>1, LedgerInvariant, StepInvariant, PTL DEF LedgerSpec, ArtifactFenced

\* Work proven integrated is never lost.
THEOREM IntegrationsRetained == LedgerSpec => IntegrationRetained
<1>1. LedgerInv /\ StepInv /\ [LedgerNext]_ledgerVars =>
        [\A w \in Works, r \in Revs :
            r \in works[w].prior \cup {works[w].integration} =>
                r \in works'[w].prior \cup {works'[w].integration}]_ledgerVars
  BY WorksStep DEF WorkStep, Retained
<1> QED
  BY <1>1, LedgerInvariant, StepInvariant, PTL DEF LedgerSpec, IntegrationRetained

\* A turn starts only on a run and on a work that allow it.
THEOREM TurnsAuthorized == LedgerSpec => TurnsStartAuthorized
<1>1. LedgerInv /\ StepInv /\ [LedgerNext]_ledgerVars =>
        [\A w \in Works : ~works'[w].attempt.ended /\
                          (works'[w].attempt.id # works[w].attempt.id
                              \/ works[w].attempt.ended) =>
              /\ Mutable /\ phase = "implementation" /\ exec
              /\ ~works[w].paused
              /\ ~works[w].required
              /\ ~Owner_alive(w)
              /\ Dependencies_ready(w)]_ledgerVars
  BY WorksStep DEF WorkStep, Authorized, StepInv
<1> QED
  BY <1>1, LedgerInvariant, StepInvariant, PTL DEF LedgerSpec, TurnsStartAuthorized

\* A claim becomes a turn only on a run that still executes and on a work that
\* nothing marked while it allocated.
THEOREM DispatchesAuthorized == LedgerSpec => DispatchAuthorized
<1>1. LedgerInv /\ StepInv /\ [LedgerNext]_ledgerVars =>
        [\A w \in Works :
            (/\ works[w].status = "allocating"
             /\ works'[w].status # "allocating"
             /\ ~works'[w].attempt.ended) =>
                Executing /\ ~works[w].required]_ledgerVars
  BY WorksStep DEF WorkStep, Dispatched, StepInv, WorkMore, Executing
<1> QED
  BY <1>1, LedgerInvariant, StepInvariant, PTL DEF LedgerSpec, DispatchAuthorized

\* While every live router drains the run, nothing that comes through them
\* resumes or completes it.
THEOREM DrainsHold == LedgerSpec => DrainHolds
<1>1. LedgerInv /\ [LedgerNext]_ledgerVars =>
        [/\ runStatus = "draining"
         /\ \A r \in alive : drain[r] # "none" /\ drain'[r] = drain[r]
         => runStatus' = "draining"]_ledgerVars
  <2> SUFFICES ASSUME LedgerInv, LedgerNext, runStatus = "draining",
                      \A r \in alive : drain[r] # "none" /\ drain'[r] = drain[r]
               PROVE  runStatus' = "draining"
    OBVIOUS
  <2> PICK r \in alive : Operation(r) \/ Mutation(r) \/ Event(r)
    BY DEF LedgerNext
  <2>0. drain[r] # "none" /\ drain'[r] = drain[r] /\ drain \in [Routers -> Drains]
        /\ r \in Routers
    BY DEF LedgerInv, TypeOK
  <2>1. CASE Operation(r)
    BY <2>1 DEF Operation, KeepRun, Complete, CompleteReady, Retire,
       RetireCommit, Begin_work, BeginCommit, Reconcile, ReconcileCommit,
       ReportArtifact, ArtifactCommit, ReviewArtifact, ReviewCommit, Finished,
       FinishCommit, Finalize, Integrate, IntegrateCommit, Disposition,
       DispositionCommit
  <2>2. CASE Mutation(r)
    <3>1. ~StartDrain(r)
      BY <2>0 DEF StartDrain, RunStatus
    <3>2. ~EndDrain(r)
      BY <2>0 DEF EndDrain, RunStatus
    <3>3. HumanResumes(r) = "draining"
      BY <2>0 DEF HumanResumes
    <3>4. ASSUME NEW p \in Phases, NEW queued \in BOOLEAN
          PROVE  ~User_command(r, p, queued)
      BY <2>0 DEF User_command, LiveDrain
    <3>5. ASSUME NEW human \in BOOLEAN, NEW d \in Phases \cup {"none"},
                 Observe_input(r, human, d)
          PROVE  runStatus' = "draining"
      BY <2>0, <3>3, <3>5 DEF Observe_input
    <3>6. ASSUME \/ \E plans \in BOOLEAN : Enqueue_parent_input(plans)
                 \/ CloseSession(r)
                 \/ \E w \in Works : ChildPrompt(r, w)
          PROVE  runStatus' = "draining"
      BY <3>3, <3>6 DEF Enqueue_parent_input, CloseSession, ChildPrompt
    <3>7. ASSUME \/ \E w \in Works :
                       \/ Admit(w) \/ TurnEnds(w) \/ ReapOrphan(w)
                       \/ \E asks \in BOOLEAN : Record_handoff(w, asks)
                       \/ Begin_followup(w) \/ Planner_stop_refused(w)
                       \/ ChildStop(r, w)
                 \/ \E a \in allocs : AllocationFails(a) \/ AllocationReturns(a)
          PROVE  runStatus' = "draining"
      BY <3>7 DEF KeepRun, Admit, AdmitCommit, TurnEnds, ReapOrphan,
         Record_handoff, Begin_followup, Planner_stop_refused, ChildStop,
         AllocationFails, AllocationReturns
    <3> QED
      BY <2>2, <3>1, <3>2, <3>4, <3>5, <3>6, <3>7 DEF Mutation
  <2>3. CASE Event(r)
    BY <2>3 DEF Event, RequestDrain, RouterCrash, StopDelivered,
         OpenDelegate, CloseDelegate, KeepRun
  <2> QED
    BY <2>1, <2>2, <2>3
<1> QED
  BY <1>1, LedgerInvariant, PTL DEF LedgerSpec, DrainHolds

(***************************************************************************)
(* The operations in flight.                                               *)
(***************************************************************************)
\* The inductive invariant of the operations in flight.
WorkflowInv == LedgerInv /\ inflight \subseteq Op /\ FreshIsReady

\* A request is an operation.
LEMMA RequestType ==
    ASSUME NEW r \in Routers, NEW o \in Requests(r)
    PROVE  o \in Op /\ o.by = r
<1>1. o \in [kind : OpKinds, work : Works \cup {NoWork}, rev : OptRev,
             flag : BOOLEAN, attempt : 0 .. MaxAttempts, by : {r},
             fresh : {TRUE}]
  BY DEF Requests
<1>2. {TRUE} \subseteq BOOLEAN /\ 0 .. MaxAttempts \subseteq Nat
  BY LedgerAssumption
<1> QED
  BY <1>1, <1>2 DEF Op

\* Marking loaded copies out of date keeps them operations, none of them fresh.
LEMMA StaleOps ==
    ASSUME NEW ops \in SUBSET Op
    PROVE  Stale(ops) \subseteq Op /\ \A o \in Stale(ops) : ~o.fresh
<1> SUFFICES ASSUME NEW q \in ops
             PROVE  /\ [q EXCEPT !.fresh = FALSE] \in Op
                    /\ ~[q EXCEPT !.fresh = FALSE].fresh
  BY DEF Stale
<1> QED
  BY DEF Op

\* A save that happens is a step of the atomic ledger: its checks still hold.
LEMMA SaveIsOperation ==
    ASSUME WorkflowInv, NEW o \in inflight, Save(o)
    PROVE  LedgerNext
<1>1. o \in Op /\ Ready(o) /\ Commit(o) /\ o.by \in alive
  BY DEF WorkflowInv, FreshIsReady, Save
<1>2. Operation(o.by)
  <2>1. CASE o.kind = "complete"
    BY <1>1, <2>1 DEF Ready, Commit, Operation, Complete
  <2>2. CASE o.kind = "retire"
    BY <1>1, <2>2 DEF Ready, Commit, Operation, Retire
  <2>3. CASE o.kind = "disposition"
    BY <1>1, <2>3 DEF Ready, Commit, Operation, Disposition, Op
  <2>4. CASE o.kind = "begin"
    BY <1>1, <2>4 DEF Ready, Commit, Operation, Begin_work
  <2>5. CASE o.kind = "artifact"
    <3>1. /\ o.work \in Works /\ o.rev \in Revs /\ o.flag \in BOOLEAN
          /\ ArtifactReady(o.work, o.attempt, o.by)
          /\ ArtifactCommit(o.work, [rev |-> o.rev, unresolved |-> o.flag])
      BY <1>1, <2>5 DEF Ready, Commit, Op
    <3>2. works[o.work].attempt.id = o.attempt
      BY <3>1 DEF ArtifactReady, Require_worker
    <3>3. ReportArtifact(o.work, o.by, [rev |-> o.rev, unresolved |-> o.flag])
      BY <3>1, <3>2 DEF ReportArtifact
    <3> QED
      BY <3>1, <3>3 DEF Operation
  <2>6. CASE o.kind = "reconcile"
    BY <1>1, <2>6 DEF Ready, Commit, Operation, Reconcile, Op
  <2>7. CASE o.kind = "review"
    BY <1>1, <2>7 DEF Ready, Commit, Operation, ReviewArtifact, Op
  <2>8. CASE o.kind = "finished"
    <3>1. /\ o.work \in Works /\ o.rev \in Revs
          /\ FinishedReady(o.work, o.rev, o.attempt, o.by)
          /\ FinishCommit(o.work, o.rev)
      BY <1>1, <2>8 DEF Ready, Commit
    <3>2. works[o.work].attempt.id = o.attempt
      BY <3>1 DEF FinishedReady, Require_worker
    <3>3. Finished(o.work, o.by, o.rev)
      BY <3>1, <3>2 DEF Finished
    <3> QED
      BY <3>1, <3>3 DEF Operation
  <2>9. CASE o.kind = "finalize"
    BY <1>1, <2>9 DEF Ready, Commit, Operation, Finalize
  <2>10. CASE o.kind = "integrate"
    BY <1>1, <2>10 DEF Ready, Commit, Operation, Integrate
  <2> QED
    BY <1>1, <2>1, <2>2, <2>3, <2>4, <2>5, <2>6, <2>7, <2>8, <2>9, <2>10
       DEF Op, OpKinds
<1> QED
  BY <1>1, <1>2 DEF LedgerNext

\* Every step of the operations in flight is a step of the ledger or none.
LEMMA StepIsLedgerStep ==
    ASSUME WorkflowInv, [Next]_vars
    PROVE  [LedgerNext]_ledgerVars
<1>1. CASE UNCHANGED vars
  BY <1>1 DEF vars, ledgerVars
<1>2. CASE \E r \in alive : \E o \in Requests(r) : Load(o)
  BY <1>2 DEF Load
<1>3. CASE \E r \in alive : Mutate(r)
  BY <1>3 DEF Mutate, LedgerNext
<1>4. CASE \E r \in alive : Occurs(r)
  BY <1>4 DEF Occurs, LedgerNext
<1>5. CASE \E o \in inflight : Save(o)
  BY <1>5, SaveIsOperation
<1>6. CASE \E o \in inflight : Abandon(o)
  BY <1>6 DEF Abandon
<1> QED
  BY <1>1, <1>2, <1>3, <1>4, <1>5, <1>6 DEF Next

\* While nobody saves, what an operation checked stays true; the death of a
\* router can only take an owner away.
LEMMA ReadyStable ==
    ASSUME NEW o \in Op, Ready(o), UNCHANGED record, alive' \subseteq alive
    PROVE  Ready(o)'
<1>1. UNCHANGED <<runStatus, phase, exec, works, releases, nextAttempt>>
  BY DEF record
<1>2. \A w \in Works : Owner_alive(w)' => Owner_alive(w)
  BY <1>1 DEF Owner_alive, Live
<1>3. CompleteReady => CompleteReady'
  BY <1>1 DEF CompleteReady, Active, Reconciled, Live
<1>4. \A w \in Works : RetireReady(w) => RetireReady(w)'
  BY <1>1 DEF RetireReady, Mutable, Present, Live, Frozen
<1>5. \A w \in Works : DispositionReady(w) => DispositionReady(w)'
  BY <1>1 DEF DispositionReady, Mutable, Present, Live
<1>6. \A w \in Works : BeginReady(w) => BeginReady(w)'
  <2>1. \A w \in Works : Dependencies_ready(w) => Dependencies_ready(w)'
    BY <1>1 DEF Dependencies_ready, Accepted_revision, Live
  <2> QED
    BY <1>1, <1>2, <2>1 DEF BeginReady, Executing, Present, Dispatchable,
                            Continuation_finishes
<1>7. \A w \in Works : ArtifactReady(w, o.attempt, o.by) =>
                       ArtifactReady(w, o.attempt, o.by)'
  BY <1>1 DEF ArtifactReady, Mutable, Require_worker, Live
<1>8. \A w \in Works : ReconcileReady(w, o.flag) => ReconcileReady(w, o.flag)'
  BY <1>1, <1>2 DEF ReconcileReady, Present, Terminal_correction, Frozen, Live
<1>9. \A w \in Works : ReviewReady(w, o.rev, o.flag) =>
                       ReviewReady(w, o.rev, o.flag)'
  BY <1>1 DEF ReviewReady, Mutable
<1>10. \A w \in Works : FinishedReady(w, o.rev, o.attempt, o.by) =>
                        FinishedReady(w, o.rev, o.attempt, o.by)'
  BY <1>1 DEF FinishedReady, Mutable, Require_worker, Accepted_revision, Live
<1>11. \A w \in Works : FinalizeReady(w, o.rev) => FinalizeReady(w, o.rev)'
  BY <1>1 DEF FinalizeReady, Mutable, Accepted_revision, Live
<1>12. \A w \in Works : IntegrateReady(w, o.rev) => IntegrateReady(w, o.rev)'
  BY <1>1 DEF IntegrateReady, Mutable, Integration_allowed, Finished_revision,
              Accepted_revision, Live
<1> QED
  BY <1>3, <1>4, <1>5, <1>6, <1>7, <1>8, <1>9, <1>10, <1>11, <1>12 DEF Ready

\* A step that saves nothing and keeps only loaded operations of live routers
\* keeps their checks.
LEMMA QuietStep ==
    ASSUME WorkflowInv, UNCHANGED record, alive' \subseteq alive,
           NEW ops \in SUBSET Op, inflight' = ops,
           \A o \in ops : o.fresh => Ready(o) /\ o.by \in alive'
    PROVE  inflight' \subseteq Op /\ FreshIsReady'
<1>1. \A o \in ops : o.fresh => Ready(o)'
  BY ReadyStable
<1> QED
  BY <1>1 DEF FreshIsReady

\* Every step keeps the invariant of the operations in flight.
LEMMA WorkflowNextInv ==
    ASSUME WorkflowInv, [Next]_vars PROVE WorkflowInv'
<1>1. LedgerInv'
  BY StepIsLedgerStep, NextInv DEF WorkflowInv
<1>2. inflight \in SUBSET Op /\ \A o \in inflight : o.fresh => Ready(o) /\ o.by \in alive
  BY DEF WorkflowInv, FreshIsReady
<1>3. inflight' \subseteq Op /\ FreshIsReady'
  <2>1. CASE UNCHANGED vars
    <3>1. UNCHANGED record /\ alive' \subseteq alive /\ inflight' = inflight
            /\ alive' = alive
      BY <2>1 DEF vars, record
    <3> QED
      BY <3>1, <1>2, QuietStep
  <2>2. CASE \E r \in alive : \E o \in Requests(r) : Load(o)
    <3> PICK r \in alive : \E o \in Requests(r) : Load(o)
      BY <2>2
    <3> PICK o \in Requests(r) : Load(o)
      OBVIOUS
    <3>1. r \in Routers
      BY DEF WorkflowInv, LedgerInv, TypeOK
    <3>2. o \in Op /\ o.by = r /\ Ready(o)
      BY <3>1, RequestType DEF Load
    <3>3. UNCHANGED record /\ alive' = alive /\ inflight' = inflight \cup {o}
      BY DEF Load, ledgerVars, record
    <3> DEFINE ops == inflight \cup {o}
    <3>4. ops \in SUBSET Op /\ \A q \in ops : q.fresh => Ready(q) /\ q.by \in alive'
      BY <1>2, <3>2, <3>3
    <3>5. alive' \subseteq alive /\ inflight' = ops
      BY <3>3
    <3> HIDE DEF ops
    <3> QED
      BY <3>3, <3>4, <3>5, QuietStep
  <2>3. CASE \E r \in alive : Mutate(r)
    <3>1. inflight' = Stale(inflight)
      BY <2>3 DEF Mutate
    <3> QED
      BY <1>2, <3>1, StaleOps DEF FreshIsReady
  <2>4. CASE \E r \in alive : Occurs(r)
    <3> DEFINE ops == {o \in inflight : o.by \in alive'}
    <3>1. UNCHANGED record /\ alive' \subseteq alive /\ inflight' = ops
      BY <2>4 DEF Occurs, Event, RequestDrain, RouterCrash, StopDelivered,
                  OpenDelegate, CloseDelegate, KeepRun, record
    <3>2. ops \in SUBSET Op /\ \A q \in ops : q.fresh => Ready(q) /\ q.by \in alive'
      BY <1>2
    <3> HIDE DEF ops
    <3> QED
      BY <3>1, <3>2, QuietStep
  <2>5. CASE \E o \in inflight : Save(o)
    <3> PICK o \in inflight : Save(o)
      BY <2>5
    <3>1. inflight' = Stale(inflight \ {o}) /\ inflight \ {o} \in SUBSET Op
      BY <1>2 DEF Save
    <3> QED
      BY <3>1, StaleOps DEF FreshIsReady
  <2>6. CASE \E o \in inflight : Abandon(o)
    <3> PICK o \in inflight : Abandon(o)
      BY <2>6
    <3> DEFINE ops == inflight \ {o}
    <3>1. UNCHANGED record /\ alive' = alive /\ inflight' = ops
      BY DEF Abandon, ledgerVars, record
    <3>2. ops \in SUBSET Op /\ \A q \in ops : q.fresh => Ready(q) /\ q.by \in alive'
      BY <1>2, <3>1
    <3>3. alive' \subseteq alive
      BY <3>1
    <3> HIDE DEF ops
    <3> QED
      BY <3>1, <3>2, <3>3, QuietStep
  <2> QED
    BY <2>1, <2>2, <2>3, <2>4, <2>5, <2>6 DEF Next
<1> QED
  BY <1>1, <1>3 DEF WorkflowInv

\* The initial state has nothing in flight.
LEMMA WorkflowInitInv == WorkflowInit => WorkflowInv
  BY InitInv DEF WorkflowInit, WorkflowInv, FreshIsReady

------------------------------------------------------------------------------
(* The theorems *)

\* The operations in flight are well typed, and each that may still save would
\* pass its checks again.
THEOREM WorkflowInvariant == Spec => []WorkflowInv
<1>1. WorkflowInv /\ [Next]_vars => WorkflowInv'
  BY WorkflowNextInv
<1> QED
  BY <1>1, WorkflowInitInv, PTL DEF Spec

\* What an operation checked before its await holds when it may save.
THEOREM ChecksStillHold == Spec => []FreshIsReady
<1>1. WorkflowInv => FreshIsReady
  BY DEF WorkflowInv
<1> QED
  BY <1>1, WorkflowInvariant, PTL

\* The interleaved operations implement the atomic ledger: the compare-and-swap
\* makes every operation appear to happen at its save.
THEOREM ImplementsLedger == Spec => LedgerSpec
<1>1. WorkflowInit => Init
  BY DEF WorkflowInit
<1>2. WorkflowInv /\ [Next]_vars => [LedgerNext]_ledgerVars
  BY StepIsLedgerStep
<1> QED
  BY <1>1, <1>2, WorkflowInvariant, PTL DEF Spec, LedgerSpec

\* So the custody chain is never broken, whatever runs between the check and
\* the save of an operation.
THEOREM WorkflowCustody == Spec => []ChainOfCustody
  BY ImplementsLedger, Custody, PTL

\* And a new artifact comes only from the child of the live attempt, though the
\* operation that records it checks and saves in two steps (require_worker).
THEOREM WorkflowFenced == Spec => ArtifactFenced
  BY ImplementsLedger, ArtifactsFenced, PTL

\* A worker's turn starts with the authority it needs at the save that starts
\* it, not only at the check before its await.
THEOREM WorkflowTurnsAuthorized == Spec => TurnsStartAuthorized
  BY ImplementsLedger, TurnsAuthorized, PTL

(***************************************************************************)
(* The release rounds.                                                     *)
(***************************************************************************)
(* The inductive invariant *)

\* An unused identity carries nothing.
UnusedIsEmpty ==
    \A i \in ReleaseIds : ~releases[i].used => releases[i] = NoRelease

\* A round that stands in production, or was disposed there, was merged.
ProductionIsMerged ==
    \A i \in ReleaseIds :
        releases[i].stage \in ProductionStages \cup {"disposed"} =>
            releases[i].merged

\* The upstream source of a selected work is in its round, was integrated, or
\* is in a round that reached production: also of a round still in staging.
SourcesCarried ==
    \A i \in ReleaseIds, w \in Works, d \in Works, r \in Revs :
        releases[i].selection[w] # NoRev /\ <<w, d, r>> \in ReadyDeps =>
            \/ releases[i].selection[d] = r
            \/ r \in works[d].prior \cup {works[d].integration}
            \/ \E j \in ReleaseIds : releases[j].merged /\ releases[j].selection[d] = r

RoundsInv ==
    /\ UnusedIsEmpty
    /\ ProductionIsMerged
    /\ ReplacedHasFailed
    /\ LanesExclusive
    /\ IntegratedThroughRelease
    /\ SourcesCarried
    /\ DisposedIsIntegrated

ReleaseInv == LedgerInv /\ StepInv /\ RoundsInv

------------------------------------------------------------------------------
(* The three kinds of steps *)

\* The ledger's own operations leave the releases alone.
LEMMA LedgerKeepsReleases ==
    ASSUME [LedgerNext]_ledgerVars PROVE releases' = releases
<1>1. CASE LedgerNext
  <2> PICK r \in alive : Operation(r) \/ Mutation(r) \/ Event(r)
    BY <1>1 DEF LedgerNext
  <2>1. CASE Operation(r)
    BY <2>1 DEF Operation, KeepRun, Complete, CompleteCommit, Retire,
       RetireCommit, Begin_work, BeginCommit, Reconcile, ReconcileCommit,
       ReportArtifact, ArtifactCommit, ReviewArtifact, ReviewCommit, Finished,
       FinishCommit, Finalize, Integrate, IntegrateCommit, Disposition,
       DispositionCommit
  <2>2. CASE Mutation(r)
    BY <2>2 DEF Mutation, KeepRun, User_command, Observe_input,
       Enqueue_parent_input, CloseSession, StartDrain, EndDrain, Admit,
       AdmitCommit, TurnEnds, ReapOrphan, Record_handoff, Begin_followup,
       Planner_stop_refused, ChildStop, ChildPrompt, AllocationFails,
       AllocationReturns
  <2>3. CASE Event(r)
    BY <2>3 DEF Event, RequestDrain, RouterCrash, StopDelivered,
         OpenDelegate, CloseDelegate, KeepRun
  <2> QED
    BY <2>1, <2>2, <2>3
<1> QED
  BY <1>1 DEF ledgerVars

\* A release step leaves the works alone.
LEMMA ReleaseKeepsLedger ==
    ASSUME LedgerInv, StepInv, releases' \in [ReleaseIds -> Release],
           UNCHANGED <<runStatus, phase, exec, works>>, KeepProcesses
    PROVE  LedgerInv' /\ StepInv'
<1>1. TypeOK'
  BY DEF LedgerInv, TypeOK, KeepProcesses
<1>2. LedgerInv'
  BY <1>1, OtherInv DEF KeepProcesses
<1>3. StepInv'
  BY DEF StepInv, WorkMore
<1> QED
  BY <1>2, <1>3

\* What a recorded checkpoint writes.
LEMMA CheckpointWrites ==
    ASSUME LedgerInv, NEW i \in ReleaseIds, NEW stage \in Stages,
           CheckpointCommit(i, stage)
    PROVE  /\ releases' \in [ReleaseIds -> Release]
           /\ \A j \in ReleaseIds \ {i} : releases'[j] = releases[j]
           /\ releases'[i].used = releases[i].used
           /\ releases'[i].selection = releases[i].selection
           /\ releases'[i].stage = stage
           /\ releases'[i].merged = (releases[i].merged \/ stage \in ProductionStages)
           /\ releases'[i].superseded = releases[i].superseded
           /\ UNCHANGED <<runStatus, phase, exec, works>> /\ KeepProcesses
<1>1. releases \in [ReleaseIds -> Release] /\ releases[i] \in Release
  BY DEF LedgerInv, TypeOK
<1>2. releases' = [releases EXCEPT ![i] =
                      [releases[i] EXCEPT !.stage = stage,
                          !.merged = @ \/ stage \in ProductionStages]]
  BY <1>1 DEF CheckpointCommit
<1> DEFINE x == [releases[i] EXCEPT !.stage = stage,
                          !.merged = @ \/ stage \in ProductionStages]
<1>3. /\ x \in Release
      /\ x.used = releases[i].used /\ x.selection = releases[i].selection
      /\ x.stage = stage
      /\ x.merged = (releases[i].merged \/ stage \in ProductionStages)
      /\ x.superseded = releases[i].superseded
  BY <1>1 DEF Release
<1>4. releases' = [releases EXCEPT ![i] = x]
  BY <1>2
<1> HIDE DEF x
<1>5. releases'[i] = x /\ \A j \in ReleaseIds \ {i} : releases'[j] = releases[j]
  BY <1>1, <1>4
<1>6. releases' \in [ReleaseIds -> Release]
  BY <1>1, <1>3, <1>4
<1> QED
  BY <1>3, <1>5, <1>6 DEF CheckpointCommit

\* Which stage a checkpoint may follow: the lanes are passed through in order,
\* and what is closed stays closed.
LEMMA StageOrder ==
    ASSUME LedgerInv, NEW i \in ReleaseIds, NEW stage \in Stages,
           StageFollows(i, stage)
    PROVE  /\ ~releases[i].superseded
           /\ releases[i].stage \notin {"disposed", "abandoned"}
           /\ stage # "selected"
           /\ stage \in EarlyStages => releases[i].stage \in EarlyStages
           /\ stage = "production-deployed" => releases[i].stage = "production-merged"
           /\ stage = "disposed" => releases[i].stage = "production-passed"
<1>1. releases[i].stage \in Stages
  BY DEF LedgerInv, TypeOK, Release
<1>2. CASE Failed_staging_abandonment(i, stage) /\ ~releases[i].superseded
  BY <1>2 DEF Failed_staging_abandonment, EarlyStages
<1>3. CASE ~Closed(i) /\ stage \in {"failed", "abandoned"}
  BY <1>3 DEF Closed, EarlyStages
<1>4. CASE ~Closed(i) /\ stage = NextStage[releases[i].stage]
  <2>1. /\ ~releases[i].superseded
        /\ releases[i].stage \in EarlyStages \cup ProductionStages
    BY <1>1, <1>4 DEF Closed, Stages, EarlyStages, ProductionStages
  <2>2. stage = CASE releases[i].stage = "selected"            -> "candidate-passed"
                  [] releases[i].stage = "candidate-passed"    -> "staging-deployed"
                  [] releases[i].stage = "staging-deployed"    -> "staging-passed"
                  [] releases[i].stage = "staging-passed"      -> "production-merged"
                  [] releases[i].stage = "production-merged"   -> "production-deployed"
                  [] releases[i].stage = "production-deployed" -> "production-passed"
                  [] releases[i].stage = "production-passed"   -> "disposed"
    BY <1>4, <2>1 DEF NextStage
  <2> QED
    BY <2>1, <2>2 DEF EarlyStages, ProductionStages
<1> QED
  BY <1>2, <1>3, <1>4 DEF StageFollows

\* What a selection writes: a fresh round, and the mark on the one it replaces.
LEMMA SelectWrites ==
    ASSUME LedgerInv, NEW i \in ReleaseIds, NEW sel \in [Works -> OptRev],
           NEW replaces \in ReleaseIds \cup {None},
           ~releases[i].used,
           replaces # None => Replaceable(replaces),
           SelectCommit(i, sel, replaces)
    PROVE  /\ releases' \in [ReleaseIds -> Release]
           /\ replaces # i
           /\ releases'[i].used /\ releases'[i].selection = sel
           /\ releases'[i].stage = "selected"
           /\ ~releases'[i].merged /\ ~releases'[i].superseded
           /\ \A j \in ReleaseIds \ {i} :
                 /\ releases'[j].used = releases[j].used
                 /\ releases'[j].selection = releases[j].selection
                 /\ releases'[j].stage = releases[j].stage
                 /\ releases'[j].merged = releases[j].merged
                 /\ releases'[j].superseded = (releases[j].superseded \/ j = replaces)
                 /\ j # replaces => releases'[j] = releases[j]
           /\ UNCHANGED <<runStatus, phase, exec, works>> /\ KeepProcesses
<1> DEFINE fresh == [NoRelease EXCEPT !.used = TRUE, !.selection = sel,
                                      !.replacement = replaces # None]
           mark(j) == [releases[j] EXCEPT !.superseded = TRUE]
<1>0. \A j \in ReleaseIds : releases[j] \in Release
  BY DEF LedgerInv, TypeOK
<1>1. releases' = [j \in ReleaseIds |-> IF j = i THEN fresh
                                        ELSE IF j = replaces THEN mark(j)
                                        ELSE releases[j]]
  BY DEF SelectCommit
<1>2. /\ fresh \in Release /\ fresh.used /\ fresh.selection = sel
      /\ fresh.stage = "selected" /\ ~fresh.merged /\ ~fresh.superseded
  BY DEF Release, NoRelease, Stages
<1>3. ASSUME NEW j \in ReleaseIds
      PROVE  /\ mark(j) \in Release
             /\ mark(j).used = releases[j].used
             /\ mark(j).selection = releases[j].selection
             /\ mark(j).stage = releases[j].stage
             /\ mark(j).merged = releases[j].merged
             /\ mark(j).superseded = TRUE
  BY <1>0 DEF Release
<1>4. replaces # i
  BY ReleaseAssumption DEF Replaceable
<1>5. UNCHANGED <<runStatus, phase, exec, works>> /\ KeepProcesses
  BY DEF SelectCommit
<1> HIDE DEF fresh, mark
<1>6. releases'[i] = fresh
  BY <1>1
<1>7. ASSUME NEW j \in ReleaseIds \ {i}
      PROVE  /\ releases'[j].used = releases[j].used
             /\ releases'[j].selection = releases[j].selection
             /\ releases'[j].stage = releases[j].stage
             /\ releases'[j].merged = releases[j].merged
             /\ releases'[j].superseded = (releases[j].superseded \/ j = replaces)
             /\ j # replaces => releases'[j] = releases[j]
  <2>1. releases'[j] = IF j = replaces THEN mark(j) ELSE releases[j]
    BY <1>1
  <2>2. releases[j].superseded \in BOOLEAN
    BY <1>0 DEF Release
  <2> QED
    BY <2>1, <2>2, <1>3
<1>8. releases' \in [ReleaseIds -> Release]
  BY <1>0, <1>1, <1>2, <1>3
<1> QED
  BY <1>2, <1>4, <1>5, <1>6, <1>7, <1>8

------------------------------------------------------------------------------
(* Each kind of step keeps the invariant *)

\* The works change under frozen rounds: receipts are written only through
\* Integration_allowed and are never lost.
LEMMA LedgerStepInv ==
    ASSUME ReleaseInv, [LedgerNext]_ledgerVars PROVE ReleaseInv'
<1>0. releases' = releases
  BY LedgerKeepsReleases
<1>1. LedgerInv' /\ StepInv'
  BY NextInv, StepNextInv DEF ReleaseInv
<1>2. \A w \in Works : WorkStep(w, works'[w])
  BY WorksStep DEF ReleaseInv
<1>3. UnusedIsEmpty' /\ ProductionIsMerged' /\ ReplacedHasFailed' /\ LanesExclusive'
  BY <1>0 DEF ReleaseInv, RoundsInv, UnusedIsEmpty, ProductionIsMerged,
              ReplacedHasFailed, LanesExclusive, OneStagingCandidate,
              OneProductionRollout, Active
<1>4. IntegratedThroughRelease'
  <2> SUFFICES ASSUME NEW w \in Works, works'[w].integration # NoRev,
                      NEW i \in ReleaseIds, releases[i].used,
                      releases[i].selection[w] = works'[w].integration
               PROVE  \E j \in ReleaseIds :
                         /\ releases[j].used
                         /\ releases[j].selection[w] = works'[w].integration
                         /\ releases[j].merged
    BY <1>0 DEF IntegratedThroughRelease
  <2>1. CASE works'[w].integration = works[w].integration
    BY <2>1 DEF ReleaseInv, RoundsInv, IntegratedThroughRelease
  <2>2. CASE Integration_allowed(w, works'[w].integration)
    BY <2>2 DEF ReleaseInv, RoundsInv, Integration_allowed, ProductionIsMerged,
                ProductionStages
  <2> QED
    BY <1>2, <2>1, <2>2 DEF WorkStep, Admissible
<1>5. SourcesCarried'
  BY <1>0, <1>2 DEF ReleaseInv, RoundsInv, SourcesCarried, WorkStep, Retained
<1>6. DisposedIsIntegrated'
  <2> SUFFICES ASSUME NEW i \in ReleaseIds, releases[i].used,
                      releases[i].stage = "disposed",
                      NEW w \in Works, releases[i].selection[w] # NoRev
               PROVE  releases[i].selection[w] \in
                         works'[w].prior \cup {works'[w].integration}
    BY <1>0 DEF DisposedIsIntegrated, Selected
  <2>1. releases[i].selection[w] \in Revs
    BY DEF ReleaseInv, LedgerInv, TypeOK, Release, OptRev
  <2>2. releases[i].selection[w] \in works[w].prior \cup {works[w].integration}
    BY DEF ReleaseInv, RoundsInv, DisposedIsIntegrated, Selected
  <2> QED
    BY <1>2, <2>1, <2>2 DEF WorkStep, Retained
<1> QED
  BY <1>1, <1>3, <1>4, <1>5, <1>6 DEF ReleaseInv, RoundsInv

\* The next checkpoint of a round.
LEMMA CheckpointInv ==
    ASSUME ReleaseInv, NEW i \in ReleaseIds, NEW stage \in Stages,
           RecordCheckpoint(i, stage)
    PROVE  ReleaseInv'
<1>0. /\ LedgerInv /\ RoundsInv
      /\ releases[i].used /\ StageFollows(i, stage)
      /\ stage = "production-merged" => ProductionFree(i)
      /\ stage = "disposed" => Receipts(i)
  BY DEF ReleaseInv, RecordCheckpoint, CheckpointReady
<1>1. /\ releases' \in [ReleaseIds -> Release]
      /\ \A j \in ReleaseIds \ {i} : releases'[j] = releases[j]
      /\ releases'[i].used = releases[i].used
      /\ releases'[i].selection = releases[i].selection
      /\ releases'[i].stage = stage
      /\ releases'[i].merged = (releases[i].merged \/ stage \in ProductionStages)
      /\ releases'[i].superseded = releases[i].superseded
      /\ UNCHANGED <<runStatus, phase, exec, works>> /\ KeepProcesses
  BY <1>0, CheckpointWrites DEF RecordCheckpoint
<1>2. /\ ~releases[i].superseded
      /\ releases[i].stage \notin {"disposed", "abandoned"}
      /\ stage \in EarlyStages => releases[i].stage \in EarlyStages
      /\ stage = "production-deployed" => releases[i].stage = "production-merged"
      /\ stage = "disposed" => releases[i].stage = "production-passed"
  BY <1>0, StageOrder
<1>3. LedgerInv' /\ StepInv'
  BY <1>1, ReleaseKeepsLedger DEF ReleaseInv
<1>4. UnusedIsEmpty' /\ ReplacedHasFailed'
  BY <1>0, <1>1, <1>2 DEF RoundsInv, UnusedIsEmpty, ReplacedHasFailed
<1>5. ProductionIsMerged'
  BY <1>0, <1>1, <1>2 DEF RoundsInv, ProductionIsMerged, ProductionStages
<1>6. OneStagingCandidate'
  BY <1>0, <1>1, <1>2 DEF RoundsInv, LanesExclusive, OneStagingCandidate, Active,
     EarlyStages
<1>7. OneProductionRollout'
  <2> SUFFICES ASSUME NEW j \in ReleaseIds, j # i, Active(j),
                      releases[j].stage \in {"production-merged", "production-deployed"},
                      stage \in {"production-merged", "production-deployed"}
               PROVE  FALSE
    BY <1>0, <1>1 DEF RoundsInv, LanesExclusive, OneProductionRollout, Active
  <2>1. CASE stage = "production-merged"
    BY <1>0, <2>1 DEF ProductionFree
  <2>2. CASE stage = "production-deployed"
    BY <1>0, <1>2, <2>2 DEF RoundsInv, LanesExclusive, OneProductionRollout, Active
  <2> QED
    BY <2>1, <2>2
<1>8. /\ \A j \in ReleaseIds : /\ releases'[j].selection = releases[j].selection
                               /\ releases'[j].used = releases[j].used
                               /\ releases[j].merged => releases'[j].merged
      /\ works' = works
  BY <1>1
<1>9. IntegratedThroughRelease'
  BY <1>0, <1>8 DEF RoundsInv, IntegratedThroughRelease
<1>10. SourcesCarried'
  BY <1>0, <1>8 DEF RoundsInv, SourcesCarried
<1>11. DisposedIsIntegrated'
  BY <1>0, <1>1 DEF RoundsInv, DisposedIsIntegrated, Receipts, Selected
<1> QED
  BY <1>3, <1>4, <1>5, <1>6, <1>7, <1>9, <1>10, <1>11
     DEF ReleaseInv, RoundsInv, LanesExclusive

\* A new round.
LEMMA SelectInv ==
    ASSUME ReleaseInv, NEW i \in ReleaseIds, NEW sel \in [Works -> OptRev],
           NEW replaces \in ReleaseIds \cup {None}, NEW held \in BOOLEAN,
           NEW exempt \in SUBSET Works,
           SelectRelease(i, sel, replaces, held, exempt)
    PROVE  ReleaseInv'
<1>0. /\ LedgerInv /\ RoundsInv /\ ~releases[i].used
      /\ StagingLaneFree(replaces)
      /\ replaces # None => Replaceable(replaces)
      /\ \A w \in Works : sel[w] # NoRev => Qualified(sel, w, replaces)
      /\ SelectCommit(i, sel, replaces)
  BY DEF ReleaseInv, SelectRelease, SelectReady
<1>1. /\ releases' \in [ReleaseIds -> Release]
      /\ replaces # i
      /\ releases'[i].used /\ releases'[i].selection = sel
      /\ releases'[i].stage = "selected"
      /\ ~releases'[i].merged /\ ~releases'[i].superseded
      /\ \A j \in ReleaseIds \ {i} :
            /\ releases'[j].used = releases[j].used
            /\ releases'[j].selection = releases[j].selection
            /\ releases'[j].stage = releases[j].stage
            /\ releases'[j].merged = releases[j].merged
            /\ releases'[j].superseded = (releases[j].superseded \/ j = replaces)
            /\ j # replaces => releases'[j] = releases[j]
      /\ UNCHANGED <<runStatus, phase, exec, works>> /\ KeepProcesses
  BY <1>0, SelectWrites
<1>2. \A w \in Works : releases[i].selection[w] = NoRev /\ ~releases[i].merged
  BY <1>0 DEF RoundsInv, UnusedIsEmpty, NoRelease
<1>3. LedgerInv' /\ StepInv'
  BY <1>1, ReleaseKeepsLedger DEF ReleaseInv
<1>4. ReplacedHasFailed'
  BY <1>0, <1>1, ReleaseAssumption DEF RoundsInv, ReplacedHasFailed, Replaceable
<1>5. UnusedIsEmpty'
  BY <1>0, <1>1, ReleaseAssumption DEF RoundsInv, UnusedIsEmpty, Replaceable
<1>6. ProductionIsMerged'
  BY <1>0, <1>1 DEF RoundsInv, ProductionIsMerged, ProductionStages
<1>7. \A j \in ReleaseIds \ {i} : Active(j)' => Active(j) /\ j # replaces
  BY <1>1 DEF Active
<1>8. OneStagingCandidate'
  BY <1>0, <1>1, <1>7 DEF RoundsInv, LanesExclusive, OneStagingCandidate,
     StagingLaneFree, EarlyStages
<1>9. OneProductionRollout'
  BY <1>0, <1>1, <1>7 DEF RoundsInv, LanesExclusive, OneProductionRollout
<1>10. IntegratedThroughRelease'
  <2> SUFFICES ASSUME NEW w \in Works, works[w].integration # NoRev,
                      NEW k \in ReleaseIds, releases'[k].used,
                      releases'[k].selection[w] = works[w].integration
               PROVE  \E j \in ReleaseIds :
                         /\ releases'[j].used
                         /\ releases'[j].selection[w] = works[w].integration
                         /\ releases'[j].merged
    BY <1>1 DEF IntegratedThroughRelease
  <2>1. k # i
    <3> SUFFICES ASSUME k = i PROVE FALSE
      OBVIOUS
    <3>1. sel[w] = works[w].integration
      BY <1>1
    <3>2. works[w].status \in {"finished", "watching"}
      BY <1>0, <3>1 DEF Qualified, Finished_revision
    <3> QED
      BY <1>0, <3>2 DEF LedgerInv, WorkInv
  <2>2. PICK j \in ReleaseIds : /\ releases[j].used
                                /\ releases[j].selection[w] = works[w].integration
                                /\ releases[j].merged
    BY <1>0, <1>1, <2>1 DEF RoundsInv, IntegratedThroughRelease
  <2>3. j # i
    BY <1>0, <2>2
  <2> QED
    BY <1>1, <2>2, <2>3
<1>11. SourcesCarried'
  <2> SUFFICES ASSUME NEW k \in ReleaseIds, NEW w \in Works, NEW d \in Works,
                      NEW r \in Revs, releases'[k].selection[w] # NoRev,
                      <<w, d, r>> \in ReadyDeps
               PROVE  \/ releases'[k].selection[d] = r
                      \/ r \in works[d].prior \cup {works[d].integration}
                      \/ \E j \in ReleaseIds : /\ releases'[j].merged
                                               /\ releases'[j].selection[d] = r
    BY <1>1 DEF SourcesCarried
  <2>1. ASSUME NEW j \in ReleaseIds, releases[j].merged, releases[j].selection[d] = r
        PROVE  releases'[j].merged /\ releases'[j].selection[d] = r
    BY <1>1, <1>2, <2>1
  <2>2. CASE k = i
    <3>1. SourceCarried(sel, d, r)
      BY <1>0, <1>1, <2>2 DEF Qualified
    <3>2. ASSUME NEW j \in ReleaseIds,
                 releases[j].stage \in ProductionStages \cup {"disposed"},
                 releases[j].selection[d] = r
          PROVE  releases'[j].merged /\ releases'[j].selection[d] = r
      BY <1>0, <2>1, <3>2 DEF RoundsInv, ProductionIsMerged
    <3> QED
      BY <1>1, <2>2, <3>1, <3>2 DEF SourceCarried
  <2>3. CASE k # i
    BY <1>0, <1>1, <2>1, <2>3 DEF RoundsInv, SourcesCarried
  <2> QED
    BY <2>2, <2>3
<1>12. DisposedIsIntegrated'
  BY <1>0, <1>1 DEF RoundsInv, DisposedIsIntegrated, Selected
<1> QED
  BY <1>3, <1>4, <1>5, <1>6, <1>8, <1>9, <1>10, <1>11, <1>12
     DEF ReleaseInv, RoundsInv, LanesExclusive

\* Every step keeps the invariant.
LEMMA ReleaseNextInv ==
    ReleaseInv /\ [ReleaseNext]_ledgerVars => ReleaseInv'
<1> SUFFICES ASSUME ReleaseInv, [ReleaseNext]_ledgerVars PROVE ReleaseInv'
  OBVIOUS
<1>1. CASE [LedgerNext]_ledgerVars
  BY <1>1, LedgerStepInv
<1>2. CASE ReleaseOperation
  BY <1>2, CheckpointInv, SelectInv DEF ReleaseOperation
<1> QED
  BY <1>1, <1>2 DEF ReleaseNext

------------------------------------------------------------------------------
(* The two initial states *)

\* No release is used: nothing to show of the rounds.
LEMMA NoRounds ==
    ASSUME releases = [i \in ReleaseIds |-> NoRelease] PROVE RoundsInv
<1>1. \A i \in ReleaseIds : releases[i] = NoRelease
  OBVIOUS
<1>2. /\ ~NoRelease.used /\ NoRelease.stage = "selected" /\ ~NoRelease.superseded
      /\ \A w \in Works : NoRelease.selection[w] = NoRev
  BY DEF NoRelease
<1> QED
  BY <1>1, <1>2 DEF RoundsInv, UnusedIsEmpty, ProductionIsMerged, ProductionStages,
     ReplacedHasFailed, LanesExclusive, OneStagingCandidate, OneProductionRollout,
     Active, IntegratedThroughRelease, SourcesCarried, DisposedIsIntegrated

\* A run that was just created.
LEMMA FreshInit == Init => ReleaseInv
<1> SUFFICES ASSUME Init PROVE ReleaseInv
  OBVIOUS
<1>1. StepInv
  BY DEF Init, StepInv, WorkMore, AbsentWork
<1> QED
  BY <1>1, InitInv, NoRounds DEF Init, ReleaseInv

\* A run whose works are finished.
LEMMA HeadsInit == FinishedInit => ReleaseInv
<1> SUFFICES ASSUME FinishedInit PROVE ReleaseInv
  OBVIOUS
<1> DEFINE head(r) == [AbsentWork EXCEPT
            !.status = "finished", !.workspace = TRUE,
            !.artifact = [rev |-> r, unresolved |-> FALSE],
            !.review = [rev |-> r, accepted |-> TRUE],
            !.finish = r]
<1>1. \A r \in Revs : head(r) \in Work /\ WorkInv(head(r)) /\ WorkMore(head(r))
  <2> SUFFICES ASSUME NEW r \in Revs
               PROVE  head(r) \in Work /\ WorkInv(head(r)) /\ WorkMore(head(r))
    OBVIOUS
  <2>1. /\ [rev |-> r, unresolved |-> FALSE] \in Artifact
        /\ [rev |-> r, accepted |-> TRUE] \in Review
        /\ r \in OptRev /\ r # NoRev
    BY LedgerAssumption DEF Artifact, Review, OptRev
  <2>2. head(r) \in Work
    BY <2>1, EmptyTypes DEF Work, WorkStatus
  <2>3. /\ head(r).status = "finished" /\ head(r).attempt = NoAttempt
        /\ head(r).artifact = [rev |-> r, unresolved |-> FALSE]
        /\ head(r).review = [rev |-> r, accepted |-> TRUE]
        /\ head(r).finish = r /\ head(r).integration = NoRev
    BY DEF AbsentWork
  <2> HIDE DEF head
  <2> QED
    BY <2>1, <2>2, <2>3 DEF WorkInv, WorkMore, NoAttempt
<1>2. works \in [Works -> {head(r) : r \in Revs}]
  BY DEF FinishedInit
<1> HIDE DEF head
<1>3. /\ works \in [Works -> Work]
      /\ \A w \in Works : WorkInv(works[w]) /\ WorkMore(works[w])
  <2>1. ASSUME NEW w \in Works
        PROVE  works[w] \in Work /\ WorkInv(works[w]) /\ WorkMore(works[w])
    <3>1. PICK r \in Revs : works[w] = head(r)
      BY <1>2
    <3> QED
      BY <1>1, <3>1
  <2> QED
    BY <1>2, <2>1
<1>4. TypeOK
  BY <1>3, LedgerAssumption, EmptyTypes
     DEF FinishedInit, TypeOK, RunStatus, Phases, Drains
<1>5. AllocationKeepsClaim /\ OneAllocation
  BY DEF FinishedInit, AllocationKeepsClaim, OneAllocation
<1> QED
  BY <1>3, <1>4, <1>5, NoRounds DEF FinishedInit, ReleaseInv, LedgerInv, StepInv

\* The rounds that TLC explores are a part of the ledger with its releases.
LEMMA RoundsAreReleases == [RoundsNext]_ledgerVars => [ReleaseNext]_ledgerVars
  BY DEF RoundsNext, ReleaseNext, LedgerNext, Mutation

------------------------------------------------------------------------------
(* The theorems *)

\* The invariant holds of a run from its creation, and of the rounds over
\* finished heads.
THEOREM ReleaseInvariant == ReleaseSpec \/ RoundsSpec => []ReleaseInv
<1>1. ReleaseSpec => []ReleaseInv
  BY FreshInit, ReleaseNextInv, PTL DEF ReleaseSpec
<1>2. RoundsSpec => []ReleaseInv
  BY HeadsInit, ReleaseNextInv, RoundsAreReleases, PTL DEF RoundsSpec
<1> QED
  BY <1>1, <1>2

\* One candidate is in staging and one rollout in production at a time.
THEOREM Lanes == ReleaseSpec \/ RoundsSpec => []LanesExclusive
<1>1. ReleaseInv => LanesExclusive
  BY DEF ReleaseInv, RoundsInv
<1> QED
  BY <1>1, ReleaseInvariant, PTL

\* A frozen revision is integrated only through a round that reached production.
THEOREM ThroughRelease == ReleaseSpec \/ RoundsSpec => []IntegratedThroughRelease
<1>1. ReleaseInv => IntegratedThroughRelease
  BY DEF ReleaseInv, RoundsInv
<1> QED
  BY <1>1, ReleaseInvariant, PTL

\* No round reaches production ahead of the sources it was built on.
THEOREM SourcesInProduction == ReleaseSpec \/ RoundsSpec => []ProductionCarriesSources
<1>1. ReleaseInv => ProductionCarriesSources
  BY DEF ReleaseInv, RoundsInv, SourcesCarried, ProductionCarriesSources
<1> QED
  BY <1>1, ReleaseInvariant, PTL

\* A disposed round's receipts outlive later corrections of its works.
THEOREM DisposedIntegrated == ReleaseSpec \/ RoundsSpec => []DisposedIsIntegrated
<1>1. ReleaseInv => DisposedIsIntegrated
  BY DEF ReleaseInv, RoundsInv
<1> QED
  BY <1>1, ReleaseInvariant, PTL

\* A selection, a replacement and a close are for ever.
THEOREM SelectionsFrozen == ReleaseSpec \/ RoundsSpec => SelectionFrozen
<1> DEFINE Same == \A i \in ReleaseIds : releases[i].used =>
          /\ releases'[i].selection = releases[i].selection
          /\ releases[i].superseded => releases'[i] = releases[i]
          /\ releases[i].stage \in {"disposed", "abandoned"} =>
                releases'[i] = releases[i]
<1>1. ASSUME ReleaseInv, [ReleaseNext]_ledgerVars PROVE Same
  <2>1. CASE [LedgerNext]_ledgerVars
    BY <2>1, LedgerKeepsReleases
  <2>2. ASSUME NEW i \in ReleaseIds, NEW stage \in Stages, RecordCheckpoint(i, stage)
        PROVE  Same
    <3>1. LedgerInv /\ StageFollows(i, stage) /\ CheckpointCommit(i, stage)
      BY <1>1, <2>2 DEF ReleaseInv, RecordCheckpoint, CheckpointReady
    <3>2. /\ ~releases[i].superseded
          /\ releases[i].stage \notin {"disposed", "abandoned"}
      BY <3>1, StageOrder
    <3>3. /\ \A j \in ReleaseIds \ {i} : releases'[j] = releases[j]
          /\ releases'[i].selection = releases[i].selection
      BY <3>1, CheckpointWrites
    <3> QED
      BY <3>2, <3>3
  <2>3. ASSUME NEW i \in ReleaseIds, NEW sel \in [Works -> OptRev],
               NEW replaces \in ReleaseIds \cup {None}, NEW held \in BOOLEAN,
               NEW exempt \in SUBSET Works,
               SelectRelease(i, sel, replaces, held, exempt)
        PROVE  Same
    <3>1. /\ LedgerInv /\ ~releases[i].used
          /\ replaces # None => Replaceable(replaces)
          /\ SelectCommit(i, sel, replaces)
      BY <1>1, <2>3 DEF ReleaseInv, SelectRelease, SelectReady
    <3>2. \A j \in ReleaseIds \ {i} :
             /\ releases'[j].selection = releases[j].selection
             /\ j # replaces => releases'[j] = releases[j]
      BY <3>1, SelectWrites
    <3> QED
      BY <3>1, <3>2, ReleaseAssumption DEF Replaceable
  <2> QED
    BY <1>1, <2>1, <2>2, <2>3 DEF ReleaseNext, ReleaseOperation
<1>2. ReleaseInv /\ [ReleaseNext]_ledgerVars => [Same]_ledgerVars
  BY <1>1
<1>3. ReleaseSpec => SelectionFrozen
  BY <1>2, ReleaseInvariant, PTL DEF ReleaseSpec, SelectionFrozen
<1>4. RoundsSpec => SelectionFrozen
  BY <1>2, ReleaseInvariant, RoundsAreReleases, PTL DEF RoundsSpec, SelectionFrozen
<1> QED
  BY <1>3, <1>4
=============================================================================
