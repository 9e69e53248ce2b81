-------------------------- MODULE DelegationProofs --------------------------
(***************************************************************************)
(* Proofs about the delegated subtasks of a parent, for any number of      *)
(* delegations, accounts, turns and attempts and any budget                *)
(* (src/src/delegate_mcp.rs, session.rs).                                  *)
(*                                                                         *)
(* What a delegate owns (a session, a token, an entry in the registry, the *)
(* host's knowledge of it, a handoff) follows from where its call is.      *)
(* Sound(d) says so of one delegate; a step other than the parent's close  *)
(* changes one delegate only.  The permits and the slots relate delegates  *)
(* with each other and have an invariant of their own.                     *)
(***************************************************************************)
EXTENDS Delegation, FiniteSetTheorems, TLAPS

-----------------------------------------------------------------------------
(* Types *)

\* What Ended writes.
LEMMA EndedTypes ==
    ASSUME TypeOK, NEW d \in Delegates, live' \subseteq Delegates, Ended(d)
    PROVE  /\ call' \in [Delegates -> CallSet]
           /\ job' \in [Delegates -> {"none", "running", "done", "collected"}]
  <1>1. call[d] \in CallSet
    BY DEF TypeOK
  <1>2. [NoCall EXCEPT !.at = IF d \in live' THEN "idle" ELSE "over",
                       !.turn = IF d \in live' THEN call[d].turn ELSE 0,
                       !.agent = IF d \in live' THEN call[d].agent ELSE {}] \in CallSet
    BY <1>1 DEF CallSet, NoCall
  <1>3. call' \in [Delegates -> CallSet]
    BY <1>2 DEF Ended, TypeOK
  <1>4. job' \in [Delegates -> {"none", "running", "done", "collected"}]
    BY DEF Ended, JobAfter, TypeOK
  <1> QED
    BY <1>3, <1>4

\* What Teardown writes.
LEMMA TeardownTypes ==
    ASSUME TypeOK, NEW d \in Delegates, NEW told \in BOOLEAN, Teardown(d, told)
    PROVE  /\ sess' \in [Delegates -> BOOLEAN]
           /\ handles' \subseteq Delegates /\ tokens' \subseteq Delegates
           /\ handoff' \in [Delegates -> Nat]
           /\ host' \in [Delegates -> {"none", "started", "stopped"}]
  BY DEF Teardown, TypeOK

LEMMA SpendTypes ==
    ASSUME TypeOK, NEW f \in {"faults", "acts"}, left[f] > 0, left' = Spend(f)
    PROVE  left' \in [faults : Nat, acts : Nat]
  BY DEF TypeOK, Spend

\* A record that a step writes over a call.
LEMMA PutCall ==
    ASSUME TypeOK, NEW d \in Delegates, NEW c \in CallSet, call' = [call EXCEPT ![d] = c]
    PROVE  call' \in [Delegates -> CallSet]
  BY DEF TypeOK

\* The record of a call whose next turn starts.
LEMMA Prompted ==
    ASSUME NEW c \in CallSet
    PROVE  /\ [c EXCEPT !.at = "running", !.turn = c.turn + 1] \in CallSet
           /\ [c EXCEPT !.at = "running", !.cont = c.cont + 1, !.turn = c.turn + 1] \in CallSet
  <1>1. "running" \in Active
    BY DEF Active, HasPermit, HasSlot
  <1>2. c.turn + 1 \in Nat /\ c.cont + 1 \in Nat
    BY DEF CallSet
  <1> QED
    BY <1>1, <1>2 DEF CallSet

LEMMA RefusedTypes ==
    ASSUME TypeOK, NEW d \in Delegates, Refused(d), UNCHANGED left
    PROVE  TypeOK'
  <1>1. /\ call' \in [Delegates -> CallSet]
        /\ job' \in [Delegates -> {"none", "running", "done", "collected"}]
    BY EndedTypes DEF Refused, TypeOK
  <1> QED
    BY <1>1 DEF Refused, TypeOK, session

LEMMA FailsTypes ==
    ASSUME TypeOK, NEW d \in Delegates, Fails(d), left' \in [faults : Nat, acts : Nat],
           UNCHANGED <<session, closed, excused>>
    PROVE  TypeOK'
  <1>1. /\ call' \in [Delegates -> CallSet]
        /\ job' \in [Delegates -> {"none", "running", "done", "collected"}]
    BY EndedTypes DEF Fails, TypeOK
  <1>2. /\ sess' \in [Delegates -> BOOLEAN]
        /\ handles' \subseteq Delegates /\ tokens' \subseteq Delegates
        /\ handoff' \in [Delegates -> Nat]
        /\ host' \in [Delegates -> {"none", "started", "stopped"}]
    <2>1. CASE call[d].follow
      BY <2>1 DEF Fails, TypeOK
    <2>2. CASE ~call[d].follow
      BY <2>2, TeardownTypes DEF Fails
    <2> QED
      BY <2>1, <2>2
  <1> QED
    BY <1>1, <1>2 DEF Fails, TypeOK, session

LEMMA TypesOfCallStep ==
    ASSUME DelegationAssumption, TypeOK, NEW d \in Delegates, CallStep(d)
    PROVE  TypeOK'
  <1> USE DEF session, worker
  <1>0. call[d] \in CallSet
    BY DEF TypeOK
  <1>1. CASE Rank(d)
    <2>1. CASE Refused(d)
      BY <2>1, RefusedTypes DEF Refused
    <2>2. CASE ~(Unwanted \/ Agents \subseteq call[d].failed)
      <3>1. [call[d] EXCEPT !.at = "ranked", !.rest = Agents \ call[d].failed] \in CallSet
        BY <1>0 DEF CallSet, Active, HasPermit, HasSlot
      <3> QED
        BY <1>1, <2>2, <3>1, PutCall DEF Rank, TypeOK
    <2> QED
      BY <1>1, <2>1, <2>2 DEF Rank
  <1>2. CASE TakeSlot(d)
    <2>1. CASE Refused(d)
      BY <2>1, RefusedTypes DEF Refused
    <2>2. CASE ~(Suspended \/ call[d].rest = {})
      <3>1. PICK a \in call[d].rest :
              /\ call' = [call EXCEPT ![d] = [@ EXCEPT
                    !.rest = call[d].rest \ {a},
                    !.at = IF Busy(a) THEN "ranked" ELSE "opening",
                    !.agent = IF Busy(a) THEN {} ELSE {a}]]
              /\ tokens' = IF Busy(a) THEN tokens ELSE tokens \cup {d}
              /\ UNCHANGED <<session, sess, handles, live, host, handoff, job, left, closed,
                             excused>>
        BY <1>2, <2>2 DEF TakeSlot
      <3>2. [call[d] EXCEPT !.rest = @ \ {a},
                            !.at = IF Busy(a) THEN "ranked" ELSE "opening",
                            !.agent = IF Busy(a) THEN {} ELSE {a}] \in CallSet
        BY <1>0 DEF CallSet, Active, HasPermit, HasSlot
      <3> QED
        BY <3>1, <3>2, PutCall DEF TypeOK
    <2> QED
      BY <1>2, <2>1, <2>2 DEF TakeSlot
  <1>3. CASE Opened(d)
    <2>1. [call[d] EXCEPT !.at = "starting"] \in CallSet
      BY <1>0 DEF CallSet, Active, HasPermit, HasSlot
    <2> QED
      BY <1>3, <2>1, PutCall DEF Opened, TypeOK
  <1>4. CASE StartAccepted(d)
    <2>1. CASE Unwanted \/ Suspended
      <3>1. /\ call' \in [Delegates -> CallSet]
            /\ job' \in [Delegates -> {"none", "running", "done", "collected"}]
        BY <1>4, <2>1, EndedTypes DEF StartAccepted, TypeOK
      <3>2. handles' \subseteq Delegates /\ tokens' \subseteq Delegates
        BY <1>4, <2>1 DEF StartAccepted, TypeOK
      <3>3. /\ sess' \in [Delegates -> BOOLEAN]
            /\ host' \in [Delegates -> {"none", "started", "stopped"}]
        BY <1>4, <2>1 DEF StartAccepted, TypeOK
      <3> QED
        BY <1>4, <2>1, <3>1, <3>2, <3>3 DEF StartAccepted, TypeOK
    <2>2. CASE ~(Unwanted \/ Suspended)
      <3>1. [call[d] EXCEPT !.at = "running", !.turn = call[d].turn + 1] \in CallSet
        BY <1>0, Prompted
      <3> QED
        BY <1>4, <2>2, <3>1, PutCall DEF StartAccepted, TypeOK
    <2> QED
      BY <2>1, <2>2
  <1>5. CASE TurnEnds(d)
    <2>1. [call[d] EXCEPT !.at = "judging"] \in CallSet
      BY <1>0 DEF CallSet, Active, HasPermit, HasSlot
    <2> QED
      BY <1>5, <2>1, PutCall DEF TurnEnds, TypeOK
  <1>6. CASE HostReleases(d)
    <2>1. live' \subseteq Delegates
      BY <1>6 DEF HostReleases, TypeOK
    <2>2. /\ call' \in [Delegates -> CallSet]
          /\ job' \in [Delegates -> {"none", "running", "done", "collected"}]
      BY <1>6, <2>1, EndedTypes DEF HostReleases
    <2>3. /\ sess' \in [Delegates -> BOOLEAN]
          /\ handles' \subseteq Delegates /\ tokens' \subseteq Delegates
          /\ handoff' \in [Delegates -> Nat]
          /\ host' \in [Delegates -> {"none", "started", "stopped"}]
      <3>1. CASE call[d].follow \/ d \in Kept
        BY <1>6, <3>1 DEF HostReleases, TypeOK
      <3>2. CASE ~(call[d].follow \/ d \in Kept)
        BY <1>6, <3>2, TeardownTypes DEF HostReleases
      <3> QED
        BY <3>1, <3>2
    <2>4. excused' \subseteq Delegates
      BY <1>6 DEF HostReleases, TypeOK
    <2> QED
      BY <1>6, <2>1, <2>2, <2>3, <2>4 DEF HostReleases, TypeOK
  <1>7. CASE TurnCancelled(d)
    BY <1>7, FailsTypes DEF TurnCancelled, TypeOK
  <1>8. CASE FollowupFound(d)
    <2>1. CASE Refused(d)
      BY <2>1, RefusedTypes DEF Refused
    <2>2. CASE d \in live
      <3>1. [call[d] EXCEPT !.at = "slot"] \in CallSet
        BY <1>0 DEF CallSet, Active, HasPermit, HasSlot
      <3> QED
        BY <1>8, <2>2, <3>1, PutCall DEF FollowupFound, TypeOK
    <2> QED
      BY <1>8, <2>1, <2>2 DEF FollowupFound
  <1>9. CASE FollowupRuns(d)
    <2>1. handoff' \in [Delegates -> Nat]
      BY <1>9 DEF FollowupRuns, NextHandoff, TypeOK
    <2>2. CASE parent.open /\ parent.cancelled
      <3>1. /\ call' \in [Delegates -> CallSet]
            /\ job' \in [Delegates -> {"none", "running", "done", "collected"}]
        BY <1>9, <2>2, EndedTypes DEF FollowupRuns, TypeOK
      <3> QED
        BY <1>9, <2>1, <3>1 DEF FollowupRuns, TypeOK
    <2>3. CASE ~(parent.open /\ parent.cancelled)
      <3>1. [call[d] EXCEPT !.at = "running", !.turn = call[d].turn + 1] \in CallSet
        BY <1>0, Prompted
      <3> QED
        BY <1>9, <2>1, <2>3, <3>1, PutCall DEF FollowupRuns, TypeOK
    <2> QED
      BY <2>2, <2>3
  <1> QED
    BY <1>1, <1>2, <1>3, <1>4, <1>5, <1>6, <1>7, <1>8, <1>9 DEF CallStep

LEMMA TypesOfToolCall ==
    ASSUME DelegationAssumption, TypeOK, NEW d \in Delegates, ToolCall(d)
    PROVE  TypeOK'
  <1> USE DEF session, worker
  <1>0. call[d] \in CallSet
    BY DEF TypeOK
  <1>1. CASE Delegate(d)
    <2>1. [call[d] EXCEPT !.at = "queued"] \in CallSet
      BY <1>0 DEF CallSet, Active, HasPermit, HasSlot
    <2>2. job' \in [Delegates -> {"none", "running", "done", "collected"}]
      BY <1>1 DEF Delegate, TypeOK
    <2> QED
      BY <1>1, <2>1, <2>2, PutCall DEF Delegate, TypeOK
  <1>2. CASE Followup(d)
    <2>1. [call[d] EXCEPT !.at = "queued", !.follow = TRUE] \in CallSet
      BY <1>0 DEF CallSet, Active, HasPermit, HasSlot
    <2>2. job' \in [Delegates -> {"none", "running", "done", "collected"}]
      BY <1>2 DEF Followup, TypeOK
    <2>3. left' \in [faults : Nat, acts : Nat]
      BY <1>2, SpendTypes DEF Followup, Act
    <2> QED
      BY <1>2, <2>1, <2>2, <2>3, PutCall DEF Followup, TypeOK
  <1>3. CASE Close(d)
    <2>1. (IF At(d, "idle") THEN [NoCall EXCEPT !.at = "over"] ELSE call[d]) \in CallSet
      BY <1>0 DEF CallSet, NoCall
    <2>2. call' \in [Delegates -> CallSet]
      BY <1>3, <2>1, PutCall DEF Close
    <2>3. left' \in [faults : Nat, acts : Nat]
      BY <1>3, SpendTypes DEF Close, Act
    <2>4. /\ sess' \in [Delegates -> BOOLEAN]
          /\ handles' \subseteq Delegates /\ tokens' \subseteq Delegates
          /\ handoff' \in [Delegates -> Nat]
          /\ host' \in [Delegates -> {"none", "started", "stopped"}]
      BY <1>3, TeardownTypes DEF Close
    <2> QED
      BY <1>3, <2>2, <2>3, <2>4 DEF Close, TypeOK
  <1>4. CASE Await
    BY <1>4 DEF Await, Collected, TypeOK
  <1>5. CASE WorkerHandoff(d)
    <2>1. call[d].turn \in Nat
      BY <1>0 DEF CallSet
    <2> QED
      BY <1>5, <2>1 DEF WorkerHandoff, TypeOK
  <1> QED
    BY <1>1, <1>2, <1>3, <1>4, <1>5 DEF ToolCall

LEMMA TypesOfFaults ==
    ASSUME DelegationAssumption, TypeOK, NEW d \in Delegates,
           \/ OpenFails(d) \/ StartRefused(d) \/ HostContinues(d) \/ TurnBreaks(d)
           \/ TurnFailsOver(d)
    PROVE  TypeOK'
  <1> USE DEF session, worker
  <1>0. call[d] \in CallSet
    BY DEF TypeOK
  <1>1. CASE OpenFails(d)
    <2>1. [call[d] EXCEPT !.at = "ranked", !.agent = {}] \in CallSet
      BY <1>0 DEF CallSet, Active, HasPermit, HasSlot
    <2>2. left' \in [faults : Nat, acts : Nat]
      BY <1>1, SpendTypes DEF OpenFails, Fault
    <2> QED
      BY <1>1, <2>1, <2>2, PutCall DEF OpenFails, TypeOK
  <1>2. CASE StartRefused(d)
    <2>1. /\ call' \in [Delegates -> CallSet]
          /\ job' \in [Delegates -> {"none", "running", "done", "collected"}]
      BY <1>2, EndedTypes DEF StartRefused, TypeOK
    <2>2. left' \in [faults : Nat, acts : Nat]
      BY <1>2, SpendTypes DEF StartRefused, Fault
    <2>3. /\ sess' \in [Delegates -> BOOLEAN]
          /\ handles' \subseteq Delegates /\ tokens' \subseteq Delegates
          /\ handoff' \in [Delegates -> Nat]
          /\ host' \in [Delegates -> {"none", "started", "stopped"}]
      BY <1>2, TeardownTypes DEF StartRefused
    <2> QED
      BY <1>2, <2>1, <2>2, <2>3 DEF StartRefused, TypeOK
  <1>3. CASE HostContinues(d)
    <2>1. [call[d] EXCEPT !.at = "running", !.cont = call[d].cont + 1,
                          !.turn = call[d].turn + 1] \in CallSet
      BY <1>0, Prompted
    <2>2. handoff' \in [Delegates -> Nat]
      BY <1>3 DEF HostContinues, TypeOK
    <2> QED
      BY <1>3, <2>1, <2>2, PutCall DEF HostContinues, TypeOK
  <1>4. CASE TurnBreaks(d)
    <2>1. left' \in [faults : Nat, acts : Nat]
      <3>1. CASE sess[d]
        BY <1>4, <3>1, SpendTypes DEF TurnBreaks, Fault
      <3>2. CASE ~sess[d]
        BY <1>4, <3>2 DEF TurnBreaks, TypeOK
      <3> QED
        BY <3>1, <3>2
    <2> QED
      BY <1>4, <2>1, FailsTypes DEF TurnBreaks
  <1>5. CASE TurnFailsOver(d)
    <2>1. left' \in [faults : Nat, acts : Nat]
      BY <1>5, SpendTypes DEF TurnFailsOver, Fault
    <2>2. CASE Fails(d) /\ UNCHANGED <<session, closed, excused>>
      BY <2>1, <2>2, FailsTypes
    <2>3. CASE ~(Fails(d) /\ UNCHANGED <<session, closed, excused>>)
      <3>1. [NoCall EXCEPT !.at = "queued", !.turn = call[d].turn,
                !.failed = (IF call[d].follow THEN {} ELSE call[d].failed) \cup call[d].agent]
               \in CallSet
        BY <1>0 DEF CallSet, NoCall, Active, HasPermit, HasSlot
      <3>2. Teardown(d, FALSE)
        BY <1>5, <2>3 DEF TurnFailsOver
      <3>3. /\ sess' \in [Delegates -> BOOLEAN]
            /\ handles' \subseteq Delegates /\ tokens' \subseteq Delegates
            /\ handoff' \in [Delegates -> Nat]
            /\ host' \in [Delegates -> {"none", "started", "stopped"}]
        BY <3>2, TeardownTypes
      <3>4. call' \in [Delegates -> CallSet]
        BY <1>5, <2>3, <3>1, PutCall DEF TurnFailsOver
      <3> QED
        BY <1>5, <2>1, <2>3, <3>3, <3>4 DEF TurnFailsOver, TypeOK
    <2> QED
      BY <2>2, <2>3
  <1> QED
    BY <1>1, <1>2, <1>3, <1>4, <1>5

LEMMA TypesOfParent ==
    ASSUME DelegationAssumption, TypeOK,
           CancelParent \/ PromptParent \/ CloseParent \/ ReopenParent \/ SuspendRun
    PROVE  TypeOK'
  <1> USE DEF session, worker
  <1>1. left' \in [faults : Nat, acts : Nat]
    BY SpendTypes DEF CancelParent, PromptParent, CloseParent, ReopenParent, SuspendRun, Act
  <1>2. CASE CloseParent
    <2>1. [NoCall EXCEPT !.at = "over"] \in CallSet
      BY DEF CallSet, NoCall
    <2>2. call' \in [Delegates -> CallSet]
      BY <1>2, <2>1 DEF CloseParent, TypeOK
    <2>3. host' \in [Delegates -> {"none", "started", "stopped"}]
      BY <1>2 DEF CloseParent, HostAfterClose, TypeOK
    <2>4. job' \in [Delegates -> {"none", "running", "done", "collected"}]
      BY <1>2 DEF CloseParent, TypeOK
    <2>5. sess' \in [Delegates -> BOOLEAN]
      BY <1>2 DEF CloseParent, TypeOK
    <2>6. handoff' \in [Delegates -> Nat]
      BY <1>2 DEF CloseParent, TypeOK
    <2> QED
      BY <1>1, <1>2, <2>2, <2>3, <2>4, <2>5, <2>6 DEF CloseParent, TypeOK
  <1>3. CASE CancelParent \/ PromptParent \/ ReopenParent
    BY <1>1, <1>3 DEF CancelParent, PromptParent, ReopenParent, TypeOK
  <1>4. CASE SuspendRun
    BY <1>1, <1>4 DEF SuspendRun, TypeOK
  <1> QED
    BY <1>2, <1>3, <1>4

LEMMA TypesNext ==
    ASSUME DelegationAssumption, TypeOK, [Next]_vars
    PROVE  TypeOK'
  <1>1. CASE \E d \in Delegates : CallStep(d)
    BY <1>1, TypesOfCallStep
  <1>2. CASE \E d \in Delegates : ToolCall(d)
    BY <1>2, TypesOfToolCall
  <1>3. CASE \E d \in Delegates :
               \/ OpenFails(d) \/ StartRefused(d) \/ HostContinues(d) \/ TurnBreaks(d)
               \/ TurnFailsOver(d)
    BY <1>3, TypesOfFaults
  <1>4. CASE CancelParent \/ PromptParent \/ CloseParent \/ ReopenParent \/ SuspendRun
    BY <1>4, TypesOfParent
  <1>5. CASE UNCHANGED vars
    BY <1>5 DEF vars, TypeOK
  <1> QED
    BY <1>1, <1>2, <1>3, <1>4, <1>5 DEF Next

LEMMA TypesInit ==
    ASSUME DelegationAssumption, Init
    PROVE  TypeOK
  <1>1. NoCall \in CallSet
    BY DEF NoCall, CallSet
  <1> QED
    BY <1>1 DEF Init, TypeOK, DelegationAssumption

\* Every variable keeps its type (delegate_mcp.rs, the maps and permits of
\* DelegateState).
THEOREM DelegationTypes == Spec => []TypeOK
  <1>1. Init => TypeOK
    BY TypesInit, DelegationAssumption
  <1>2. TypeOK /\ [Next]_vars => TypeOK'
    BY TypesNext, DelegationAssumption
  <1> QED
    BY <1>1, <1>2, PTL DEF Spec

-----------------------------------------------------------------------------
(* What a delegate owns *)

\* A call that has not reached a session of its own, or is a follow-up, has
\* only what the registry keeps for it; only a live delegate is idle; what a
\* closed delegate may still have is the follow-up that was running.
Owns(d) ==
    /\ call[d].at \in {"none", "over"} => ~sess[d] /\ d \notin tokens /\ d \notin live
    /\ call[d].at \in {"none", "over"} /\ host[d] = "started" => d \in excused
    /\ call[d].at = "idle" => d \in live
    /\ d \in live => call[d].at = "idle" \/ call[d].follow
    /\ call[d].follow => call[d].at \in {"queued", "slot", "running", "judging"}
    /\ call[d].at = "slot" => call[d].follow
    /\ call[d].at \in {"queued", "ranked", "opening"} /\ ~call[d].follow => ~sess[d]
    /\ call[d].at \in {"queued", "ranked"} /\ ~call[d].follow => d \notin tokens
    /\ call[d].follow /\ d \notin live => ~sess[d] /\ d \notin tokens /\ host[d] # "started"
    /\ d \in closed => d \notin live /\ ~sess[d] /\ (call[d].at = "over" \/ call[d].follow)

\* A handoff is of the turn that runs, and there is none before the first.
Noted(d) ==
    /\ call[d].at \in {"none", "queued", "ranked", "opening", "starting"} /\ ~call[d].follow
          => handoff[d] = 0
    /\ call[d].at \in {"running", "judging"} => handoff[d] \in {0, call[d].turn}

Sound(d) == Owns(d) /\ Noted(d)

DelegationInv == TypeOK /\ \A d \in Delegates : Sound(d)

\* A step about one delegate leaves the others alone.
Untouched(e) ==
    /\ call'[e] = call[e] /\ sess'[e] = sess[e] /\ host'[e] = host[e]
    /\ handoff'[e] = handoff[e]
    /\ e \in live' <=> e \in live
    /\ e \in tokens' <=> e \in tokens
    /\ e \in closed' <=> e \in closed
    /\ e \in excused => e \in excused'

OthersUntouched(d) == \A e \in Delegates \ {d} : Untouched(e)

LEMMA UntouchedSound ==
    ASSUME NEW e \in Delegates, Sound(e), Untouched(e)
    PROVE  Sound(e)'
  BY DEF Sound, Owns, Noted, Untouched

\* What the end of a call leaves of it.
LEMMA EndedCall ==
    ASSUME TypeOK, NEW d \in Delegates, Ended(d)
    PROVE  /\ call'[d].at = IF d \in live' THEN "idle" ELSE "over"
           /\ call'[d].follow = FALSE
           /\ \A e \in Delegates \ {d} : call'[e] = call[e]
  BY DEF Ended, NoCall, TypeOK

LEMMA TeardownLeaves ==
    ASSUME TypeOK, NEW d \in Delegates, NEW told \in BOOLEAN, Teardown(d, told)
    PROVE  /\ ~sess'[d] /\ d \notin tokens' /\ handoff'[d] = 0
           /\ told => host'[d] # "started"
           /\ \A e \in Delegates \ {d} :
                 /\ sess'[e] = sess[e] /\ handoff'[e] = handoff[e] /\ host'[e] = host[e]
                 /\ e \in tokens' <=> e \in tokens
  BY DEF Teardown, TypeOK

LEMMA SoundRefused ==
    ASSUME TypeOK, NEW d \in Delegates, Sound(d), Refused(d),
           call[d].at \in {"queued", "ranked"}, call[d].follow => d \notin live
    PROVE  Sound(d)' /\ OthersUntouched(d)
  <1>1. /\ call'[d].at = IF d \in live' THEN "idle" ELSE "over"
        /\ call'[d].follow = FALSE
        /\ \A e \in Delegates \ {d} : call'[e] = call[e]
    BY EndedCall DEF Refused
  <1>2. live' = live /\ UNCHANGED <<sess, tokens, host, handoff, closed>>
    BY DEF Refused
  <1>3. host[d] = "started" /\ d \notin live => d \in excused'
    BY DEF Refused
  <1>4. excused \subseteq excused'
    BY DEF Refused
  <1>5. Sound(d)'
    BY <1>1, <1>2, <1>3 DEF Sound, Owns, Noted
  <1>6. OthersUntouched(d)
    BY <1>1, <1>2, <1>4 DEF OthersUntouched, Untouched
  <1> QED
    BY <1>5, <1>6

\* The end of a turn, given up or left open.
LEMMA SoundFails ==
    ASSUME TypeOK, NEW d \in Delegates, Sound(d), Fails(d), call[d].at \in {"running", "judging"},
           UNCHANGED <<closed, excused>>
    PROVE  Sound(d)' /\ OthersUntouched(d)
  <1>1. /\ call'[d].at = IF d \in live' THEN "idle" ELSE "over"
        /\ call'[d].follow = FALSE
        /\ \A e \in Delegates \ {d} : call'[e] = call[e]
    BY EndedCall DEF Fails
  <1>2. CASE call[d].follow
    <2>1. live' = live /\ UNCHANGED <<sess, tokens, host, handoff, closed, excused>>
      BY <1>2 DEF Fails
    <2>2. Sound(d)'
      BY <1>1, <1>2, <2>1 DEF Sound, Owns, Noted
    <2> QED
      BY <1>1, <2>1, <2>2 DEF OthersUntouched, Untouched
  <1>3. CASE ~call[d].follow
    <2>1. live' = live /\ Teardown(d, TRUE)
      BY <1>3 DEF Fails
    <2>2. /\ ~sess'[d] /\ d \notin tokens' /\ handoff'[d] = 0 /\ host'[d] # "started"
          /\ \A e \in Delegates \ {d} :
                /\ sess'[e] = sess[e] /\ handoff'[e] = handoff[e] /\ host'[e] = host[e]
                /\ e \in tokens' <=> e \in tokens
      BY <2>1, TeardownLeaves
    <2>3. Sound(d)'
      BY <1>1, <1>3, <2>1, <2>2 DEF Sound, Owns, Noted
    <2> QED
      BY <1>1, <2>1, <2>2, <2>3 DEF OthersUntouched, Untouched
  <1> QED
    BY <1>2, <1>3

LEMMA SoundCallStep ==
    ASSUME TypeOK, NEW d \in Delegates, Sound(d), CallStep(d)
    PROVE  Sound(d)' /\ OthersUntouched(d)
  <1> USE DEF At, worker, session
  <1>1. CASE Rank(d)
    <2>1. CASE Refused(d)
      BY <1>1, <2>1, SoundRefused DEF Rank
    <2>2. CASE ~Refused(d)
      <3>0. call' = [call EXCEPT ![d] = [@ EXCEPT !.at = "ranked",
                                                  !.rest = Agents \ call[d].failed]]
        BY <1>1, <2>2 DEF Rank
      <3>1. /\ call'[d].at = "ranked" /\ call'[d].follow = call[d].follow
            /\ \A e \in Delegates \ {d} : call'[e] = call[e]
        BY <3>0 DEF TypeOK, CallSet, NoCall
      <3> QED
        BY <1>1, <2>2, <3>1 DEF Rank, Sound, Owns, Noted, OthersUntouched, Untouched
    <2> QED
      BY <2>1, <2>2
  <1>2. CASE TakeSlot(d)
    <2>0. ~call[d].follow
      BY <1>2 DEF TakeSlot, Sound, Owns
    <2>1. CASE Refused(d)
      BY <1>2, <2>0, <2>1, SoundRefused DEF TakeSlot
    <2>2. CASE ~Refused(d)
      <3>1. PICK a \in call[d].rest :
              /\ call' = [call EXCEPT ![d] = [@ EXCEPT
                    !.rest = call[d].rest \ {a},
                    !.at = IF Busy(a) THEN "ranked" ELSE "opening",
                    !.agent = IF Busy(a) THEN {} ELSE {a}]]
              /\ tokens' = IF Busy(a) THEN tokens ELSE tokens \cup {d}
              /\ UNCHANGED <<session, sess, handles, live, host, handoff, job, left, closed,
                             excused>>
        BY <1>2, <2>2 DEF TakeSlot
      <3>2. /\ call'[d].at = IF Busy(a) THEN "ranked" ELSE "opening"
            /\ call'[d].follow = call[d].follow
            /\ \A e \in Delegates \ {d} : call'[e] = call[e]
        BY <3>1 DEF TypeOK, CallSet
      <3>3. call'[d].at \in {"ranked", "opening"}
        BY <3>2
      <3>4. call'[d].at = "ranked" => tokens' = tokens
        BY <3>1, <3>2
      <3>5. Sound(d)'
        BY <1>2, <2>0, <3>1, <3>2, <3>3, <3>4 DEF TakeSlot, Sound, Owns, Noted
      <3>6. OthersUntouched(d)
        BY <3>1, <3>2 DEF OthersUntouched, Untouched
      <3> QED
        BY <3>5, <3>6
    <2> QED
      BY <2>1, <2>2
  <1>3. CASE Opened(d)
    <2>1. /\ call'[d].at = "starting" /\ call'[d].follow = call[d].follow
          /\ \A e \in Delegates \ {d} : call'[e] = call[e]
      BY <1>3 DEF Opened, TypeOK, CallSet
    <2>2. \A e \in Delegates \ {d} : sess'[e] = sess[e]
      BY <1>3 DEF Opened, TypeOK
    <2> QED
      BY <1>3, <2>1, <2>2 DEF Opened, Sound, Owns, Noted, OthersUntouched, Untouched
  <1>4. CASE StartAccepted(d)
    <2>1. CASE Unwanted \/ Suspended
      <3>1. /\ call'[d].at = IF d \in live' THEN "idle" ELSE "over"
            /\ call'[d].follow = FALSE
            /\ \A e \in Delegates \ {d} : call'[e] = call[e]
        BY <1>4, <2>1, EndedCall DEF StartAccepted
      <3>2. /\ ~sess'[d] /\ d \notin tokens' /\ host'[d] = "stopped"
            /\ \A e \in Delegates \ {d} :
                  /\ sess'[e] = sess[e] /\ host'[e] = host[e]
                  /\ e \in tokens' <=> e \in tokens
            /\ UNCHANGED <<live, handoff, closed, excused>>
        BY <1>4, <2>1 DEF StartAccepted, TypeOK
      <3>3. Sound(d)'
        BY <1>4, <3>1, <3>2 DEF StartAccepted, Sound, Owns, Noted
      <3> QED
        BY <3>1, <3>2, <3>3 DEF OthersUntouched, Untouched
    <2>2. CASE ~(Unwanted \/ Suspended)
      <3>0. call' = [call EXCEPT ![d] = [@ EXCEPT !.at = "running", !.turn = call[d].turn + 1]]
        BY <1>4, <2>2 DEF StartAccepted
      <3>1. /\ call'[d].at = "running" /\ call'[d].follow = call[d].follow
            /\ \A e \in Delegates \ {d} : call'[e] = call[e]
        BY <3>0 DEF TypeOK, CallSet, NoCall
      <3>2. /\ \A e \in Delegates \ {d} : host'[e] = host[e]
            /\ UNCHANGED <<sess, tokens, live, handoff, closed, excused>>
        BY <1>4, <2>2 DEF StartAccepted, TypeOK
      <3>3. Sound(d)'
        BY <1>4, <3>1, <3>2 DEF StartAccepted, Sound, Owns, Noted
      <3> QED
        BY <3>1, <3>2, <3>3 DEF OthersUntouched, Untouched
    <2> QED
      BY <2>1, <2>2
  <1>5. CASE TurnEnds(d)
    <2>1. /\ call'[d].at = "judging" /\ call'[d].follow = call[d].follow
          /\ call'[d].turn = call[d].turn
          /\ \A e \in Delegates \ {d} : call'[e] = call[e]
      BY <1>5 DEF TurnEnds, TypeOK, CallSet
    <2> QED
      BY <1>5, <2>1 DEF TurnEnds, Sound, Owns, Noted, OthersUntouched, Untouched
  <1>6. CASE HostReleases(d)
    <2>1. /\ call'[d].at = IF d \in live' THEN "idle" ELSE "over"
          /\ call'[d].follow = FALSE
          /\ \A e \in Delegates \ {d} : call'[e] = call[e]
      BY <1>6, EndedCall DEF HostReleases
    <2>2. CASE call[d].follow \/ d \notin Kept
      <3>1. Fails(d) /\ UNCHANGED <<closed, excused>>
        BY <1>6, <2>2 DEF HostReleases, Fails
      <3> QED
        BY <1>6, <3>1, SoundFails DEF HostReleases
    <2>3. CASE ~call[d].follow /\ d \in Kept
      <3>1. /\ live' = live \cup {d} /\ excused \subseteq excused'
            /\ UNCHANGED <<sess, handles, tokens, host, handoff, closed>>
        BY <1>6, <2>3 DEF HostReleases
      <3>2. Sound(d)'
        BY <1>6, <2>1, <2>3, <3>1 DEF HostReleases, Sound, Owns, Noted
      <3> QED
        BY <2>1, <3>1, <3>2 DEF OthersUntouched, Untouched
    <2> QED
      BY <2>2, <2>3
  <1>7. CASE TurnCancelled(d)
    BY <1>7, SoundFails DEF TurnCancelled
  <1>8. CASE FollowupFound(d)
    <2>1. CASE d \notin live
      BY <1>8, <2>1, SoundRefused DEF FollowupFound
    <2>2. CASE d \in live
      <3>0. call' = [call EXCEPT ![d].at = "slot"]
        BY <1>8, <2>2 DEF FollowupFound
      <3>1. /\ call'[d].at = "slot" /\ call'[d].follow = call[d].follow
            /\ \A e \in Delegates \ {d} : call'[e] = call[e]
        BY <3>0 DEF TypeOK, CallSet, NoCall
      <3> QED
        BY <1>8, <2>2, <3>1 DEF FollowupFound, Sound, Owns, Noted, OthersUntouched, Untouched
    <2> QED
      BY <2>1, <2>2
  <1>9. CASE FollowupRuns(d)
    <2>1. /\ handoff'[d] = 0 /\ \A e \in Delegates \ {d} : handoff'[e] = handoff[e]
          /\ UNCHANGED <<sess, live, tokens, host, closed, excused>>
      BY <1>9 DEF FollowupRuns, NextHandoff, TypeOK
    <2>2. CASE parent.open /\ parent.cancelled
      <3>1. /\ call'[d].at = IF d \in live' THEN "idle" ELSE "over"
            /\ call'[d].follow = FALSE
            /\ \A e \in Delegates \ {d} : call'[e] = call[e]
        BY <1>9, <2>2, EndedCall DEF FollowupRuns
      <3>2. Sound(d)'
        BY <1>9, <2>1, <3>1 DEF FollowupRuns, Sound, Owns, Noted
      <3> QED
        BY <2>1, <3>1, <3>2 DEF OthersUntouched, Untouched
    <2>3. CASE ~(parent.open /\ parent.cancelled)
      <3>0. call' = [call EXCEPT ![d] = [@ EXCEPT !.at = "running", !.turn = call[d].turn + 1]]
        BY <1>9, <2>3 DEF FollowupRuns
      <3>1. /\ call'[d].at = "running" /\ call'[d].follow = call[d].follow
            /\ \A e \in Delegates \ {d} : call'[e] = call[e]
        BY <3>0 DEF TypeOK, CallSet, NoCall
      <3>2. Sound(d)'
        BY <1>9, <2>1, <3>1 DEF FollowupRuns, Sound, Owns, Noted
      <3> QED
        BY <2>1, <3>1, <3>2 DEF OthersUntouched, Untouched
    <2> QED
      BY <2>2, <2>3
  <1> QED
    BY <1>1, <1>2, <1>3, <1>4, <1>5, <1>6, <1>7, <1>8, <1>9 DEF CallStep

LEMMA SoundToolCall ==
    ASSUME TypeOK, NEW d \in Delegates, Sound(d), ToolCall(d)
    PROVE  Sound(d)' /\ OthersUntouched(d)
  <1> USE DEF At, worker, session
  <1>1. CASE Delegate(d)
    <2>1. /\ call'[d].at = "queued" /\ call'[d].follow = call[d].follow
          /\ \A e \in Delegates \ {d} : call'[e] = call[e]
      BY <1>1 DEF Delegate, TypeOK, CallSet
    <2> QED
      BY <1>1, <2>1 DEF Delegate, Sound, Owns, Noted, OthersUntouched, Untouched
  <1>2. CASE Followup(d)
    <2>1. /\ call'[d].at = "queued" /\ call'[d].follow = TRUE
          /\ \A e \in Delegates \ {d} : call'[e] = call[e]
      BY <1>2 DEF Followup, TypeOK, CallSet
    <2> QED
      BY <1>2, <2>1 DEF Followup, Sound, Owns, Noted, OthersUntouched, Untouched
  <1>3. CASE Close(d)
    <2>1. /\ ~sess'[d] /\ d \notin tokens' /\ handoff'[d] = 0 /\ host'[d] # "started"
          /\ \A e \in Delegates \ {d} :
                /\ sess'[e] = sess[e] /\ handoff'[e] = handoff[e] /\ host'[e] = host[e]
                /\ e \in tokens' <=> e \in tokens
      BY <1>3, TeardownLeaves DEF Close
    <2>2. /\ live' = live \ {d} /\ closed' = closed \cup {d} /\ d \in live
          /\ UNCHANGED excused
      BY <1>3 DEF Close
    <2>3. \A e \in Delegates \ {d} : call'[e] = call[e]
      BY <1>3 DEF Close, TypeOK
    <2>4. CASE call[d].at = "idle"
      <3>1. call'[d] = [NoCall EXCEPT !.at = "over"]
        BY <1>3, <2>4 DEF Close, TypeOK
      <3>2. call'[d].at = "over" /\ call'[d].follow = FALSE
        BY <3>1 DEF NoCall
      <3>3. Sound(d)'
        BY <2>1, <2>2, <3>2 DEF Sound, Owns, Noted
      <3> QED
        BY <2>1, <2>2, <2>3, <3>3 DEF OthersUntouched, Untouched
    <2>5. CASE call[d].at # "idle"
      <3>1. call'[d] = call[d]
        BY <1>3, <2>5 DEF Close, TypeOK
      <3>2. Sound(d)'
        BY <2>1, <2>2, <2>5, <3>1 DEF Sound, Owns, Noted
      <3> QED
        BY <2>1, <2>2, <2>3, <3>2 DEF OthersUntouched, Untouched
    <2> QED
      BY <2>4, <2>5
  <1>4. CASE Await
    BY <1>4 DEF Await, Sound, Owns, Noted, OthersUntouched, Untouched
  <1>5. CASE WorkerHandoff(d)
    <2>1. /\ handoff'[d] = call[d].turn /\ \A e \in Delegates \ {d} : handoff'[e] = handoff[e]
          /\ UNCHANGED <<call, sess, live, tokens, host, closed, excused>>
          /\ call[d].at \in {"running", "judging", "idle"}
      BY <1>5 DEF WorkerHandoff, TypeOK
    <2>2. Sound(d)'
      BY <2>1 DEF Sound, Owns, Noted
    <2> QED
      BY <2>1, <2>2 DEF OthersUntouched, Untouched
  <1> QED
    BY <1>1, <1>2, <1>3, <1>4, <1>5 DEF ToolCall

LEMMA SoundFaults ==
    ASSUME TypeOK, NEW d \in Delegates, Sound(d),
           \/ OpenFails(d) \/ StartRefused(d) \/ HostContinues(d) \/ TurnBreaks(d)
           \/ TurnFailsOver(d)
    PROVE  Sound(d)' /\ OthersUntouched(d)
  <1> USE DEF At, worker, session
  <1>1. CASE OpenFails(d)
    <2>1. /\ call'[d].at = "ranked" /\ call'[d].follow = call[d].follow
          /\ \A e \in Delegates \ {d} : call'[e] = call[e]
      BY <1>1 DEF OpenFails, TypeOK, CallSet
    <2> QED
      BY <1>1, <2>1 DEF OpenFails, Sound, Owns, Noted, OthersUntouched, Untouched
  <1>2. CASE StartRefused(d)
    <2>1. /\ call'[d].at = IF d \in live' THEN "idle" ELSE "over"
          /\ call'[d].follow = FALSE
          /\ \A e \in Delegates \ {d} : call'[e] = call[e]
      BY <1>2, EndedCall DEF StartRefused
    <2>2. /\ ~sess'[d] /\ d \notin tokens' /\ handoff'[d] = 0 /\ host'[d] # "started"
          /\ \A e \in Delegates \ {d} :
                /\ sess'[e] = sess[e] /\ handoff'[e] = handoff[e] /\ host'[e] = host[e]
                /\ e \in tokens' <=> e \in tokens
      BY <1>2, TeardownLeaves DEF StartRefused
    <2>3. Sound(d)'
      BY <1>2, <2>1, <2>2 DEF StartRefused, Sound, Owns, Noted
    <2> QED
      BY <1>2, <2>1, <2>2, <2>3 DEF StartRefused, OthersUntouched, Untouched
  <1>3. CASE HostContinues(d)
    <2>1. /\ call'[d].at = "running" /\ call'[d].follow = call[d].follow
          /\ \A e \in Delegates \ {d} : call'[e] = call[e]
      BY <1>3 DEF HostContinues, TypeOK, CallSet
    <2>2. /\ handoff'[d] = 0 /\ \A e \in Delegates \ {d} : handoff'[e] = handoff[e]
          /\ UNCHANGED <<sess, live, tokens, host, closed, excused>>
      BY <1>3 DEF HostContinues, TypeOK
    <2>3. Sound(d)'
      BY <1>3, <2>1, <2>2 DEF HostContinues, Sound, Owns, Noted
    <2> QED
      BY <2>1, <2>2, <2>3 DEF OthersUntouched, Untouched
  <1>4. CASE TurnBreaks(d)
    BY <1>4, SoundFails DEF TurnBreaks
  <1>5. CASE TurnFailsOver(d)
    <2>1. CASE Fails(d) /\ UNCHANGED <<session, closed, excused>>
      BY <1>5, <2>1, SoundFails DEF TurnFailsOver
    <2>2. CASE ~(Fails(d) /\ UNCHANGED <<session, closed, excused>>)
      <3>0. call' = [call EXCEPT ![d] = [NoCall EXCEPT
                  !.at = "queued", !.turn = call[d].turn,
                  !.failed = (IF call[d].follow THEN {} ELSE call[d].failed) \cup call[d].agent]]
        BY <1>5, <2>2 DEF TurnFailsOver
      <3>1. /\ Teardown(d, FALSE) /\ FailoverOwned(d) /\ live' = live \ {d}
            /\ UNCHANGED <<closed, excused>>
        BY <1>5, <2>2 DEF TurnFailsOver
      <3>2. /\ call'[d].at = "queued" /\ call'[d].follow = FALSE
            /\ \A e \in Delegates \ {d} : call'[e] = call[e]
        BY <3>0 DEF TypeOK, CallSet, NoCall
      <3>3. /\ ~sess'[d] /\ d \notin tokens' /\ handoff'[d] = 0
            /\ \A e \in Delegates \ {d} :
                  /\ sess'[e] = sess[e] /\ handoff'[e] = handoff[e] /\ host'[e] = host[e]
                  /\ e \in tokens' <=> e \in tokens
        BY <3>1, TeardownLeaves
      <3>4. Sound(d)'
        BY <1>5, <3>1, <3>2, <3>3 DEF TurnFailsOver, FailoverOwned, Sound, Owns, Noted
      <3> QED
        BY <3>1, <3>2, <3>3, <3>4 DEF OthersUntouched, Untouched
    <2> QED
      BY <2>1, <2>2
  <1> QED
    BY <1>1, <1>2, <1>3, <1>4, <1>5

\* The close of the parent ends every idle delegate and empties the registry;
\* a first call in flight keeps what it has.
LEMMA SoundCloseParent ==
    ASSUME TypeOK, NEW d \in Delegates, Sound(d), CloseParent
    PROVE  Sound(d)'
  <1> USE DEF At
  <1>1. /\ d \notin live' /\ sess'[d] = (sess[d] /\ d \notin live \cup handles)
        /\ d \in tokens' <=> d \in tokens /\ d \notin live
        /\ handoff'[d] = IF d \in live THEN 0 ELSE handoff[d]
        /\ host'[d] = IF d \in live /\ host[d] = "started" THEN "stopped" ELSE host[d]
        /\ UNCHANGED <<closed, excused>>
    BY DEF CloseParent, CloseSessions, HostAfterClose
  <1>2. CASE call[d].at = "idle"
    <2>1. call'[d] = [NoCall EXCEPT !.at = "over"]
      BY <1>2 DEF CloseParent
    <2>2. call'[d].at = "over" /\ call'[d].follow = FALSE
      BY <2>1 DEF NoCall
    <2> QED
      BY <1>1, <1>2, <2>2 DEF Sound, Owns, Noted
  <1>3. CASE call[d].at # "idle"
    <2>1. call'[d] = call[d]
      BY <1>3 DEF CloseParent
    <2> QED
      BY <1>1, <1>3, <2>1 DEF Sound, Owns, Noted
  <1> QED
    BY <1>2, <1>3

LEMMA SoundNext ==
    ASSUME DelegationAssumption, DelegationInv, [Next]_vars
    PROVE  DelegationInv'
  <1>1. TypeOK'
    BY TypesNext DEF DelegationInv
  <1>2. ASSUME NEW d \in Delegates, Sound(d)' /\ OthersUntouched(d)
        PROVE  DelegationInv'
    <2>1. ASSUME NEW e \in Delegates PROVE Sound(e)'
      <3>1. CASE e = d
        BY <1>2, <3>1
      <3>2. CASE e # d
        BY <1>2, <3>2, UntouchedSound DEF DelegationInv, OthersUntouched
      <3> QED
        BY <3>1, <3>2
    <2> QED
      BY <1>1, <2>1 DEF DelegationInv
  <1>3. CASE \E d \in Delegates :
               \/ CallStep(d) \/ ToolCall(d) \/ OpenFails(d) \/ StartRefused(d)
               \/ HostContinues(d) \/ TurnBreaks(d) \/ TurnFailsOver(d)
    <2>1. PICK d \in Delegates :
               \/ CallStep(d) \/ ToolCall(d) \/ OpenFails(d) \/ StartRefused(d)
               \/ HostContinues(d) \/ TurnBreaks(d) \/ TurnFailsOver(d)
      BY <1>3
    <2>2. Sound(d) /\ TypeOK
      BY DEF DelegationInv
    <2>3. Sound(d)' /\ OthersUntouched(d)
      BY <2>1, <2>2, SoundCallStep, SoundToolCall, SoundFaults
    <2> QED
      BY <1>2, <2>3
  <1>4. CASE CloseParent
    BY <1>1, <1>4, SoundCloseParent DEF DelegationInv
  <1>5. CASE \/ CancelParent \/ PromptParent \/ ReopenParent \/ SuspendRun \/ UNCHANGED vars
    <2>1. UNCHANGED <<call, sess, live, tokens, host, handoff, closed, excused>>
      BY <1>5 DEF CancelParent, PromptParent, ReopenParent, SuspendRun, vars, worker
    <2>2. ASSUME NEW e \in Delegates PROVE Sound(e)'
      BY <2>1, UntouchedSound DEF Untouched, DelegationInv
    <2> QED
      BY <1>1, <2>2 DEF DelegationInv
  <1> QED
    BY <1>3, <1>4, <1>5 DEF Next

LEMMA SoundInit ==
    ASSUME DelegationAssumption, Init
    PROVE  DelegationInv
  <1>1. ASSUME NEW d \in Delegates PROVE Sound(d)
    BY DEF Init, NoCall, Sound, Owns, Noted
  <1> QED
    BY <1>1, TypesInit DEF DelegationInv

\* The inductive invariant: what each delegate owns follows from where its call
\* is (run_delegation, followup and close in delegate_mcp.rs).
THEOREM DelegationInvariant == Spec => []DelegationInv
  <1>1. Init => DelegationInv
    BY SoundInit, DelegationAssumption
  <1>2. DelegationInv /\ [Next]_vars => DelegationInv'
    BY SoundNext, DelegationAssumption
  <1> QED
    BY <1>1, <1>2, PTL DEF Spec

\* A worker the host has registered belongs to a call that is going on or to
\* the registry of live delegates, but for the two ways out the code has
\* (finish_worker in delegate_mcp.rs).
THEOREM WorkersAccounted == Spec => []HostAccounted
  <1>1. DelegationInv => HostAccounted
    <2> SUFFICES ASSUME DelegationInv, NEW d \in Delegates, host[d] = "started",
                        call[d].at \notin Active, d \notin live
                 PROVE  d \in excused
      BY DEF HostAccounted
    <2>1. call[d].at \in {"none", "idle", "over"}
      BY DEF DelegationInv, TypeOK, CallSet
    <2> QED
      BY <2>1 DEF DelegationInv, Sound, Owns
  <1> QED
    BY <1>1, DelegationInvariant, PTL

\* An open delegate session and a valid worker token belong to a call that is
\* going on or to a live delegate (teardown in delegate_mcp.rs).
THEOREM SessionsOwned == Spec => []NothingLeaks
  <1>1. DelegationInv => NothingLeaks
    <2> SUFFICES ASSUME DelegationInv, NEW d \in Delegates, sess[d] \/ d \in tokens,
                        call[d].at \notin Active, d \notin live
                 PROVE  FALSE
      BY DEF NothingLeaks
    <2>1. call[d].at \in {"none", "idle", "over"}
      BY DEF DelegationInv, TypeOK, CallSet
    <2> QED
      BY <2>1 DEF DelegationInv, Sound, Owns
  <1> QED
    BY <1>1, DelegationInvariant, PTL

\* A delegate that was closed has no session again, whatever follow-up was
\* running and fails over (close and the failover of followup).
THEOREM ClosedForGood == Spec => []ClosedStaysClosed
  <1>1. DelegationInv => ClosedStaysClosed
    BY DEF DelegationInv, TypeOK, Sound, Owns, ClosedStaysClosed
  <1> QED
    BY <1>1, DelegationInvariant, PTL

\* The host judges the handoff of the turn that ended and never one of an
\* earlier turn, account or call (worker_handoff and the turn end).
THEOREM HandoffIsFresh == Spec => HandoffOfThisTurn
  <1>1. DelegationInv /\ [Next]_vars =>
          [\A d \in Delegates : At(d, "running") /\ call'[d].at = "judging"
              => handoff[d] \in {0, call[d].turn}]_vars
    BY DEF DelegationInv, Sound, Noted, At
  <1> QED
    BY <1>1, DelegationInvariant, PTL DEF Spec, HandoffOfThisTurn

-----------------------------------------------------------------------------
(* Background results *)

LEMMA ResultStep ==
    ASSUME DelegationAssumption, TypeOK, [Next]_vars, NEW b \in Background,
           job[b] = "running", parent'.open
    PROVE  job'[b] \in {"running", "done"}
  <1>0. b \in Delegates
    BY DEF DelegationAssumption
  <1>1. ASSUME NEW d \in Delegates, Ended(d) PROVE job'[b] \in {"running", "done"}
    BY <1>0, <1>1 DEF Ended, JobAfter, TypeOK
  <1>2. ASSUME NEW d \in Delegates, CallStep(d) PROVE job'[b] \in {"running", "done"}
    <2>1. Ended(d) \/ job' = job
      BY <1>2 DEF CallStep, Rank, TakeSlot, Opened, StartAccepted, TurnEnds, HostReleases,
           TurnCancelled, FollowupFound, FollowupRuns, Refused, Fails
    <2> QED
      BY <1>1, <2>1
  <1>3. ASSUME NEW d \in Delegates, ToolCall(d) PROVE job'[b] \in {"running", "done"}
    <2>1. CASE Delegate(d)
      BY <1>0, <2>1 DEF Delegate, TypeOK
    <2>2. CASE Followup(d)
      BY <1>0, <2>2 DEF Followup, TypeOK
    <2>3. CASE Await
      BY <1>0, <2>3 DEF Await, Collected
    <2>4. CASE Close(d) \/ WorkerHandoff(d)
      BY <2>4 DEF Close, WorkerHandoff
    <2> QED
      BY <1>3, <2>1, <2>2, <2>3, <2>4 DEF ToolCall
  <1>4. ASSUME NEW d \in Delegates,
               \/ OpenFails(d) \/ StartRefused(d) \/ HostContinues(d) \/ TurnBreaks(d)
               \/ TurnFailsOver(d)
        PROVE  job'[b] \in {"running", "done"}
    <2>1. Ended(d) \/ job' = job
      BY <1>4 DEF OpenFails, StartRefused, HostContinues, TurnBreaks, TurnFailsOver, Fails
    <2> QED
      BY <1>1, <2>1
  <1>5. CASE CloseParent
    BY <1>5 DEF CloseParent, TypeOK
  <1>6. CASE \/ CancelParent \/ PromptParent \/ ReopenParent \/ SuspendRun \/ UNCHANGED vars
    BY <1>6 DEF CancelParent, PromptParent, ReopenParent, SuspendRun, vars
  <1> QED
    BY <1>2, <1>3, <1>4, <1>5, <1>6 DEF Next

\* An unfinished background job stays registered until it has its result,
\* whatever the parent collects meanwhile, unless the parent is closed
\* (delegate_await takes finished jobs only).
THEOREM ResultsKept == Spec => ResultKept
  <1>1. TypeOK /\ [Next]_vars =>
          [\A d \in Background : job[d] = "running" /\ parent'.open
              => job'[d] \in {"running", "done"}]_vars
    BY ResultStep, DelegationAssumption
  <1> QED
    BY <1>1, DelegationTypes, PTL DEF Spec, ResultKept

-----------------------------------------------------------------------------
(* Permits and slots *)

PermitsHeld == IsFiniteSet(Permitted) /\ Cardinality(Permitted) <= permits

\* Two calls never have the slot of one account.
SlotsExclusive ==
    \A d, e \in Delegates :
        d # e /\ call[d].at \in HasSlot /\ call[e].at \in HasSlot
            => call[d].agent \cap call[e].agent = {}

\* What a step does for the permits and the slots: it ends a call, leaves the
\* call where it was, takes a permit that is free or a slot nobody has.
Frees(d) == call'[d].at \notin HasPermit
Stays(d) ==
    /\ call[d].at \in HasPermit
    /\ call'[d].at \in HasSlot => call[d].at \in HasSlot /\ call'[d].agent = call[d].agent
Enters(d) == PermitFree /\ call'[d].at \notin HasSlot
TakesSlot(d) ==
    /\ call[d].at \in HasPermit
    /\ \A a \in call'[d].agent : ~Busy(a)
Moves(d) ==
    /\ \A e \in Delegates \ {d} : call'[e] = call[e]
    /\ Frees(d) \/ Stays(d) \/ Enters(d) \/ TakesSlot(d)

LEMMA FreesOrMoves ==
    ASSUME TypeOK, NEW d \in Delegates, Ended(d)
    PROVE  Moves(d)
  <1>1. call'[d].at \in {"idle", "over"} /\ \A e \in Delegates \ {d} : call'[e] = call[e]
    BY EndedCall
  <1> QED
    BY <1>1 DEF Moves, Frees, HasPermit, HasSlot

LEMMA MovesCallStep ==
    ASSUME TypeOK, NEW d \in Delegates, CallStep(d)
    PROVE  Moves(d) /\ permits' = permits
  <1> USE DEF At, session
  <1>0. permits' = permits
    BY DEF CallStep, Rank, TakeSlot, Opened, StartAccepted, TurnEnds, HostReleases,
       TurnCancelled, FollowupFound, FollowupRuns, Refused
  <1>1. CASE Ended(d)
    BY <1>0, <1>1, FreesOrMoves
  <1>2. CASE Rank(d) /\ ~Ended(d)
    <2>1. call' = [call EXCEPT ![d] = [@ EXCEPT !.at = "ranked",
                                                !.rest = Agents \ call[d].failed]]
      BY <1>2 DEF Rank, Refused
    <2>2. /\ call'[d].at = "ranked"
          /\ \A e \in Delegates \ {d} : call'[e] = call[e]
      BY <2>1 DEF TypeOK, CallSet
    <2> QED
      BY <1>0, <1>2, <2>2 DEF Rank, Moves, Enters, HasSlot
  <1>3. CASE TakeSlot(d) /\ ~Ended(d)
    <2>1. PICK a \in call[d].rest :
              call' = [call EXCEPT ![d] = [@ EXCEPT
                    !.rest = call[d].rest \ {a},
                    !.at = IF Busy(a) THEN "ranked" ELSE "opening",
                    !.agent = IF Busy(a) THEN {} ELSE {a}]]
      BY <1>3 DEF TakeSlot, Refused
    <2>2. /\ call'[d].at = IF Busy(a) THEN "ranked" ELSE "opening"
          /\ call'[d].agent = IF Busy(a) THEN {} ELSE {a}
          /\ \A e \in Delegates \ {d} : call'[e] = call[e]
      BY <2>1 DEF TypeOK, CallSet
    <2>3. call[d].at \in HasPermit
      BY <1>3 DEF TakeSlot, HasPermit
    <2>4. CASE Busy(a)
      BY <1>0, <2>2, <2>3, <2>4 DEF Moves, Stays, HasSlot
    <2>5. CASE ~Busy(a)
      BY <1>0, <2>2, <2>3, <2>5 DEF Moves, TakesSlot
    <2> QED
      BY <2>4, <2>5
  <1>4. CASE Opened(d) \/ TurnEnds(d) \/ (StartAccepted(d) /\ ~Ended(d))
    <2>1. \/ call' = [call EXCEPT ![d].at = "starting"]
          \/ call' = [call EXCEPT ![d].at = "judging"]
          \/ call' = [call EXCEPT ![d] = [@ EXCEPT !.at = "running", !.turn = call[d].turn + 1]]
      BY <1>4 DEF Opened, TurnEnds, StartAccepted
    <2>2. /\ call'[d].agent = call[d].agent
          /\ \A e \in Delegates \ {d} : call'[e] = call[e]
      <3>1. CASE call' = [call EXCEPT ![d].at = "starting"]
        BY <3>1 DEF TypeOK, CallSet
      <3>2. CASE call' = [call EXCEPT ![d].at = "judging"]
        BY <3>2 DEF TypeOK, CallSet
      <3>3. CASE call' = [call EXCEPT ![d] = [@ EXCEPT !.at = "running",
                                                       !.turn = call[d].turn + 1]]
        BY <3>3 DEF TypeOK, CallSet
      <3> QED
        BY <2>1, <3>1, <3>2, <3>3
    <2>3. call[d].at \in HasSlot /\ call[d].at \in HasPermit
      BY <1>4 DEF Opened, TurnEnds, StartAccepted, HasPermit, HasSlot
    <2> QED
      BY <1>0, <2>2, <2>3 DEF Moves, Stays
  <1>5. CASE FollowupFound(d) /\ ~Ended(d)
    <2>1. call' = [call EXCEPT ![d].at = "slot"]
      BY <1>5 DEF FollowupFound, Refused
    <2>2. /\ call'[d].at = "slot"
          /\ \A e \in Delegates \ {d} : call'[e] = call[e]
      BY <2>1 DEF TypeOK, CallSet
    <2> QED
      BY <1>0, <1>5, <2>2 DEF FollowupFound, Moves, Enters, HasSlot
  <1>6. CASE FollowupRuns(d) /\ ~Ended(d)
    <2>1. call' = [call EXCEPT ![d] = [@ EXCEPT !.at = "running", !.turn = call[d].turn + 1]]
      BY <1>6 DEF FollowupRuns
    <2>2. /\ call'[d].agent = call[d].agent
          /\ \A e \in Delegates \ {d} : call'[e] = call[e]
      BY <2>1 DEF TypeOK, CallSet
    <2>3. call[d].at \in HasPermit /\ \A a \in call[d].agent : ~Busy(a)
      BY <1>6 DEF FollowupRuns, HasPermit
    <2> QED
      BY <1>0, <2>2, <2>3 DEF Moves, TakesSlot
  <1>7. HostReleases(d) \/ TurnCancelled(d) => Ended(d)
    BY DEF HostReleases, TurnCancelled, Fails
  <1> QED
    BY <1>1, <1>2, <1>3, <1>4, <1>5, <1>6, <1>7 DEF CallStep

LEMMA MovesToolCall ==
    ASSUME TypeOK, NEW d \in Delegates, ToolCall(d)
    PROVE  Moves(d) /\ permits' = permits
  <1> USE DEF At, session
  <1>0. permits' = permits
    BY DEF ToolCall, Delegate, Followup, Close, Await, WorkerHandoff
  <1>1. CASE Delegate(d) \/ Followup(d)
    <2>1. \/ call' = [call EXCEPT ![d].at = "queued"]
          \/ call' = [call EXCEPT ![d] = [@ EXCEPT !.at = "queued", !.follow = TRUE]]
      BY <1>1 DEF Delegate, Followup
    <2>2. /\ call'[d].at = "queued"
          /\ \A e \in Delegates \ {d} : call'[e] = call[e]
      <3>1. CASE call' = [call EXCEPT ![d].at = "queued"]
        BY <3>1 DEF TypeOK, CallSet
      <3>2. CASE call' = [call EXCEPT ![d] = [@ EXCEPT !.at = "queued", !.follow = TRUE]]
        BY <3>2 DEF TypeOK, CallSet
      <3> QED
        BY <2>1, <3>1, <3>2
    <2> QED
      BY <1>0, <2>2 DEF Moves, Frees, HasPermit, HasSlot
  <1>2. CASE Close(d) /\ call[d].at = "idle"
    <2>1. call' = [call EXCEPT ![d] = [NoCall EXCEPT !.at = "over"]]
      BY <1>2 DEF Close
    <2>2. /\ call'[d].at = "over"
          /\ \A e \in Delegates \ {d} : call'[e] = call[e]
      BY <2>1 DEF TypeOK, CallSet, NoCall
    <2> QED
      BY <1>0, <2>2 DEF Moves, Frees, HasPermit, HasSlot
  <1>3. CASE (Close(d) /\ call[d].at # "idle") \/ Await \/ WorkerHandoff(d)
    <2>1. \A e \in Delegates : call'[e] = call[e]
      BY <1>3 DEF Close, Await, WorkerHandoff, TypeOK
    <2> QED
      BY <1>0, <2>1 DEF Moves, Frees, Stays
  <1> QED
    BY <1>1, <1>2, <1>3 DEF ToolCall

LEMMA MovesFaults ==
    ASSUME TypeOK, NEW d \in Delegates,
           \/ OpenFails(d) \/ StartRefused(d) \/ HostContinues(d) \/ TurnBreaks(d)
           \/ TurnFailsOver(d)
    PROVE  Moves(d) /\ permits' = permits
  <1> USE DEF At, session
  <1>0. permits' = permits
    BY DEF OpenFails, StartRefused, HostContinues, TurnBreaks, TurnFailsOver
  <1>1. CASE Ended(d)
    BY <1>0, <1>1, FreesOrMoves
  <1>2. CASE OpenFails(d)
    <2>1. /\ call'[d].at = "ranked"
          /\ \A e \in Delegates \ {d} : call'[e] = call[e]
      BY <1>2 DEF OpenFails, TypeOK, CallSet
    <2>2. call[d].at \in HasPermit
      BY <1>2 DEF OpenFails, HasPermit, HasSlot
    <2> QED
      BY <1>0, <2>1, <2>2 DEF Moves, Stays, HasSlot
  <1>3. CASE HostContinues(d)
    <2>1. /\ call'[d].agent = call[d].agent
          /\ \A e \in Delegates \ {d} : call'[e] = call[e]
      BY <1>3 DEF HostContinues, TypeOK, CallSet
    <2>2. call[d].at \in HasSlot /\ call[d].at \in HasPermit
      BY <1>3 DEF HostContinues, HasPermit, HasSlot
    <2> QED
      BY <1>0, <2>1, <2>2 DEF Moves, Stays
  <1>4. CASE TurnFailsOver(d) /\ ~Ended(d)
    <2>0. call' = [call EXCEPT ![d] = [NoCall EXCEPT
                  !.at = "queued", !.turn = call[d].turn,
                  !.failed = (IF call[d].follow THEN {} ELSE call[d].failed) \cup call[d].agent]]
      BY <1>4 DEF TurnFailsOver, Fails
    <2>1. /\ call'[d].at = "queued"
          /\ \A e \in Delegates \ {d} : call'[e] = call[e]
      BY <2>0 DEF TypeOK, CallSet, NoCall
    <2> QED
      BY <1>0, <2>1 DEF Moves, Frees, HasPermit, HasSlot
  <1>5. StartRefused(d) \/ TurnBreaks(d) => Ended(d)
    BY DEF StartRefused, TurnBreaks, Fails
  <1> QED
    BY <1>1, <1>2, <1>3, <1>4, <1>5

\* The close of the parent only ends idle calls, which have no permit.
LEMMA CloseParentCalls ==
    ASSUME TypeOK, CloseParent
    PROVE  /\ permits' = permits
           /\ \A e \in Delegates : call'[e] = call[e] \/ call'[e].at \notin HasPermit
  <1>1. \A e \in Delegates : call'[e] = call[e] \/ call'[e] = [NoCall EXCEPT !.at = "over"]
    BY DEF CloseParent
  <1>2. [NoCall EXCEPT !.at = "over"].at \notin HasPermit
    BY DEF NoCall, HasPermit, HasSlot
  <1> QED
    BY <1>1, <1>2 DEF CloseParent

\* How many permits a step leaves taken.
LEMMA FewerPermits ==
    ASSUME PermitsHeld, Permitted' \subseteq Permitted, permits \in Nat, permits' = permits
    PROVE  PermitsHeld'
  <1>1. IsFiniteSet(Permitted') /\ Cardinality(Permitted') <= Cardinality(Permitted)
    BY FS_Subset DEF PermitsHeld
  <1>2. Cardinality(Permitted) \in Nat /\ Cardinality(Permitted') \in Nat
    BY <1>1, FS_CardinalityType DEF PermitsHeld
  <1> QED
    BY <1>1, <1>2 DEF PermitsHeld

LEMMA OneMorePermit ==
    ASSUME PermitsHeld, PermitFree, NEW d, Permitted' \subseteq Permitted \cup {d},
           permits \in Nat, permits' = permits
    PROVE  PermitsHeld'
  <1>1. /\ IsFiniteSet(Permitted \cup {d})
        /\ Cardinality(Permitted \cup {d}) \in {Cardinality(Permitted), Cardinality(Permitted) + 1}
    BY FS_AddElement DEF PermitsHeld
  <1>2. /\ IsFiniteSet(Permitted')
        /\ Cardinality(Permitted') <= Cardinality(Permitted \cup {d})
    BY <1>1, FS_Subset
  <1>3. Cardinality(Permitted) \in Nat /\ Cardinality(Permitted') \in Nat
    BY <1>2, FS_CardinalityType DEF PermitsHeld
  <1> QED
    BY <1>1, <1>2, <1>3 DEF PermitsHeld, PermitFree

LEMMA PermitsMove ==
    ASSUME PermitsHeld, NEW d \in Delegates, Moves(d), permits \in Nat, permits' = permits
    PROVE  PermitsHeld'
  <1>1. CASE Enters(d)
    <2>1. Permitted' \subseteq Permitted \cup {d}
      BY DEF Moves, Permitted
    <2> QED
      BY <1>1, <2>1, OneMorePermit DEF Enters
  <1>2. CASE Frees(d) \/ Stays(d) \/ TakesSlot(d)
    <2>1. Permitted' \subseteq Permitted
      BY <1>2 DEF Moves, Permitted, Frees, Stays, TakesSlot
    <2> QED
      BY <2>1, FewerPermits
  <1> QED
    BY <1>1, <1>2 DEF Moves

LEMMA SlotsMove ==
    ASSUME SlotsExclusive, NEW d \in Delegates, Moves(d)
    PROVE  SlotsExclusive'
  <1> SUFFICES ASSUME NEW e \in Delegates, NEW f \in Delegates, e # f,
                      call'[e].at \in HasSlot, call'[f].at \in HasSlot
               PROVE  call'[e].agent \cap call'[f].agent = {}
    BY DEF SlotsExclusive
  <1>0. \A g \in Delegates \ {d} : call'[g] = call[g]
    BY DEF Moves
  <1>1. CASE e # d /\ f # d
    BY <1>0, <1>1 DEF SlotsExclusive
  <1>2. ASSUME NEW g \in Delegates, g # d, call'[g].at \in HasSlot, call'[d].at \in HasSlot
        PROVE  call'[d].agent \cap call'[g].agent = {}
    <2>0. call'[g] = call[g]
      BY <1>0, <1>2
    <2>1. CASE Frees(d) \/ Enters(d)
      BY <1>2, <2>1 DEF Frees, Enters, HasPermit
    <2>2. CASE Stays(d)
      BY <1>2, <2>0, <2>2 DEF Stays, SlotsExclusive
    <2>3. CASE TakesSlot(d)
      BY <1>2, <2>0, <2>3 DEF TakesSlot, Busy
    <2> QED
      BY <2>1, <2>2, <2>3 DEF Moves
  <1> QED
    BY <1>1, <1>2

SharesInv == TypeOK /\ PermitsHeld /\ SlotsExclusive

LEMMA SharesNext ==
    ASSUME DelegationAssumption, SharesInv, [Next]_vars
    PROVE  SharesInv'
  <1>1. TypeOK'
    BY TypesNext DEF SharesInv
  <1>2. permits \in Nat
    BY DEF SharesInv, TypeOK, DelegationAssumption
  <1>3. CASE \E d \in Delegates : Moves(d) /\ permits' = permits
    BY <1>1, <1>2, <1>3, PermitsMove, SlotsMove DEF SharesInv
  <1>4. CASE \E d \in Delegates :
               \/ CallStep(d) \/ ToolCall(d) \/ OpenFails(d) \/ StartRefused(d)
               \/ HostContinues(d) \/ TurnBreaks(d) \/ TurnFailsOver(d)
    BY <1>3, <1>4, MovesCallStep, MovesToolCall, MovesFaults DEF SharesInv
  <1>5. ASSUME permits' = permits,
               \A e \in Delegates : call'[e] = call[e] \/ call'[e].at \notin HasPermit
        PROVE  SharesInv'
    <2>1. Permitted' \subseteq Permitted
      BY <1>5 DEF Permitted
    <2>2. SlotsExclusive'
      BY <1>5 DEF SharesInv, SlotsExclusive, HasPermit
    <2> QED
      BY <1>1, <1>2, <1>5, <2>1, <2>2, FewerPermits DEF SharesInv
  <1>6. CASE CloseParent
    BY <1>5, <1>6, CloseParentCalls DEF SharesInv
  <1>7. CASE \/ CancelParent \/ PromptParent \/ ReopenParent \/ SuspendRun \/ UNCHANGED vars
    <2>1. UNCHANGED <<call, permits>>
      BY <1>7 DEF CancelParent, PromptParent, ReopenParent, SuspendRun, vars
    <2> QED
      BY <1>5, <2>1
  <1> QED
    BY <1>4, <1>6, <1>7 DEF Next

LEMMA SharesInit ==
    ASSUME DelegationAssumption, Init
    PROVE  SharesInv
  <1>1. \A d \in Delegates : call[d].at \notin HasPermit
    BY DEF Init, NoCall, HasPermit, HasSlot
  <1>2. Permitted = {}
    BY <1>1 DEF Permitted
  <1>3. PermitsHeld
    BY <1>2, FS_EmptySet DEF PermitsHeld, Init, DelegationAssumption
  <1>4. SlotsExclusive
    BY <1>1 DEF SlotsExclusive, HasPermit
  <1> QED
    BY <1>3, <1>4, TypesInit DEF SharesInv

\* Never more delegations run than delegation.max_concurrent permits, and no two
\* of them run on one account's slot, whatever fails over, follows up or is
\* closed meanwhile (the semaphores of delegate_mcp.rs).
THEOREM SharesHeld == Spec => [](PermitsHeld /\ SlotsExclusive)
  <1>1. Init => SharesInv
    BY SharesInit, DelegationAssumption
  <1>2. SharesInv /\ [Next]_vars => SharesInv'
    BY SharesNext, DelegationAssumption
  <1>3. SharesInv => PermitsHeld /\ SlotsExclusive
    BY DEF SharesInv
  <1> QED
    BY <1>1, <1>2, <1>3, PTL DEF Spec

=============================================================================
