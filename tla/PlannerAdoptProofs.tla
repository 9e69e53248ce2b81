-------------------------- MODULE PlannerAdoptProofs --------------------------
(***************************************************************************)
(* Proofs about the ownership of plans.                                    *)
(*                                                                         *)
(* The adopter's phases are separate saves, so what the properties of      *)
(* PlannerAdopt say of the documents alone is not inductive: between the   *)
(* claim and the retirement a work is in two documents, or in one document *)
(* and in what a call has read.  AdoptInv says whose it is meanwhile: a    *)
(* superseded run leaves its works to the run that claimed it (Inherits),  *)
(* and a work has one coordinator, the run that may act and holds it or    *)
(* inherits it (Unique), with its latest attempt (Current).  The claim     *)
(* hands the coordinator on, the merge turns an inheritance into a holding,*)
(* the retirement removes what the heir has.                               *)
(*                                                                         *)
(* All this needs a superseded run to stay so (SupersededForGood), which   *)
(* the code does not keep in every case: a drain that another router's     *)
(* claim overtakes pauses the run that was claimed.  So the theorems       *)
(* assume it of the behaviour; the last section proves it, and with it     *)
(* the theorems without the assumption, where drains are orderly.          *)
(***************************************************************************)
EXTENDS PlannerAdopt, TLAPS

------------------------------------------------------------------------------
(* The inductive invariant *)

Gone(s) == runs[s].status = "superseded"
Holds(s, k, w) == runs[s].works[w].child = k

\* A merge that works with its own copy of s.
Reads(p, s) == calls[p].at = "merge" /\ calls[p].from = s

\* A call has its source and its destination.
Targets ==
    \A p \in Processes :
        /\ calls[p].at # "idle" => calls[p].into \in Sessions
        /\ calls[p].at \in {"check", "claim", "merge", "retire"} => calls[p].from \in Sessions

\* A claim that will succeed has read the run as it is, and nobody works there.
Claiming ==
    \A p \in Processes : calls[p].at = "claim" =>
        /\ calls[p].read = runs[calls[p].from]
        /\ ~Gone(calls[p].from)
        /\ \A w \in Works : calls[p].read.works[w].at \notin alive

\* From the claim to the retirement the source is fenced, for this destination.
Fences ==
    \A p \in Processes : calls[p].at \in {"merge", "retire"} =>
        Gone(calls[p].from) /\ runs[calls[p].from].by = calls[p].into

\* What a merge has read is what the source has, or had before another call
\* retired it.
Reading ==
    \A p \in Processes : calls[p].at = "merge" =>
        \A w \in Works :
            /\ calls[p].read.works[w].at \notin alive
            /\ runs[calls[p].from].works[w].child \in {NoOne, calls[p].read.works[w].child}

\* An input that a merge has read, or that a retirement is about to remove, is
\* known where it came from, or where it went.
ReadingInputs ==
    \A p \in Processes, i \in Inputs :
        /\ calls[p].at = "merge" /\ calls[p].read.inputs[i] # "none" =>
              runs[calls[p].from].inputs[i] # "none"
        /\ calls[p].at = "retire" /\ i \in calls[p].inputs =>
              runs[calls[p].into].inputs[i] # "none"

\* A superseded run has an heir, and nobody works there.
Heirs ==
    \A s \in Sessions : Gone(s) =>
        /\ runs[s].by \in Sessions
        /\ \A w \in Works : runs[s].works[w].at \notin alive

\* A place without a work has no worker.
Vacant == \A s \in Sessions, w \in Works :
    Holds(s, NoOne, w) => runs[s].works[w].at \notin alive

\* A copy of the work of child k that waits in s for the heir of s: in the
\* document of s, or read from it by a merge.
Left(s, k, w, v) ==
    /\ Gone(s)
    /\ \/ Holds(s, k, w) /\ runs[s].works[w].version = v
       \/ \E p \in Processes : /\ Reads(p, s)
                               /\ calls[p].read.works[w].child = k
                               /\ calls[p].read.works[w].version = v

\* Work that t may merge from a run it superseded.
Inherits(t, k, w, v) == \E s \in Sessions : runs[s].by = t /\ Left(s, k, w, v)

\* The run t, not superseded, has the work of child k or is its heir.
Coordinates(t, k, w) ==
    /\ ~Gone(t)
    /\ Holds(t, k, w) \/ \E v \in Nat : Inherits(t, k, w, v)

\* One run coordinates a work: this is what the claims hand on.
Unique ==
    \A k \in Sessions, w \in Works, t, u \in Sessions :
        Coordinates(t, k, w) /\ Coordinates(u, k, w) => t = u

\* The coordinator has the latest attempt of the work, or will merge it.
Current ==
    \A t \in Sessions, k \in Sessions, w \in Works : ~Gone(t) =>
        IF Holds(t, k, w) THEN runs[t].works[w].version = latest[k][w]
        ELSE \A v \in Nat : Inherits(t, k, w, v) => v = latest[k][w]

\* A work exists only once it was admitted.
Admitted ==
    \A s \in Sessions, k \in Sessions, w \in Works :
        Holds(s, k, w) \/ (\E v \in Nat : Left(s, k, w, v)) => latest[k][w] # 0

\* A retirement is about to remove the work, or the input, from s.
Leaves(s, w) == \E p \in Processes :
    calls[p].at = "retire" /\ calls[p].from = s /\ w \in calls[p].works
LeavesInput(s, i) == \E p \in Processes :
    calls[p].at = "retire" /\ calls[p].from = s /\ i \in calls[p].inputs

\* The latest progress is in a run that no retirement is about to take it from.
Held ==
    \A k \in Sessions, w \in Works : latest[k][w] # 0 =>
        \E s \in Sessions : /\ Holds(s, k, w)
                            /\ runs[s].works[w].version = latest[k][w]
                            /\ ~Leaves(s, w)

\* So is an input.
HeldInput ==
    \A i \in Inputs : (\E s \in Sessions : runs[s].inputs[i] # "none") =>
        \E s \in Sessions : runs[s].inputs[i] \notin {"none", "moved"} /\ ~LeavesInput(s, i)

TypeInv == TypeOK /\ Targets
CallInv == Claiming /\ Fences /\ Reading
PlaceInv == Heirs /\ Vacant
WorkInv == Unique /\ Current /\ Admitted /\ Held
InputInv == ReadingInputs /\ HeldInput

AdoptInv == TypeInv /\ CallInv /\ PlaceInv /\ WorkInv /\ InputInv

------------------------------------------------------------------------------
(* Types *)

\* What has no run, and an idle call, are well typed.
LEMMA Blank == NoWork \in Work /\ NoRun \in Run /\ Idle \in Call
<1>1. NoWork \in Work
  BY AdoptAssumption DEF NoWork, Work, Session, Router
<1>2. NoRun \in Run
  <2>1. [w \in Works |-> NoWork] \in [Works -> Work]
    BY <1>1
  <2>2. [i \in Inputs |-> "none"] \in [Inputs -> InputState]
    BY DEF InputState
  <2> QED
    BY <2>1, <2>2 DEF NoRun, Run, Session, Router, Status
<1>3. Idle \in Call
  BY <1>2 DEF Idle, Call, Session
<1> QED
  BY <1>1, <1>2, <1>3

\* Saved only touches claims, which go back to their check.
LEMMA SavedCalls ==
    ASSUME TypeOK, NEW s \in Sessions
    PROVE  /\ Saved(s) \in [Processes -> Call]
           /\ \A p \in Processes :
                 \/ Saved(s)[p] = calls[p] /\ ~(calls[p].at = "claim" /\ calls[p].from = s)
                 \/ /\ calls[p].at = "claim" /\ calls[p].from = s
                    /\ Saved(s)[p].at = "check"
                    /\ Saved(s)[p].from = s /\ Saved(s)[p].into = calls[p].into
<1>1. \A p \in Processes : calls[p] \in Call
  BY DEF TypeOK
<1>2. \A c \in Call : /\ [c EXCEPT !.at = "check", !.read = NoRun] \in Call
                      /\ [c EXCEPT !.at = "check", !.read = NoRun].at = "check"
                      /\ [c EXCEPT !.at = "check", !.read = NoRun].from = c.from
                      /\ [c EXCEPT !.at = "check", !.read = NoRun].into = c.into
  BY Blank DEF Call
<1> QED
  BY <1>1, <1>2 DEF Saved

\* A save of a well-typed document.
LEMMA SaveType ==
    ASSUME TypeOK, NEW s \in Sessions, NEW r \in Run, Save(s, r)
    PROVE  runs' \in [Sessions -> Run] /\ calls' \in [Processes -> Call]
  BY SavedCalls DEF Save, TypeOK

\* The changes of single fields that the operations make.
LEMMA RunFields ==
    ASSUME NEW r \in Run
    PROVE  /\ \A x \in Status : [r EXCEPT !.status = x] \in Run
           /\ \A o \in Router : [r EXCEPT !.owner = o] \in Run
           /\ \A o \in Router : [r EXCEPT !.claim = o] \in Run
           /\ \A t \in Session : [r EXCEPT !.pending = t] \in Run
           /\ \A x \in Status, o \in Router : [r EXCEPT !.status = x, !.owner = o] \in Run
           /\ \A x \in Status, o \in Router, t \in Session :
                 [r EXCEPT !.status = x, !.owner = o, !.pending = t] \in Run
           /\ \A w \in Works, y \in Work : [r EXCEPT !.works[w] = y] \in Run
           /\ \A i \in Inputs, y \in InputState : [r EXCEPT !.inputs[i] = y] \in Run
  BY DEF Run

\* The fields of a run and of a call.
LEMMA Fields ==
    ASSUME TypeOK
    PROVE  /\ \A s \in Sessions :
                 /\ runs[s] \in Run
                 /\ runs[s].status \in Status
                 /\ runs[s].by \in Session /\ runs[s].pending \in Session
                 /\ runs[s].owner \in Router /\ runs[s].claim \in Router
                 /\ runs[s].works \in [Works -> Work]
                 /\ runs[s].inputs \in [Inputs -> InputState]
           /\ \A p \in Processes :
                 /\ calls[p] \in Call
                 /\ calls[p].from \in Session /\ calls[p].into \in Session
                 /\ calls[p].read \in Run
                 /\ calls[p].read.works \in [Works -> Work]
                 /\ calls[p].read.inputs \in [Inputs -> InputState]
                 /\ calls[p].works \in SUBSET Works
                 /\ calls[p].inputs \in SUBSET Inputs
<1>1. \A r \in Run : /\ r.status \in Status
                     /\ r.by \in Session /\ r.pending \in Session
                     /\ r.owner \in Router /\ r.claim \in Router
                     /\ r.works \in [Works -> Work]
                     /\ r.inputs \in [Inputs -> InputState]
  BY DEF Run
<1>2. \A c \in Call : /\ c.from \in Session /\ c.into \in Session
                      /\ c.read \in Run
                      /\ c.works \in SUBSET Works
                      /\ c.inputs \in SUBSET Inputs
  BY DEF Call
<1>3. \A s \in Sessions : runs[s] \in Run
  BY DEF TypeOK
<1>4. \A p \in Processes : calls[p] \in Call
  BY DEF TypeOK
<1> QED
  BY <1>1, <1>2, <1>3, <1>4

\* What a merge and a retirement write.
LEMMA MergedType ==
    ASSUME NEW into \in Run, NEW from \in Run
    PROVE  /\ Merged(into, from) \in Run
           /\ Merged(into, from).status = into.status
           /\ Merged(into, from).by = into.by
           /\ \A w \in Works : Merged(into, from).works[w] = MergedWork(into.works[w], from.works[w])
           /\ \A i \in Inputs : Merged(into, from).inputs[i] = MergedInput(into.inputs[i], from.inputs[i])
<1>1. /\ into.works \in [Works -> Work] /\ from.works \in [Works -> Work]
      /\ into.inputs \in [Inputs -> InputState] /\ from.inputs \in [Inputs -> InputState]
  BY DEF Run
<1>2. \A x, y \in Work : MergedWork(x, y) \in Work
  BY DEF MergedWork
<1>3. \A x, y \in InputState : MergedInput(x, y) \in InputState
  BY DEF MergedInput, Adopted, InputState
<1>4. [w \in Works |-> MergedWork(into.works[w], from.works[w])] \in [Works -> Work]
  BY <1>1, <1>2
<1>5. [i \in Inputs |-> MergedInput(into.inputs[i], from.inputs[i])] \in [Inputs -> InputState]
  BY <1>1, <1>3
<1> DEFINE ws == [w \in Works |-> MergedWork(into.works[w], from.works[w])]
           is == [i \in Inputs |-> MergedInput(into.inputs[i], from.inputs[i])]
<1>6. Merged(into, from) = [into EXCEPT !.works = ws, !.inputs = is]
  BY DEF Merged
<1>7. ws \in [Works -> Work] /\ is \in [Inputs -> InputState]
  BY <1>4, <1>5
<1>8. \A w \in Works : ws[w] = MergedWork(into.works[w], from.works[w])
  OBVIOUS
<1>9. \A i \in Inputs : is[i] = MergedInput(into.inputs[i], from.inputs[i])
  OBVIOUS
<1> HIDE DEF ws, is
<1> QED
  BY <1>6, <1>7, <1>8, <1>9 DEF Run

RetiredInput(x) ==
    CASE x = "queued" -> "moved"
      [] x = "turn" -> "received"
      [] OTHER -> x

RetiredWorks(from, works) == [w \in Works |-> IF w \in works THEN NoWork ELSE from.works[w]]
RetiredInputs(from, inputs) ==
    [i \in Inputs |-> IF i \in inputs THEN RetiredInput(from.inputs[i]) ELSE from.inputs[i]]

LEMMA RetiredType ==
    ASSUME NEW from \in Run, NEW works, NEW inputs, NEW into \in Session
    PROVE  /\ Retired(from, works, inputs, into) \in Run
           /\ Retired(from, works, inputs, into).status = "superseded"
           /\ Retired(from, works, inputs, into).by = into
           /\ Retired(from, works, inputs, into).works = RetiredWorks(from, works)
           /\ Retired(from, works, inputs, into).inputs = RetiredInputs(from, inputs)
<1>1. from.works \in [Works -> Work] /\ from.inputs \in [Inputs -> InputState]
  BY DEF Run
<1> DEFINE ws == RetiredWorks(from, works)
           is == RetiredInputs(from, inputs)
<1>2. ws \in [Works -> Work]
  BY <1>1, Blank DEF RetiredWorks
<1>3. is \in [Inputs -> InputState]
  <2>1. \A i \in Inputs :
           (IF i \in inputs THEN RetiredInput(from.inputs[i]) ELSE from.inputs[i]) \in InputState
    BY <1>1 DEF RetiredInput, InputState
  <2> QED
    BY <2>1 DEF RetiredInputs
<1>4. Retired(from, works, inputs, into) =
          [from EXCEPT !.works = ws, !.inputs = is, !.status = "superseded", !.by = into]
  <2>1. is = [i \in Inputs |-> CASE i \in inputs /\ from.inputs[i] = "queued" -> "moved"
                                 [] i \in inputs /\ from.inputs[i] = "turn" -> "received"
                                 [] OTHER -> from.inputs[i]]
    BY DEF RetiredInputs, RetiredInput
  <2>2. ws = [w \in Works |-> IF w \in works THEN NoWork ELSE from.works[w]]
    BY DEF RetiredWorks
  <2> HIDE DEF is, ws
  <2> QED
    BY <2>1, <2>2, Zenon DEF Retired
<1> HIDE DEF ws, is
<1>5. /\ Retired(from, works, inputs, into) \in Run
      /\ Retired(from, works, inputs, into).status = "superseded"
      /\ Retired(from, works, inputs, into).by = into
      /\ Retired(from, works, inputs, into).works = ws
      /\ Retired(from, works, inputs, into).inputs = is
  BY <1>2, <1>3, <1>4 DEF Run, Status
<1> QED
  BY <1>5 DEF ws, is

\* A work's record.
LEMMA WorkFields ==
    /\ \A y \in Work : /\ y.child \in Session /\ y.at \in Router
                       /\ y.version \in 0 .. MaxVersion /\ y.version \in Nat
    /\ \A y \in Work, o \in Router, v \in 0 .. MaxVersion :
          [y EXCEPT !.at = o, !.version = v] \in Work
    /\ \A s \in Sessions : [NoWork EXCEPT !.child = s, !.version = 1] \in Work
<1>1. 1 \in 0 .. MaxVersion /\ 0 \in 0 .. MaxVersion
  BY AdoptAssumption
<1>2. \A s \in Sessions : [NoWork EXCEPT !.child = s, !.version = 1] \in Work
  BY <1>1 DEF NoWork, Work, Session, Router
<1>3. \A y \in Work, o \in Router, v \in 0 .. MaxVersion :
         [y EXCEPT !.at = o, !.version = v] \in Work
  BY DEF Work
<1>4. \A y \in Work : /\ y.child \in Session /\ y.at \in Router
                      /\ y.version \in 0 .. MaxVersion
  BY DEF Work
<1>5. \A v \in 0 .. MaxVersion : v \in Nat
  BY AdoptAssumption
<1> QED
  BY <1>2, <1>3, <1>4, <1>5

LEMMA AdmitType ==
    ASSUME TypeOK, NEW s \in Sessions, NEW w \in Works, Admit(s, w)
    PROVE  TypeOK'
<1>1. [runs[s] EXCEPT !.works[w] = [NoWork EXCEPT !.child = s, !.version = 1]] \in Run
  BY Fields, RunFields, WorkFields
<1>2. 1 \in 0 .. MaxVersion
  BY AdoptAssumption
<1> QED
  BY <1>1, <1>2, SaveType DEF Admit, TypeOK

LEMMA BeginType ==
    ASSUME TypeOK, NEW s \in Sessions, NEW w \in Works, Begin_work(s, w)
    PROVE  TypeOK'
<1> DEFINE r == runs[s]
           y == r.works[w]
           n == y.version + 1
           z == [y EXCEPT !.at = loaded[s], !.version = n]
<1>1. r \in Run /\ r.works \in [Works -> Work] /\ y \in Work /\ loaded[s] \in Router
  BY Fields DEF TypeOK
<1>2. y.child \in Session /\ y.version \in 0 .. MaxVersion /\ y.version \in Nat
  BY <1>1, WorkFields
<1>3. y.child \in Sessions /\ n \in 0 .. MaxVersion
  BY <1>2, AdoptAssumption DEF Begin_work, Has, Session
<1>4. z \in Work
  BY <1>1, <1>3, WorkFields
<1>5. [r EXCEPT !.works[w] = z] \in Run
  BY <1>1, <1>4, RunFields
<1>6. [r EXCEPT !.works[w].at = loaded[s], !.works[w].version = @ + 1]
         = [r EXCEPT !.works[w] = z]
  <2> DEFINE ws == [r.works EXCEPT ![w].at = loaded[s], ![w].version = n]
  <2>1. ws = [r.works EXCEPT ![w] = z]
    BY <1>1 DEF Work
  <2>2. [r EXCEPT !.works[w].at = loaded[s], !.works[w].version = @ + 1]
           = [r EXCEPT !.works = ws]
    BY <1>1 DEF Run
  <2>3. [r EXCEPT !.works[w] = z] = [r EXCEPT !.works = [r.works EXCEPT ![w] = z]]
    BY <1>1 DEF Run
  <2> QED
    BY <2>1, <2>2, <2>3
<1>7. Save(s, [r EXCEPT !.works[w] = z])
  BY <1>6 DEF Begin_work
<1>8. latest' \in [Sessions -> [Works -> 0 .. MaxVersion]]
  BY <1>3 DEF Begin_work, TypeOK
<1> QED
  BY <1>5, <1>7, <1>8, SaveType DEF Begin_work, TypeOK

\* Every step keeps the types.
LEMMA TypeSession ==
    ASSUME TypeOK, NEW s \in Sessions, SessionStep(s)
    PROVE  TypeOK'
<1> USE Fields, RunFields
<1> DEFINE r == runs[s]
<1>0. /\ r \in Run /\ loaded[s] \in Router
      /\ \A w \in Works : r.works[w] \in Work /\ r.works[w].child \in Session
                          /\ r.works[w].version \in 0 .. MaxVersion
  <2>1. \A y \in Work : y.child \in Session /\ y.version \in 0 .. MaxVersion
    BY DEF Work
  <2> QED
    BY <2>1 DEF TypeOK
<1>1. ASSUME NEW p \in Routers, Load(s, p) PROVE TypeOK'
  BY <1>1 DEF Load, TypeOK, Router
<1>2. CASE Heartbeat(s)
  BY <1>2, <1>0, SaveType DEF Heartbeat, TypeOK
<1>3. CASE Lapse(s)
  BY <1>3 DEF Lapse, TypeOK
<1>4. CASE Close(s)
  <2>1. [r EXCEPT !.status = IF @ = "running" THEN "paused" ELSE @,
                  !.owner = IF @ = loaded[s] THEN NoOne ELSE @] \in Run
    <3> DEFINE x == IF r.status = "running" THEN "paused" ELSE r.status
               o == IF r.owner = loaded[s] THEN NoOne ELSE r.owner
    <3>1. x \in Status /\ o \in Router
      BY DEF Status, Router
    <3>2. [r EXCEPT !.status = x, !.owner = o] \in Run
      BY <1>0, <3>1
    <3> QED
      BY <3>2
  <2> QED
    BY <1>4, <2>1, SaveType DEF Close, TypeOK, Router
<1>5. ASSUME NEW a \in Sessions \cup {NoOne}, Implement(s, a) PROVE TypeOK'
  <2>1. [r EXCEPT !.status = "running",
                  !.owner = IF r.status = "none" THEN loaded[s] ELSE @,
                  !.pending = IF a = NoOne THEN @ ELSE a] \in Run
    <3> DEFINE o == IF r.status = "none" THEN loaded[s] ELSE r.owner
               t == IF a = NoOne THEN r.pending ELSE a
    <3>1. "running" \in Status /\ o \in Router /\ t \in Session
      BY <1>0 DEF Status, Session
    <3>2. [r EXCEPT !.status = "running", !.owner = o, !.pending = t] \in Run
      BY <1>0, <3>1
    <3> QED
      BY <3>2
  <2> QED
    BY <1>5, <2>1, SaveType DEF Implement, TypeOK
<1>6. ASSUME NEW directed \in BOOLEAN, Observe_input(s, directed) PROVE TypeOK'
  <2>1. [r EXCEPT !.status = "running"] \in Run
    BY <1>0 DEF Status
  <2> QED
    BY <1>6, <2>1, SaveType DEF Observe_input, TypeOK
<1>7. CASE Run_drain(s)
  <2>1. [r EXCEPT !.status = "draining"] \in Run
    BY <1>0 DEF Status
  <2> QED
    BY <1>0, <1>7, <2>1, SaveType DEF Run_drain, TypeOK
<1>8. CASE DrainEnds(s)
  <2>1. [r EXCEPT !.status = "paused"] \in Run
    BY <1>0 DEF Status
  <2> QED
    BY <1>8, <2>1, SaveType DEF DrainEnds, TypeOK, Router
<1>9. ASSUME NEW w \in Works, Admit(s, w) PROVE TypeOK'
  BY <1>9, AdmitType
<1>10. ASSUME NEW w \in Works, Begin_work(s, w) PROVE TypeOK'
  BY <1>10, BeginType
<1>11. ASSUME NEW w \in Works, Attempt_ended(s, w) PROVE TypeOK'
  <2> DEFINE y == r.works[w]
  <2>1. [y EXCEPT !.at = NoOne] \in Work
    BY <1>0 DEF Work, Router
  <2>2. [r EXCEPT !.works[w].at = NoOne] = [r EXCEPT !.works[w] = [y EXCEPT !.at = NoOne]]
    BY <1>0 DEF Run
  <2>3. [r EXCEPT !.works[w].at = NoOne] \in Run
    BY <1>0, <2>1, <2>2
  <2> QED
    BY <1>11, <2>3, SaveType DEF Attempt_ended, TypeOK
<1>12. ASSUME NEW i \in Inputs, Enqueue_parent_input(s, i) PROVE TypeOK'
  <2>1. [r EXCEPT !.inputs[i] = "queued"] \in Run
    BY <1>0 DEF InputState
  <2> QED
    BY <1>12, <2>1, SaveType DEF Enqueue_parent_input, TypeOK
<1>13. ASSUME NEW i \in Inputs, Deliver_queued_input(s, i) PROVE TypeOK'
  <2>1. [r EXCEPT !.inputs[i] = "turn"] \in Run
    BY <1>0 DEF InputState
  <2>2. [r EXCEPT !.inputs[i] = "turn", !.claim = loaded[s]] \in Run
    BY <1>0, <2>1 DEF Run
  <2> QED
    BY <1>13, <2>2, SaveType DEF Deliver_queued_input, TypeOK
<1>14. ASSUME NEW i \in Inputs, TurnEnds(s, i) PROVE TypeOK'
  <2>0. r.inputs[i] \in InputState /\ NoOne \in Router
    BY <1>0 DEF Run, Router
  <2>1. [r EXCEPT !.claim = NoOne] \in Run
    BY <1>0, <2>0
  <2>2. [r EXCEPT !.claim = NoOne,
                  !.inputs[i] = IF @ = "turn" THEN "received" ELSE @] \in Run
    BY <1>0, <2>0 DEF Run, InputState
  <2> QED
    BY <1>14, <2>1, <2>2, SaveType DEF TurnEnds, TypeOK
<1>15. ASSUME NEW i \in Inputs, Acknowledge_input(s, i) PROVE TypeOK'
  <2>1. [r EXCEPT !.inputs[i] = "resolved"] \in Run
    BY <1>0 DEF InputState
  <2> QED
    BY <1>15, <2>1, SaveType DEF Acknowledge_input, TypeOK
<1>16. CASE Retry_pending(s)
  <2>1. Adopt_at(r.pending, s) \in Call /\ Clear(s) \in Call
    BY <1>0, Blank DEF Adopt_at, Clear, Call, Session, Run
  <2>2. PICK c \in Call : calls' = [Saved(s) EXCEPT ![loaded[s]] = c]
    BY <1>16, <2>1 DEF Retry_pending
  <2> QED
    BY <1>16, <2>2, SavedCalls DEF Retry_pending, TypeOK
<1> QED
  BY <1>1, <1>2, <1>3, <1>4, <1>5, <1>6, <1>7, <1>8, <1>9, <1>10, <1>11,
     <1>12, <1>13, <1>14, <1>15, <1>16 DEF SessionStep

\* A save with nothing else.
LEMMA SaveTargets ==
    ASSUME TypeInv, NEW s \in Sessions, calls' = Saved(s)
    PROVE  Targets'
  BY SavedCalls DEF TypeInv, Targets

\* A save that goes with a step of the call of p.
LEMMA CallStep ==
    ASSUME TypeInv, NEW p \in Processes, NEW d \in Call, NEW s \in Sessions,
           calls' = [Saved(s) EXCEPT ![p] = d],
           d.at # "idle" => d.into \in Sessions,
           d.at \in {"check", "claim", "merge", "retire"} => d.from \in Sessions
    PROVE  /\ calls' \in [Processes -> Call] /\ Targets'
           /\ calls'[p] = d
           /\ \A q \in Processes \ {p} : calls'[q] = Saved(s)[q]
<1>1. Saved(s) \in [Processes -> Call]
  BY SavedCalls DEF TypeInv
<1>2. /\ calls' \in [Processes -> Call] /\ calls'[p] = d
      /\ \A q \in Processes \ {p} : calls'[q] = Saved(s)[q]
  BY <1>1
<1>3. Targets'
  BY <1>2, SavedCalls DEF TypeInv, Targets
<1> QED
  BY <1>2, <1>3

\* A step of a call without a save.
LEMMA GotoStep ==
    ASSUME TypeInv, NEW p \in Processes, NEW d \in Call, Goto(p, d),
           d.at # "idle" => d.into \in Sessions,
           d.at \in {"check", "claim", "merge", "retire"} => d.from \in Sessions
    PROVE  /\ calls' \in [Processes -> Call] /\ Targets'
           /\ calls'[p] = d
           /\ \A q \in Processes \ {p} : calls'[q] = calls[q]
  BY DEF Goto, TypeInv, TypeOK, Targets

\* A call has its source and its destination, whatever a session does.
LEMMA TargetsSession ==
    ASSUME TypeInv, NEW s \in Sessions, SessionStep(s)
    PROVE  Targets'
<1>1. CASE calls' = Saved(s)
  BY <1>1, SaveTargets
<1>2. CASE calls' = calls
  BY <1>2 DEF TypeInv, Targets
<1>3. CASE Retry_pending(s)
  <2> DEFINE a == runs[s].pending
  <2>1. Clear(s) \in Call /\ Clear(s).into = s /\ Clear(s).at = "clear"
    BY Blank DEF Clear, Call, Session
  <2>2. a \in Sessions
    BY <1>3, Fields DEF Retry_pending, TypeInv, Session
  <2>3. Adopt_at(a, s) \in Call /\ Adopt_at(a, s).into = s /\ Adopt_at(a, s).from = a
    BY <2>2, Blank DEF Adopt_at, Call, Session
  <2>4. PICK d \in {Adopt_at(a, s), Clear(s)} : calls' = [Saved(s) EXCEPT ![loaded[s]] = d]
    BY <1>3 DEF Retry_pending
  <2>5. loaded[s] \in Processes
    BY <1>3 DEF Retry_pending, Loaded, TypeInv, TypeOK, Router, Processes
  <2> HIDE DEF a
  <2> QED
    BY <2>1, <2>2, <2>3, <2>4, <2>5, CallStep
<1> QED
  BY <1>1, <1>2, <1>3 DEF SessionStep, Load, Heartbeat, Lapse, Close, Implement, Observe_input,
     Run_drain, DrainEnds, Admit, Begin_work, Attempt_ended, Save,
     Enqueue_parent_input, Deliver_queued_input, TurnEnds, Acknowledge_input

\* The steps of a call keep the types.
LEMMA TypeCalls ==
    ASSUME TypeInv, NEW p \in Processes, Adoption(p)
    PROVE  TypeInv'
<1> DEFINE c == calls[p]
<1>0. /\ c \in Call /\ c.from \in Session /\ c.into \in Session /\ c.read \in Run
      /\ c.works \in SUBSET Works /\ c.inputs \in SUBSET Inputs
  BY Fields DEF TypeInv
<1>1. \A r \in Run, at \in {"check", "claim", "merge"} :
         /\ [c EXCEPT !.at = at, !.read = r] \in Call
         /\ [c EXCEPT !.at = at, !.read = r].from = c.from
         /\ [c EXCEPT !.at = at, !.read = r].into = c.into
  BY <1>0 DEF Call
<1>2. \A s \in Session : Clear(s) \in Call /\ Clear(s).at = "clear" /\ Clear(s).into = s
  BY Blank DEF Clear, Call
<1>3. Idle \in Call /\ Idle.at = "idle"
  BY Blank DEF Idle
<1>6. /\ c.at # "idle" => c.into \in Sessions
      /\ c.at \in {"check", "claim", "merge", "retire"} => c.from \in Sessions
  BY DEF TypeInv, Targets
<1>8. \A s \in Sessions : runs[s] \in Run
  BY Fields DEF TypeInv
<1>10. CASE Check(p)
  <2>1. PICK at \in {"claim", "merge"} : Goto(p, [c EXCEPT !.at = at, !.read = runs[c.from]])
    BY <1>10 DEF Check
  <2> DEFINE d == [c EXCEPT !.at = at, !.read = runs[c.from]]
  <2>2. c.from \in Sessions /\ c.into \in Sessions
    BY <1>6, <1>10 DEF Check
  <2>3. d \in Call /\ d.from = c.from /\ d.into = c.into
    <3>1. runs[c.from] \in Run /\ at \in {"check", "claim", "merge"}
      BY <1>8, <2>2
    <3> HIDE DEF c
    <3> QED
      BY <1>1, <3>1
  <2>4. Goto(p, d)
    BY <2>1
  <2> HIDE DEF d
  <2>5. calls' \in [Processes -> Call] /\ Targets'
    BY <2>2, <2>3, <2>4, GotoStep
  <2> QED
    BY <1>10, <2>5 DEF Check, TypeInv, TypeOK
<1>11. CASE Refused(p)
  <2>1. calls' \in [Processes -> Call] /\ Targets'
    BY <1>3, <1>11, GotoStep DEF Refused
  <2> QED
    BY <1>11, <2>1 DEF Refused, TypeInv, TypeOK
<1>12. CASE Claim(p)
  <2> DEFINE r == Claimed(c.read, c.into)
             d == [c EXCEPT !.at = "merge", !.read = r]
  <2>1. c.from \in Sessions /\ c.into \in Sessions
    BY <1>6, <1>12 DEF Claim
  <2>2. r \in Run
    BY <1>0, <2>1 DEF Claimed, Run, Status, Session
  <2>3. d \in Call /\ d.from = c.from /\ d.into = c.into
    BY <1>1, <2>2
  <2>4. runs' = [runs EXCEPT ![c.from] = r] /\ calls' = [Saved(c.from) EXCEPT ![p] = d]
    BY <1>12 DEF Claim
  <2> HIDE DEF d, r
  <2>5. calls' \in [Processes -> Call] /\ Targets'
    BY <2>1, <2>3, <2>4, CallStep
  <2> QED
    BY <1>12, <2>1, <2>2, <2>4, <2>5 DEF Claim, TypeInv, TypeOK
<1>13. CASE Merge(p)
  <2> DEFINE into == runs[c.into]
             r == Merged(into, c.read)
             d == [c EXCEPT !.at = "retire", !.read = NoRun,
                            !.works = MovedWorks(into, c.read),
                            !.inputs = MovedInputs(into, c.read)]
  <2>1. c.from \in Sessions /\ c.into \in Sessions
    BY <1>6, <1>13 DEF Merge
  <2>2. r \in Run
    BY <1>0, <1>8, <2>1, MergedType
  <2>3. MovedWorks(into, c.read) \in SUBSET Works /\ MovedInputs(into, c.read) \in SUBSET Inputs
    BY DEF MovedWorks, MovedInputs
  <2>4. d \in Call /\ d.from = c.from /\ d.into = c.into
    BY <1>0, <2>3, Blank DEF Call
  <2>5. runs' = [runs EXCEPT ![c.into] = r] /\ calls' = [Saved(c.into) EXCEPT ![p] = d]
    BY <1>13 DEF Merge
  <2> HIDE DEF d, r
  <2>6. calls' \in [Processes -> Call] /\ Targets'
    BY <2>1, <2>4, <2>5, CallStep
  <2> QED
    BY <1>13, <2>1, <2>2, <2>5, <2>6 DEF Merge, TypeInv, TypeOK
<1>14. CASE Retire(p)
  <2> DEFINE r == Retired(runs[c.from], c.works, c.inputs, c.into)
  <2>1. c.from \in Sessions /\ c.into \in Sessions
    BY <1>6, <1>14 DEF Retire
  <2>2. r \in Run
    <3>1. runs[c.from] \in Run
      BY <1>8, <2>1
    <3> HIDE DEF c
    <3> QED
      BY <1>0, <3>1, RetiredType
  <2>3. runs' = [runs EXCEPT ![c.from] = r] /\ calls' = [Saved(c.from) EXCEPT ![p] = Clear(c.into)]
    BY <1>14 DEF Retire
  <2>4. Clear(c.into) \in Call /\ Clear(c.into).at = "clear" /\ Clear(c.into).into = c.into
    BY <1>0, <1>2
  <2> HIDE DEF r
  <2>5. calls' \in [Processes -> Call] /\ Targets'
    BY <2>1, <2>3, <2>4, CallStep
  <2> QED
    BY <1>14, <2>1, <2>2, <2>3, <2>5 DEF Retire, TypeInv, TypeOK
<1>15. CASE Adoption_pending(p)
  <2> DEFINE r == [runs[c.into] EXCEPT !.pending = NoOne]
  <2>1. c.into \in Sessions
    BY <1>6, <1>15 DEF Adoption_pending
  <2>2. r \in Run
    BY <1>8, <2>1, RunFields DEF Session
  <2>3. runs' = [runs EXCEPT ![c.into] = r] /\ calls' = [Saved(c.into) EXCEPT ![p] = Idle]
    BY <1>15 DEF Adoption_pending, TypeInv, TypeOK
  <2> HIDE DEF r
  <2>4. calls' \in [Processes -> Call] /\ Targets'
    BY <1>3, <2>1, <2>3, CallStep
  <2> QED
    BY <1>15, <2>1, <2>2, <2>3, <2>4 DEF Adoption_pending, TypeInv, TypeOK
<1> QED
  BY <1>10, <1>11, <1>12, <1>13, <1>14, <1>15 DEF Adoption

\* The types hold for ever.
LEMMA TypeStep ==
    ASSUME TypeInv, Next PROVE TypeInv'
<1>0. Idle \in Call /\ Idle.at = "idle"
  BY Blank DEF Idle
<1>1. ASSUME NEW s \in Sessions, SessionStep(s) PROVE TypeInv'
  BY <1>1, TypeSession, TargetsSession DEF TypeInv
<1>2. ASSUME NEW p \in Commands, NEW from \in Sessions, NEW into \in Sessions,
             Adopt_run(p, from, into) PROVE TypeInv'
  <2>1. /\ Adopt_at(from, into) \in Call
        /\ Adopt_at(from, into).from = from /\ Adopt_at(from, into).into = into
    BY Blank DEF Adopt_at, Call, Session
  <2>2. calls' \in [Processes -> Call] /\ Targets'
    BY <1>2, <2>1, GotoStep DEF Adopt_run, Processes
  <2> QED
    BY <1>2, <2>2 DEF Adopt_run, TypeInv, TypeOK
<1>3. ASSUME NEW p \in Failing, GivesUp(p) PROVE TypeInv'
  <2>1. calls' \in [Processes -> Call] /\ Targets'
    BY <1>0, <1>3, GotoStep, AdoptAssumption DEF GivesUp, Processes
  <2> QED
    BY <1>3, <2>1 DEF GivesUp, TypeInv, TypeOK
<1>4. ASSUME NEW p \in Mortal, Dies(p) PROVE TypeInv'
  <2>1. calls' \in [Processes -> Call] /\ Targets'
    BY <1>0, <1>4, GotoStep, AdoptAssumption DEF Dies, Processes
  <2> QED
    BY <1>4, <2>1 DEF Dies, TypeInv, TypeOK, Router
<1> QED
  BY <1>1, <1>2, <1>3, <1>4, TypeCalls DEF Next

------------------------------------------------------------------------------
(* What most steps keep *)

\* No session is the id of none.
LEMMA Child == NoOne \notin Sessions
  BY AdoptAssumption

\* A step that leaves the works and their copies in place keeps what the
\* invariant says of them.
LEMMA WorkKept ==
    ASSUME WorkInv, latest' = latest,
           \A s \in Sessions : (Gone(s)' <=> Gone(s)) /\ runs'[s].by = runs[s].by,
           \A s \in Sessions, w \in Works :
              /\ runs'[s].works[w].child = runs[s].works[w].child
              /\ runs'[s].works[w].version = runs[s].works[w].version,
           \A s, k \in Sessions, w \in Works, v \in Nat : Left(s, k, w, v)' => Left(s, k, w, v),
           \A s \in Sessions, w \in Works : Leaves(s, w)' => Leaves(s, w)
    PROVE  WorkInv'
<1>1. \A s, k \in Sessions, w \in Works : Holds(s, k, w)' <=> Holds(s, k, w)
  BY DEF Holds
<1>2. \A t, k \in Sessions, w \in Works, v \in Nat :
         Inherits(t, k, w, v)' => Inherits(t, k, w, v)
  BY DEF Inherits
<1>3. \A t, k \in Sessions, w \in Works : Coordinates(t, k, w)' => Coordinates(t, k, w)
  BY <1>1, <1>2 DEF Coordinates
<1>4. Unique'
  BY <1>3 DEF WorkInv, Unique
<1>5. Current'
  BY <1>1, <1>2 DEF WorkInv, Current
<1>6. Admitted'
  BY <1>1 DEF WorkInv, Admitted
<1>7. Held'
  BY <1>1 DEF WorkInv, Held
<1> QED
  BY <1>4, <1>5, <1>6, <1>7 DEF WorkInv

\* A document keeps its works, its place in the succession, and its inputs.
KeepsWorks(s) ==
    /\ (runs'[s].status = "superseded") <=> (runs[s].status = "superseded")
    /\ runs'[s].by = runs[s].by
    /\ \A w \in Works :
          /\ runs'[s].works[w].child = runs[s].works[w].child
          /\ runs'[s].works[w].version = runs[s].works[w].version
          /\ runs'[s].works[w].at \in {runs[s].works[w].at, NoOne}

KeepsInputs(s) ==
    \A i \in Inputs : \/ runs'[s].inputs[i] = runs[s].inputs[i]
                      \/ /\ runs'[s].inputs[i] \notin {"none", "moved"}
                         /\ runs[s].inputs[i] \notin {"none", "moved"}

\* A call stays, with what it read, or is not at work on two runs.
KeepsCall(p) ==
    \/ /\ calls'[p] = calls[p]
       /\ calls[p].at = "claim" => runs'[calls[p].from] = runs[calls[p].from]
    \/ calls'[p].at \in {"idle", "check", "clear"}

LEMMA CallsKept ==
    ASSUME TypeInv, TypeInv', CallInv, alive' \subseteq alive,
           \A s \in Sessions : KeepsWorks(s), \A p \in Processes : KeepsCall(p)
    PROVE  CallInv'
<1>0. \A p \in Processes : calls[p].at \in {"check", "claim", "merge", "retire"} =>
         calls[p].from \in Sessions
  BY DEF TypeInv, Targets
<1>1. Claiming'
  BY <1>0 DEF KeepsCall, KeepsWorks, CallInv, Claiming, Gone
<1>2. Fences'
  BY <1>0 DEF KeepsCall, KeepsWorks, CallInv, Fences, Gone
<1>3. Reading'
  <2> SUFFICES ASSUME NEW p \in Processes, calls'[p].at = "merge", NEW w \in Works
               PROVE  /\ calls'[p].read.works[w].at \notin alive'
                      /\ runs'[calls'[p].from].works[w].child
                            \in {NoOne, calls'[p].read.works[w].child}
    BY DEF Reading
  <2>1. calls'[p] = calls[p] /\ calls[p].from \in Sessions
    BY <1>0 DEF KeepsCall
  <2>2. /\ calls[p].read.works[w].at \notin alive
        /\ runs[calls[p].from].works[w].child \in {NoOne, calls[p].read.works[w].child}
    BY <2>1 DEF CallInv, Reading
  <2>3. runs'[calls[p].from].works[w].child = runs[calls[p].from].works[w].child
    BY <2>1 DEF KeepsWorks
  <2> QED
    BY <2>1, <2>2, <2>3
<1> QED
  BY <1>1, <1>2, <1>3 DEF CallInv

LEMMA PlacesKept ==
    ASSUME TypeInv, PlaceInv, alive' \subseteq alive, \A s \in Sessions : KeepsWorks(s)
    PROVE  PlaceInv'
<1>1. NoOne \notin alive
  BY AdoptAssumption DEF TypeInv, TypeOK
<1>2. Heirs'
  BY <1>1 DEF PlaceInv, Heirs, Gone, KeepsWorks
<1>3. Vacant'
  BY <1>1 DEF PlaceInv, Vacant, Holds, KeepsWorks
<1> QED
  BY <1>2, <1>3 DEF PlaceInv

LEMMA WorksKept ==
    ASSUME WorkInv, latest' = latest,
           \A s \in Sessions : KeepsWorks(s), \A p \in Processes : KeepsCall(p)
    PROVE  WorkInv'
<1>1. \A s \in Sessions : (Gone(s)' <=> Gone(s)) /\ runs'[s].by = runs[s].by
  BY DEF KeepsWorks, Gone
<1>2. \A s \in Sessions, w \in Works :
         /\ runs'[s].works[w].child = runs[s].works[w].child
         /\ runs'[s].works[w].version = runs[s].works[w].version
  BY DEF KeepsWorks
<1>3. \A p \in Processes : calls'[p].at \in {"merge", "retire"} => calls'[p] = calls[p]
  BY DEF KeepsCall
<1>4. \A s, k \in Sessions, w \in Works, v \in Nat : Left(s, k, w, v)' => Left(s, k, w, v)
  BY <1>1, <1>2, <1>3 DEF Left, Holds, Reads
<1>5. \A s \in Sessions, w \in Works : Leaves(s, w)' => Leaves(s, w)
  BY <1>3 DEF Leaves
<1> QED
  BY <1>1, <1>2, <1>4, <1>5, WorkKept

LEMMA InputsKept ==
    ASSUME TypeInv, InputInv,
           \A s \in Sessions : KeepsInputs(s), \A p \in Processes : KeepsCall(p)
    PROVE  InputInv'
<1>1. \A p \in Processes : calls'[p].at \in {"merge", "retire"} =>
         calls'[p] = calls[p] /\ calls[p].from \in Sessions /\ calls[p].into \in Sessions
  BY DEF KeepsCall, TypeInv, Targets
<1>2. \A s \in Sessions, i \in Inputs :
         /\ runs'[s].inputs[i] = "none" <=> runs[s].inputs[i] = "none"
         /\ runs'[s].inputs[i] \in {"none", "moved"} <=> runs[s].inputs[i] \in {"none", "moved"}
  BY DEF KeepsInputs
<1>3. \A s \in Sessions, i \in Inputs : LeavesInput(s, i)' => LeavesInput(s, i)
  BY <1>1 DEF LeavesInput
<1>4. ReadingInputs'
  BY <1>1, <1>2 DEF InputInv, ReadingInputs
<1>5. HeldInput'
  BY <1>2, <1>3 DEF InputInv, HeldInput
<1> QED
  BY <1>4, <1>5 DEF InputInv

LEMMA Quiet ==
    ASSUME AdoptInv, TypeInv', latest' = latest, alive' \subseteq alive,
           \A s \in Sessions : KeepsWorks(s) /\ KeepsInputs(s),
           \A p \in Processes : KeepsCall(p)
    PROVE  AdoptInv'
  BY CallsKept, PlacesKept, WorksKept, InputsKept DEF AdoptInv

\* A save keeps every other document and every call, but the claims it beats.
LEMMA SaveQuiet ==
    ASSUME TypeInv, NEW s \in Sessions, NEW r, Save(s, r)
    PROVE  /\ \A p \in Processes : KeepsCall(p)
           /\ \A t \in Sessions : runs'[t] = IF t = s THEN r ELSE runs[t]
           /\ \A t \in Sessions \ {s} : KeepsWorks(t) /\ KeepsInputs(t)
<1>1. \A t \in Sessions : runs'[t] = IF t = s THEN r ELSE runs[t]
  BY DEF Save, TypeInv, TypeOK
<1>2. \A p \in Processes : KeepsCall(p)
  <2> SUFFICES ASSUME NEW p \in Processes PROVE KeepsCall(p)
    OBVIOUS
  <2>1. calls'[p] = Saved(s)[p]
    BY DEF Save
  <2>2. calls[p].at = "claim" => calls[p].from \in Sessions
    BY DEF TypeInv, Targets
  <2> QED
    BY <1>1, <2>1, <2>2, SavedCalls DEF KeepsCall, TypeInv
<1> QED
  BY <1>1, <1>2 DEF KeepsWorks, KeepsInputs

\* The steps of a session that touch neither a work's place nor its progress,
\* unless they bring a superseded run back.
LEMMA SessionQuiet ==
    ASSUME AdoptInv, TypeInv', NEW s \in Sessions,
           runs[s].status = "superseded" => runs'[s].status = "superseded",
           \/ \E p \in Routers : Load(s, p)
           \/ Heartbeat(s) \/ Lapse(s) \/ Close(s)
           \/ \E a \in Sessions \cup {NoOne} : Implement(s, a)
           \/ \E directed \in BOOLEAN : Observe_input(s, directed)
           \/ Run_drain(s) \/ DrainEnds(s)
           \/ \E w \in Works : Attempt_ended(s, w)
           \/ \E i \in Inputs : \/ Deliver_queued_input(s, i)
                                \/ TurnEnds(s, i) \/ Acknowledge_input(s, i)
    PROVE  AdoptInv' /\ \A t \in Sessions : KeepsWorks(t)
<1> DEFINE r == runs[s]
<1>0. /\ r \in Run /\ r.works \in [Works -> Work] /\ r.inputs \in [Inputs -> InputState]
      /\ \A w \in Works : r.works[w] \in Work
  BY Fields DEF AdoptInv, TypeInv
<1>1. CASE runs' = runs /\ calls' = calls /\ latest' = latest /\ alive' = alive
  <2>1. \A t \in Sessions : KeepsWorks(t) /\ KeepsInputs(t)
    BY <1>1 DEF KeepsWorks, KeepsInputs
  <2>2. \A p \in Processes : KeepsCall(p)
    BY <1>1 DEF KeepsCall
  <2> QED
    BY <1>1, <2>1, <2>2, Quiet
<1>2. ASSUME NEW x, Save(s, x), latest' = latest, alive' = alive,
             x.status = "superseded" <=> r.status = "superseded", x.by = r.by,
             \A w \in Works : /\ x.works[w].child = r.works[w].child
                              /\ x.works[w].version = r.works[w].version
                              /\ x.works[w].at \in {r.works[w].at, NoOne},
             \A i \in Inputs : \/ x.inputs[i] = r.inputs[i]
                               \/ /\ x.inputs[i] \notin {"none", "moved"}
                                  /\ r.inputs[i] \notin {"none", "moved"}
      PROVE  AdoptInv' /\ \A t \in Sessions : KeepsWorks(t)
  <2>1. KeepsWorks(s) /\ KeepsInputs(s)
    BY <1>2, SaveQuiet DEF KeepsWorks, KeepsInputs, AdoptInv
  <2>2. /\ \A t \in Sessions : KeepsWorks(t) /\ KeepsInputs(t)
        /\ \A p \in Processes : KeepsCall(p)
    BY <1>2, <2>1, SaveQuiet DEF AdoptInv
  <2> QED
    BY <1>2, <2>2, Quiet
<1>3. ASSUME NEW x, Save(s, x) PROVE x = runs'[s]
  BY <1>3, SaveQuiet DEF AdoptInv
<1>5. CASE (\E p \in Routers : Load(s, p)) \/ Lapse(s)
  BY <1>1, <1>5 DEF Load, Lapse
<1>6. CASE Heartbeat(s)
  <2> DEFINE x == [r EXCEPT !.owner = loaded[s]]
  <2>1. x.by = r.by /\ x.works = r.works /\ x.inputs = r.inputs /\ x.status = r.status
    BY <1>0 DEF Run
  <2>2. Save(s, x) /\ latest' = latest /\ alive' = alive
    BY <1>6 DEF Heartbeat
  <2> HIDE DEF x
  <2> QED
    BY <1>2, <2>1, <2>2
<1>7. CASE Close(s)
  <2> DEFINE x == [r EXCEPT !.status = IF @ = "running" THEN "paused" ELSE @,
                            !.owner = IF @ = loaded[s] THEN NoOne ELSE @]
  <2>1. x.by = r.by /\ x.works = r.works /\ x.inputs = r.inputs
        /\ (x.status = "superseded" <=> r.status = "superseded")
    BY <1>0 DEF Run
  <2>2. Save(s, x) /\ latest' = latest /\ alive' = alive
    BY <1>7 DEF Close
  <2> HIDE DEF x
  <2> QED
    BY <1>2, <2>1, <2>2
<1>8. ASSUME NEW a \in Sessions \cup {NoOne}, Implement(s, a) PROVE AdoptInv' /\ \A t \in Sessions : KeepsWorks(t)
  <2> DEFINE x == [r EXCEPT !.status = "running",
                            !.owner = IF r.status = "none" THEN loaded[s] ELSE @,
                            !.pending = IF a = NoOne THEN @ ELSE a]
  <2>1. x.by = r.by /\ x.works = r.works /\ x.inputs = r.inputs
        /\ x.status = "running"
    BY <1>0 DEF Run
  <2>2. Save(s, x) /\ latest' = latest /\ alive' = alive /\ r.status # "superseded"
    BY <1>8 DEF Implement
  <2> HIDE DEF x
  <2> QED
    BY <1>2, <2>1, <2>2
<1>9. ASSUME NEW directed \in BOOLEAN, Observe_input(s, directed) PROVE AdoptInv' /\ \A t \in Sessions : KeepsWorks(t)
  <2> DEFINE x == [r EXCEPT !.status = "running"]
  <2>1. x.by = r.by /\ x.works = r.works /\ x.inputs = r.inputs /\ x.status = "running"
    BY <1>0 DEF Run
  <2>2. Save(s, x) /\ latest' = latest /\ alive' = alive
    BY <1>9 DEF Observe_input
  <2> HIDE DEF x
  <2>3. r.status # "superseded"
    BY <1>3, <2>1, <2>2
  <2> QED
    BY <1>2, <2>1, <2>2, <2>3
<1>10. CASE Run_drain(s)
  <2> DEFINE x == [r EXCEPT !.status = "draining"]
  <2>1. x.by = r.by /\ x.works = r.works /\ x.inputs = r.inputs /\ x.status = "draining"
    BY <1>0 DEF Run
  <2>2. Save(s, x) /\ latest' = latest /\ alive' = alive
    BY <1>10 DEF Run_drain
  <2> HIDE DEF x
  <2>3. r.status # "superseded"
    BY <1>3, <2>1, <2>2
  <2> QED
    BY <1>2, <2>1, <2>2, <2>3
<1>11. CASE DrainEnds(s)
  <2> DEFINE x == [r EXCEPT !.status = "paused"]
  <2>1. x.by = r.by /\ x.works = r.works /\ x.inputs = r.inputs /\ x.status = "paused"
    BY <1>0 DEF Run
  <2>2. Save(s, x) /\ latest' = latest /\ alive' = alive
    BY <1>11 DEF DrainEnds
  <2> HIDE DEF x
  <2>3. r.status # "superseded"
    BY <1>3, <2>1, <2>2
  <2> QED
    BY <1>2, <2>1, <2>2, <2>3
<1>12. ASSUME NEW w \in Works, Attempt_ended(s, w) PROVE AdoptInv' /\ \A t \in Sessions : KeepsWorks(t)
  <2> DEFINE x == [r EXCEPT !.works[w].at = NoOne]
  <2>1. x.by = r.by /\ x.inputs = r.inputs /\ x.status = r.status
    BY <1>0 DEF Run
  <2>2. \A u \in Works : /\ x.works[u].child = r.works[u].child
                         /\ x.works[u].version = r.works[u].version
                         /\ x.works[u].at \in {r.works[u].at, NoOne}
    BY <1>0 DEF Run, Work
  <2>3. Save(s, x) /\ latest' = latest /\ alive' = alive
    BY <1>12 DEF Attempt_ended
  <2> HIDE DEF x
  <2> QED
    BY <1>2, <2>1, <2>2, <2>3
<1>13. ASSUME NEW i \in Inputs, Deliver_queued_input(s, i) PROVE AdoptInv' /\ \A t \in Sessions : KeepsWorks(t)
  <2> DEFINE x == [r EXCEPT !.inputs[i] = "turn", !.claim = loaded[s]]
  <2>1. x.by = r.by /\ x.works = r.works /\ x.status = r.status
    BY <1>0 DEF Run
  <2>2. \A j \in Inputs : \/ x.inputs[j] = r.inputs[j]
                          \/ /\ x.inputs[j] \notin {"none", "moved"}
                             /\ r.inputs[j] \notin {"none", "moved"}
    BY <1>0, <1>13 DEF Run, Deliver_queued_input
  <2>3. Save(s, x) /\ latest' = latest /\ alive' = alive
    BY <1>13 DEF Deliver_queued_input
  <2> HIDE DEF x
  <2> QED
    BY <1>2, <2>1, <2>2, <2>3
<1>14. ASSUME NEW i \in Inputs, TurnEnds(s, i) PROVE AdoptInv' /\ \A t \in Sessions : KeepsWorks(t)
  <2> DEFINE x == [r EXCEPT !.claim = NoOne,
                            !.inputs[i] = IF @ = "turn" THEN "received" ELSE @]
             y == [r EXCEPT !.claim = NoOne]
  <2>1. /\ x.by = r.by /\ x.works = r.works /\ x.status = r.status
        /\ y.by = r.by /\ y.works = r.works /\ y.status = r.status /\ y.inputs = r.inputs
    BY <1>0 DEF Run
  <2>2. \A j \in Inputs : \/ x.inputs[j] = r.inputs[j]
                          \/ /\ x.inputs[j] \notin {"none", "moved"}
                             /\ r.inputs[j] \notin {"none", "moved"}
    BY <1>0, <1>14 DEF Run, TurnEnds
  <2>3. (Save(s, x) \/ Save(s, y)) /\ latest' = latest /\ alive' = alive
    BY <1>14 DEF TurnEnds
  <2> HIDE DEF x, y
  <2> QED
    BY <1>2, <2>1, <2>2, <2>3
<1>15. ASSUME NEW i \in Inputs, Acknowledge_input(s, i) PROVE AdoptInv' /\ \A t \in Sessions : KeepsWorks(t)
  <2> DEFINE x == [r EXCEPT !.inputs[i] = "resolved"]
  <2>1. x.by = r.by /\ x.works = r.works /\ x.status = r.status
    BY <1>0 DEF Run
  <2>2. \A j \in Inputs : \/ x.inputs[j] = r.inputs[j]
                          \/ /\ x.inputs[j] \notin {"none", "moved"}
                             /\ r.inputs[j] \notin {"none", "moved"}
    BY <1>0, <1>15 DEF Run, Acknowledge_input
  <2>3. Save(s, x) /\ latest' = latest /\ alive' = alive
    BY <1>15 DEF Acknowledge_input
  <2> HIDE DEF x
  <2> QED
    BY <1>2, <2>1, <2>2, <2>3
<1> QED
  BY <1>5, <1>6, <1>7, <1>8, <1>9, <1>10, <1>11, <1>12, <1>13, <1>14, <1>15

\* The steps of a call that do not get it to work on two runs.
LEMMA CallQuiet ==
    ASSUME AdoptInv, TypeInv', latest' = latest, alive' \subseteq alive, runs' = runs,
           \A p \in Processes : \/ calls'[p] = calls[p]
                                \/ calls'[p].at \in {"idle", "check", "clear"}
    PROVE  AdoptInv'
<1>1. \A t \in Sessions : KeepsWorks(t) /\ KeepsInputs(t)
  BY DEF KeepsWorks, KeepsInputs
<1>2. \A p \in Processes : KeepsCall(p)
  BY DEF KeepsCall
<1> QED
  BY <1>1, <1>2, Quiet

LEMMA Idles == /\ Idle.at = "idle"
               /\ \A s \in Session : Clear(s).at = "clear"
               /\ \A s, t \in Session : Adopt_at(s, t).at = "check"
  BY Blank DEF Idle, Clear, Adopt_at, Call

LEMMA GotoQuiet ==
    ASSUME AdoptInv, TypeInv', latest' = latest, alive' \subseteq alive, runs' = runs,
           NEW p \in Processes, NEW d, Goto(p, d), d.at \in {"idle", "check", "clear"}
    PROVE  AdoptInv'
<1>1. \A q \in Processes : calls'[q] = IF q = p THEN d ELSE calls[q]
  BY DEF Goto, AdoptInv, TypeInv, TypeOK
<1> QED
  BY <1>1, CallQuiet

LEMMA RetryInv ==
    ASSUME AdoptInv, TypeInv', NEW s \in Sessions, Retry_pending(s)
    PROVE  AdoptInv'
<1>1. /\ runs' = runs /\ latest' = latest /\ alive' = alive
      /\ loaded[s] \in Processes
  BY DEF Retry_pending, Loaded, AdoptInv, TypeInv, TypeOK, Router, Processes
<1>2. PICK d \in {Adopt_at(runs[s].pending, s), Clear(s)} :
         calls' = [Saved(s) EXCEPT ![loaded[s]] = d]
  BY DEF Retry_pending
<1>3. d.at \in {"check", "clear"}
  BY Idles, Fields DEF AdoptInv, TypeInv, Session
<1>4. Saved(s) \in [Processes -> Call]
  BY SavedCalls DEF AdoptInv, TypeInv
<1>5. \A q \in Processes : calls'[q] = IF q = loaded[s] THEN d ELSE Saved(s)[q]
  BY <1>1, <1>2, <1>4
<1>6. \A q \in Processes : calls'[q] = calls[q] \/ calls'[q].at \in {"check", "clear"}
  BY <1>3, <1>5, SavedCalls DEF AdoptInv, TypeInv
<1> QED
  BY <1>1, <1>6, CallQuiet

\* The end of the handoff is a save of the destination.
LEMMA PendingInv ==
    ASSUME AdoptInv, TypeInv', NEW p \in Processes, Adoption_pending(p)
    PROVE  AdoptInv' /\ \A t \in Sessions : KeepsWorks(t)
<1> DEFINE s == calls[p].into
           r == runs[s]
           x == [r EXCEPT !.pending = NoOne]
<1>1. s \in Sessions /\ r \in Run
  BY Fields DEF Adoption_pending, AdoptInv, TypeInv, Targets
<1>2. x.by = r.by /\ x.works = r.works /\ x.inputs = r.inputs /\ x.status = r.status
  BY <1>1 DEF Run
<1>3. runs' = [runs EXCEPT ![s] = x] /\ calls' = [Saved(s) EXCEPT ![p] = Idle]
  BY DEF Adoption_pending, AdoptInv, TypeInv, TypeOK
<1>4. latest' = latest /\ alive' = alive
  BY DEF Adoption_pending
<1>5. \A t \in Sessions : runs'[t] = IF t = s THEN x ELSE runs[t]
  BY <1>3 DEF AdoptInv, TypeInv, TypeOK
<1> HIDE DEF x
<1>6. \A t \in Sessions : KeepsWorks(t) /\ KeepsInputs(t)
  BY <1>2, <1>5 DEF KeepsWorks, KeepsInputs
<1>7. Saved(s) \in [Processes -> Call]
  BY <1>1, SavedCalls DEF AdoptInv, TypeInv
<1>8. \A q \in Processes : calls'[q] = IF q = p THEN Idle ELSE Saved(s)[q]
  BY <1>3, <1>7
<1>9. \A q \in Processes : KeepsCall(q)
  <2> SUFFICES ASSUME NEW q \in Processes PROVE KeepsCall(q)
    OBVIOUS
  <2>1. calls[q].at = "claim" => calls[q].from \in Sessions
    BY DEF AdoptInv, TypeInv, Targets
  <2>2. \/ Saved(s)[q] = calls[q] /\ ~(calls[q].at = "claim" /\ calls[q].from = s)
        \/ Saved(s)[q].at = "check"
    BY <1>1, SavedCalls DEF AdoptInv, TypeInv
  <2> HIDE DEF s
  <2> QED
    BY <1>5, <1>8, <2>1, <2>2, Idles DEF KeepsCall
<1> QED
  BY <1>4, <1>6, <1>9, Quiet

------------------------------------------------------------------------------
(* The steps that move works and inputs *)

\* A new input: no run knew it.
LEMMA EnqueueInv ==
    ASSUME AdoptInv, TypeInv', NEW s \in Sessions, NEW i \in Inputs,
           runs[s].status = "superseded" => runs'[s].status = "superseded",
           Enqueue_parent_input(s, i)
    PROVE  AdoptInv' /\ \A t \in Sessions : KeepsWorks(t)
<1> DEFINE r == runs[s]
           x == [r EXCEPT !.inputs[i] = "queued"]
<1>0. r \in Run /\ r.inputs \in [Inputs -> InputState]
  BY Fields DEF AdoptInv, TypeInv
<1>1. x.by = r.by /\ x.works = r.works /\ x.status = r.status
  BY <1>0 DEF Run
<1>2. \A j \in Inputs : x.inputs[j] = IF j = i THEN "queued" ELSE r.inputs[j]
  BY <1>0 DEF Run
<1>3. Save(s, x) /\ latest' = latest /\ alive' = alive
      /\ \A t \in Sessions : runs[t].inputs[i] = "none"
  BY DEF Enqueue_parent_input
<1> HIDE DEF x
<1>4. /\ \A p \in Processes : KeepsCall(p)
      /\ \A t \in Sessions : runs'[t] = IF t = s THEN x ELSE runs[t]
      /\ \A t \in Sessions : KeepsWorks(t)
  BY <1>1, <1>3, SaveQuiet DEF AdoptInv, KeepsWorks
<1>5. CallInv' /\ PlaceInv' /\ WorkInv'
  BY <1>3, <1>4, CallsKept, PlacesKept, WorksKept DEF AdoptInv
<1>6. \A p \in Processes : calls'[p].at \in {"merge", "retire"} =>
         calls'[p] = calls[p] /\ calls[p].from \in Sessions /\ calls[p].into \in Sessions
  BY <1>4 DEF KeepsCall, AdoptInv, TypeInv, Targets
<1>7. \A t \in Sessions, j \in Inputs :
         runs'[t].inputs[j] = IF t = s /\ j = i THEN "queued" ELSE runs[t].inputs[j]
  BY <1>2, <1>4
<1>8. ReadingInputs'
  BY <1>3, <1>6, <1>7 DEF ReadingInputs, AdoptInv, InputInv
<1>9. ~LeavesInput(s, i)
  BY <1>3 DEF LeavesInput, AdoptInv, InputInv, ReadingInputs, TypeInv, Targets
<1>10. \A t \in Sessions, j \in Inputs : LeavesInput(t, j)' => LeavesInput(t, j)
  BY <1>6 DEF LeavesInput
<1>11. HeldInput'
  BY <1>3, <1>7, <1>9, <1>10 DEF HeldInput, AdoptInv, InputInv
<1> QED
  BY <1>4, <1>5, <1>8, <1>11 DEF AdoptInv, InputInv

\* A save of a run that is not superseded leaves what waits for heirs alone.
LEMMA LiveSave ==
    ASSUME AdoptInv, TypeInv', NEW s \in Sessions, NEW x, Save(s, x),
           ~Gone(s), x.status # "superseded", x.inputs = runs[s].inputs, alive' = alive
    PROVE  /\ CallInv' /\ InputInv' /\ Heirs'
           /\ \A t \in Sessions : runs'[t] = IF t = s THEN x ELSE runs[t]
           /\ \A t \in Sessions : Gone(t)' <=> Gone(t)
           /\ \A t \in Sessions : Gone(t) => runs'[t].by = runs[t].by
           /\ \A t, k \in Sessions, w \in Works, v \in Nat : Left(t, k, w, v)' <=> Left(t, k, w, v)
           /\ \A t \in Sessions, w \in Works : Leaves(t, w)' => Leaves(t, w)
           /\ \A w \in Works : ~Leaves(s, w)'
<1>1. /\ \A t \in Sessions : runs'[t] = IF t = s THEN x ELSE runs[t]
      /\ \A p \in Processes : KeepsCall(p)
  BY SaveQuiet DEF AdoptInv
<1>2. \A t \in Sessions : Gone(t)' <=> Gone(t)
  BY <1>1 DEF Gone
<1>3. \A t \in Sessions : Gone(t) => runs'[t] = runs[t]
  BY <1>1
<1>4. \A p \in Processes :
         \/ Saved(s)[p] = calls[p]
         \/ calls[p].at = "claim" /\ Saved(s)[p].at = "check"
  BY SavedCalls DEF AdoptInv, TypeInv
<1>5. \A p \in Processes : \/ calls'[p] = calls[p]
                           \/ calls[p].at = "claim" /\ calls'[p].at = "check"
  BY <1>4 DEF Save
<1>6. \A p \in Processes : calls[p].at \in {"merge", "retire"} =>
         /\ calls[p].from \in Sessions /\ calls[p].into \in Sessions
         /\ Gone(calls[p].from) /\ calls[p].from # s
         /\ runs'[calls[p].from] = runs[calls[p].from]
  BY <1>3 DEF AdoptInv, CallInv, Fences, TypeInv, Targets
<1>7. \A t \in Sessions : KeepsInputs(t)
  BY <1>1 DEF KeepsInputs
<1>8. InputInv'
  BY <1>1, <1>7, InputsKept DEF AdoptInv
<1>9. Heirs'
  BY <1>2, <1>3 DEF Heirs, AdoptInv, PlaceInv
<1>10. Claiming'
  BY <1>1, <1>2, <1>5 DEF Claiming, KeepsCall, AdoptInv, CallInv, TypeInv, Targets
<1>11. Fences'
  BY <1>2, <1>5, <1>6 DEF Fences, AdoptInv, CallInv
<1>12. Reading'
  BY <1>5, <1>6 DEF Reading, AdoptInv, CallInv
<1>13. \A t, k \in Sessions, w \in Works, v \in Nat : Left(t, k, w, v)' <=> Left(t, k, w, v)
  <2> SUFFICES ASSUME NEW t \in Sessions, NEW k \in Sessions, NEW w \in Works, NEW v \in Nat
               PROVE  Left(t, k, w, v)' <=> Left(t, k, w, v)
    OBVIOUS
  <2>1. \A p \in Processes : Reads(p, t)' <=> Reads(p, t)
    BY <1>5 DEF Reads
  <2>2. \A p \in Processes : Reads(p, t) => calls'[p] = calls[p]
    BY <1>5 DEF Reads
  <2>3. Gone(t) => (Holds(t, k, w)' <=> Holds(t, k, w)) /\ runs'[t] = runs[t]
    BY <1>3 DEF Holds
  <2> QED
    BY <1>2, <2>1, <2>2, <2>3 DEF Left
<1>14. \A t \in Sessions, w \in Works : Leaves(t, w)' => Leaves(t, w)
  BY <1>5 DEF Leaves
<1>15. \A w \in Works : ~Leaves(s, w)
  BY <1>6 DEF Leaves
<1> QED
  BY <1>1, <1>2, <1>3, <1>8, <1>9, <1>10, <1>11, <1>12, <1>13, <1>14, <1>15 DEF CallInv

\* A new work: nobody has one that its child would be.
LEMMA AdmitInv ==
    ASSUME AdoptInv, TypeInv', NEW s \in Sessions, NEW w \in Works, Admit(s, w)
    PROVE  AdoptInv'
<1> DEFINE r == runs[s]
           y == [NoWork EXCEPT !.child = s, !.version = 1]
           x == [r EXCEPT !.works[w] = y]
<1>0. r \in Run /\ r.works \in [Works -> Work]
  BY Fields DEF AdoptInv, TypeInv
<1>1. y.child = s /\ y.version = 1 /\ y.at = NoOne
  BY DEF NoWork
<1>2. x.inputs = r.inputs /\ x.status = r.status
  BY <1>0 DEF Run
<1>3. \A u \in Works : x.works[u] = IF u = w THEN y ELSE r.works[u]
  BY <1>0 DEF Run
<1>4. /\ Save(s, x) /\ alive' = alive /\ r.status = "running"
      /\ latest[s][w] = 0 /\ Holds(s, NoOne, w)
      /\ latest' = [latest EXCEPT ![s][w] = 1]
  BY DEF Admit, Has, Holds
<1>5. \A k \in Sessions, u \in Works :
         latest'[k][u] = IF k = s /\ u = w THEN 1 ELSE latest[k][u]
  BY <1>4 DEF AdoptInv, TypeInv, TypeOK
<1> HIDE DEF x, y
<1>6. ~Gone(s)
  BY <1>4 DEF Gone
<1>7. /\ CallInv' /\ InputInv' /\ Heirs'
      /\ \A t \in Sessions : runs'[t] = IF t = s THEN x ELSE runs[t]
      /\ \A t \in Sessions : Gone(t)' <=> Gone(t)
      /\ \A t \in Sessions : Gone(t) => runs'[t].by = runs[t].by
      /\ \A t, k \in Sessions, u \in Works, v \in Nat : Left(t, k, u, v)' <=> Left(t, k, u, v)
      /\ \A t \in Sessions, u \in Works : Leaves(t, u)' => Leaves(t, u)
      /\ \A u \in Works : ~Leaves(s, u)'
  BY <1>2, <1>4, <1>6, LiveSave
<1>8. \A t, k \in Sessions, u \in Works :
         Holds(t, k, u)' <=> IF t = s /\ u = w THEN k = s ELSE Holds(t, k, u)
  BY <1>1, <1>3, <1>7 DEF Holds
<1>9. \A t, k \in Sessions, u \in Works, v \in Nat :
         Inherits(t, k, u, v)' <=> Inherits(t, k, u, v)
  BY <1>7 DEF Inherits, Left
<1>10. \A k \in Sessions : ~Holds(s, k, w)
  BY <1>4, Child DEF Holds
<1>11. \A t \in Sessions : /\ ~Holds(t, s, w)
                           /\ \A v \in Nat : ~Left(t, s, w, v) /\ ~Inherits(t, s, w, v)
  BY <1>4 DEF AdoptInv, WorkInv, Admitted, Inherits
<1>12. \A t, k \in Sessions, u \in Works : Coordinates(t, k, u)' =>
          IF k = s /\ u = w THEN t = s ELSE Coordinates(t, k, u)
  BY <1>7, <1>8, <1>9, <1>11 DEF Coordinates
<1>13. Unique'
  BY <1>12 DEF Unique, AdoptInv, WorkInv
<1>14. Current'
  <2> SUFFICES ASSUME NEW t \in Sessions, NEW k \in Sessions, NEW u \in Works, ~Gone(t)'
               PROVE  IF Holds(t, k, u)' THEN runs'[t].works[u].version = latest'[k][u]
                      ELSE \A v \in Nat : Inherits(t, k, u, v)' => v = latest'[k][u]
    BY DEF Current
  <2>1. IF Holds(t, k, u) THEN runs[t].works[u].version = latest[k][u]
        ELSE \A v \in Nat : Inherits(t, k, u, v) => v = latest[k][u]
    BY <1>7 DEF AdoptInv, WorkInv, Current
  <2>2. CASE t = s /\ u = w
    BY <1>1, <1>3, <1>5, <1>7, <1>8, <1>9, <1>10, <1>11, <2>1, <2>2
  <2>3. CASE ~(t = s /\ u = w)
    <3>1. Holds(t, k, u)' <=> Holds(t, k, u)
      BY <1>8, <2>3
    <3>2. runs'[t].works[u] = runs[t].works[u]
      BY <1>3, <1>7, <2>3
    <3> QED
      BY <1>5, <1>9, <1>11, <2>1, <3>1, <3>2
  <2> QED
    BY <2>2, <2>3
<1>15. Admitted'
  BY <1>5, <1>7, <1>8 DEF Admitted, AdoptInv, WorkInv
<1>16. Held'
  <2> SUFFICES ASSUME NEW k \in Sessions, NEW u \in Works, latest'[k][u] # 0
               PROVE  \E t \in Sessions : /\ Holds(t, k, u)'
                                          /\ runs'[t].works[u].version = latest'[k][u]
                                          /\ ~Leaves(t, u)'
    BY DEF Held
  <2>1. CASE k = s /\ u = w
    BY <1>1, <1>3, <1>5, <1>7, <1>8, <2>1
  <2>2. CASE ~(k = s /\ u = w)
    <3>1. PICK t \in Sessions : /\ Holds(t, k, u)
                                /\ runs[t].works[u].version = latest[k][u]
                                /\ ~Leaves(t, u)
      BY <1>5, <2>2 DEF AdoptInv, WorkInv, Held
    <3>2. ~(t = s /\ u = w)
      BY <1>10, <3>1
    <3>3. runs'[t].works[u] = runs[t].works[u]
      BY <1>3, <1>7, <3>2
    <3> QED
      BY <1>5, <1>7, <1>8, <2>2, <3>1, <3>2, <3>3
  <2> QED
    BY <2>1, <2>2
<1>17. Vacant'
  <2>1. NoOne \notin alive
    BY AdoptAssumption DEF AdoptInv, TypeInv, TypeOK
  <2>2. \A t \in Sessions, u \in Works : runs'[t].works[u].at \in {runs[t].works[u].at, NoOne}
                            /\ (runs'[t].works[u].child = NoOne => runs[t].works[u].child = NoOne)
    BY <1>1, <1>3, <1>7, Child
  <2> QED
    BY <1>4, <2>1, <2>2 DEF Vacant, Holds, AdoptInv, PlaceInv
<1> QED
  BY <1>7, <1>13, <1>14, <1>15, <1>16, <1>17 DEF AdoptInv, WorkInv, PlaceInv

\* An attempt: the run that begins it is the coordinator, so no copy anywhere
\* gets older by it.
LEMMA BeginInv ==
    ASSUME AdoptInv, TypeInv', NEW s \in Sessions, NEW w \in Works, Begin_work(s, w)
    PROVE  AdoptInv'
<1> DEFINE r == runs[s]
           y == r.works[w]
           n == y.version + 1
           z == [y EXCEPT !.at = loaded[s], !.version = n]
           x == [r EXCEPT !.works[w] = z]
           k0 == y.child
<1>0. r \in Run /\ r.works \in [Works -> Work] /\ y \in Work
  BY Fields DEF AdoptInv, TypeInv
<1>1. /\ k0 \in Sessions /\ y.version \in Nat
      /\ z.child = k0 /\ z.version = n
  <2>1. y.child \in Session /\ y.version \in Nat
    BY <1>0, WorkFields
  <2>2. y.child # NoOne
    BY DEF Begin_work, Has
  <2>3. z.child = k0 /\ z.version = n
    BY <1>0 DEF Work
  <2> QED
    BY <2>1, <2>2, <2>3 DEF Session
<1>2. x.inputs = r.inputs /\ x.status = r.status
  BY <1>0 DEF Run
<1>3. \A u \in Works : x.works[u] = IF u = w THEN z ELSE r.works[u]
  BY <1>0 DEF Run
<1>4. x = runs'[s] /\ Save(s, x)
  <2>1. [r EXCEPT !.works[w].at = loaded[s], !.works[w].version = @ + 1] = x
    <3> DEFINE ws == [r.works EXCEPT ![w].at = loaded[s], ![w].version = n]
    <3>1. ws = [r.works EXCEPT ![w] = z]
      BY <1>0 DEF Work
    <3>2. [r EXCEPT !.works[w].at = loaded[s], !.works[w].version = @ + 1]
             = [r EXCEPT !.works = ws]
      BY <1>0 DEF Run
    <3>3. x = [r EXCEPT !.works = [r.works EXCEPT ![w] = z]]
      BY <1>0 DEF Run
    <3> QED
      BY <3>1, <3>2, <3>3
  <2>2. Save(s, x)
    BY <2>1 DEF Begin_work
  <2> HIDE DEF x
  <2> QED
    BY <2>2, SaveQuiet DEF AdoptInv
<1>5. alive' = alive /\ r.status = "running" /\ latest' = [latest EXCEPT ![k0][w] = n]
  BY DEF Begin_work
<1>6. \A k \in Sessions, u \in Works :
         latest'[k][u] = IF k = k0 /\ u = w THEN n ELSE latest[k][u]
  BY <1>1, <1>5 DEF AdoptInv, TypeInv, TypeOK
<1>7. ~Gone(s) /\ Holds(s, k0, w) /\ k0 # NoOne /\ n # 0
  BY <1>1, <1>5, Child DEF Gone, Holds
<1> HIDE DEF x, z, n, k0
<1>8. /\ CallInv' /\ InputInv' /\ Heirs'
      /\ \A t \in Sessions : runs'[t] = IF t = s THEN x ELSE runs[t]
      /\ \A t \in Sessions : Gone(t)' <=> Gone(t)
      /\ \A t \in Sessions : Gone(t) => runs'[t].by = runs[t].by
      /\ \A t, k \in Sessions, u \in Works, v \in Nat : Left(t, k, u, v)' <=> Left(t, k, u, v)
      /\ \A t \in Sessions, u \in Works : Leaves(t, u)' => Leaves(t, u)
      /\ \A u \in Works : ~Leaves(s, u)'
  BY <1>2, <1>4, <1>5, <1>7, LiveSave
<1>9. \A t, k \in Sessions, u \in Works : Holds(t, k, u)' <=> Holds(t, k, u)
  BY <1>1, <1>3, <1>8 DEF Holds, k0
<1>10. \A t, k \in Sessions, u \in Works, v \in Nat :
          Inherits(t, k, u, v)' <=> Inherits(t, k, u, v)
  BY <1>8 DEF Inherits, Left
<1>11. \A t, k \in Sessions, u \in Works : Coordinates(t, k, u)' <=> Coordinates(t, k, u)
  BY <1>8, <1>9, <1>10 DEF Coordinates
<1>12. Unique'
  BY <1>11 DEF Unique, AdoptInv, WorkInv
<1>13. \A t \in Sessions : Coordinates(t, k0, w) => t = s
  <2>1. Coordinates(s, k0, w)
    BY <1>7 DEF Coordinates
  <2> QED
    BY <1>1, <2>1 DEF AdoptInv, WorkInv, Unique
<1>14. Current'
  <2> SUFFICES ASSUME NEW t \in Sessions, NEW k \in Sessions, NEW u \in Works, ~Gone(t)'
               PROVE  IF Holds(t, k, u)' THEN runs'[t].works[u].version = latest'[k][u]
                      ELSE \A v \in Nat : Inherits(t, k, u, v)' => v = latest'[k][u]
    BY DEF Current
  <2>1. IF Holds(t, k, u) THEN runs[t].works[u].version = latest[k][u]
        ELSE \A v \in Nat : Inherits(t, k, u, v) => v = latest[k][u]
    BY <1>8 DEF AdoptInv, WorkInv, Current
  <2>2. CASE k = k0 /\ u = w
    <3>1. t = s \/ ~Coordinates(t, k, u)
      BY <1>13, <2>2
    <3>2. CASE t = s
      BY <1>1, <1>3, <1>6, <1>7, <1>8, <1>9, <2>2, <3>2
    <3>3. CASE ~Coordinates(t, k, u)
      BY <1>8, <1>9, <1>10, <3>3 DEF Coordinates
    <3> QED
      BY <3>1, <3>2, <3>3
  <2>3. CASE ~(k = k0 /\ u = w)
    <3>1. Holds(t, k, u) => ~(t = s /\ u = w)
      BY <2>3, <1>7 DEF Holds
    <3>2. Holds(t, k, u) => runs'[t].works[u] = runs[t].works[u]
      BY <1>3, <1>8, <3>1
    <3> QED
      BY <1>6, <1>9, <1>10, <2>1, <2>3, <3>2
  <2> QED
    BY <2>2, <2>3
<1>15. Admitted'
  BY <1>6, <1>7, <1>8, <1>9 DEF Admitted, AdoptInv, WorkInv
<1>16. Held'
  <2> SUFFICES ASSUME NEW k \in Sessions, NEW u \in Works, latest'[k][u] # 0
               PROVE  \E t \in Sessions : /\ Holds(t, k, u)'
                                          /\ runs'[t].works[u].version = latest'[k][u]
                                          /\ ~Leaves(t, u)'
    BY DEF Held
  <2>1. CASE k = k0 /\ u = w
    BY <1>1, <1>3, <1>6, <1>7, <1>8, <1>9, <2>1
  <2>2. CASE ~(k = k0 /\ u = w)
    <3>1. PICK t \in Sessions : /\ Holds(t, k, u)
                                /\ runs[t].works[u].version = latest[k][u]
                                /\ ~Leaves(t, u)
      BY <1>6, <2>2 DEF AdoptInv, WorkInv, Held
    <3>2. ~(t = s /\ u = w)
      BY <1>7, <2>2, <3>1 DEF Holds
    <3>3. runs'[t].works[u] = runs[t].works[u]
      BY <1>3, <1>8, <3>2
    <3> QED
      BY <1>6, <1>8, <1>9, <2>2, <3>1, <3>3
  <2> QED
    BY <2>1, <2>2
<1>17. Vacant'
  <2>1. \A t \in Sessions, u \in Works : runs'[t].works[u].child = NoOne =>
           runs'[t].works[u] = runs[t].works[u]
    BY <1>1, <1>3, <1>7, <1>8
  <2> QED
    BY <1>5, <2>1 DEF Vacant, Holds, AdoptInv, PlaceInv
<1> QED
  BY <1>8, <1>12, <1>14, <1>15, <1>16, <1>17 DEF AdoptInv, WorkInv, PlaceInv

\* The check finds a run nobody works on, or the claim of an adoption that was
\* cut short.
LEMMA CheckInv ==
    ASSUME AdoptInv, TypeInv', NEW p \in Processes, Check(p)
    PROVE  AdoptInv'
<1> DEFINE c == calls[p]
           f == c.from
<1>1. f \in Sessions /\ c.into \in Sessions /\ c \in Call
  BY Fields DEF Check, AdoptInv, TypeInv, Targets
<1>2. PICK at \in {"claim", "merge"} :
         /\ calls' = [calls EXCEPT ![p] = [c EXCEPT !.at = at, !.read = runs[f]]]
         /\ at = "merge" => Gone(f) /\ runs[f].by = c.into
         /\ at = "claim" => ~Gone(f) /\ \A w \in Works : runs[f].works[w].at \notin alive
  BY DEF Check, Goto, ClaimedBefore, Adoptable, Live_owner, Gone
<1> DEFINE d == [c EXCEPT !.at = at, !.read = runs[f]]
<1>3. d.at = at /\ d.from = f /\ d.into = c.into /\ d.read = runs[f]
  BY <1>1 DEF Call
<1>4. \A q \in Processes : calls'[q] = IF q = p THEN d ELSE calls[q]
  BY <1>2 DEF AdoptInv, TypeInv, TypeOK
<1>5. runs' = runs /\ alive' = alive /\ latest' = latest
  BY DEF Check
<1> HIDE DEF d, f
<1>6. Claiming'
  <2> SUFFICES ASSUME NEW q \in Processes, calls'[q].at = "claim"
               PROVE  /\ calls'[q].read = runs[calls'[q].from]
                      /\ runs[calls'[q].from].status # "superseded"
                      /\ \A w \in Works : calls'[q].read.works[w].at \notin alive
    BY <1>5 DEF Claiming, Gone
  <2>1. CASE q = p
    BY <1>2, <1>3, <1>4, <2>1 DEF Gone
  <2>2. CASE q # p
    BY <1>4, <2>2 DEF AdoptInv, CallInv, Claiming, Gone
  <2> QED
    BY <2>1, <2>2
<1>7. Fences'
  <2> SUFFICES ASSUME NEW q \in Processes, calls'[q].at \in {"merge", "retire"}
               PROVE  /\ runs[calls'[q].from].status = "superseded"
                      /\ runs[calls'[q].from].by = calls'[q].into
    BY <1>5 DEF Fences, Gone
  <2>1. CASE q = p
    BY <1>2, <1>3, <1>4, <2>1 DEF Gone
  <2>2. CASE q # p
    BY <1>4, <2>2 DEF AdoptInv, CallInv, Fences, Gone
  <2> QED
    BY <2>1, <2>2
<1>8. Reading'
  <2> SUFFICES ASSUME NEW q \in Processes, calls'[q].at = "merge", NEW w \in Works
               PROVE  /\ calls'[q].read.works[w].at \notin alive
                      /\ runs[calls'[q].from].works[w].child
                            \in {NoOne, calls'[q].read.works[w].child}
    BY <1>5 DEF Reading
  <2>1. CASE q = p
    BY <1>1, <1>2, <1>3, <1>4, <2>1 DEF AdoptInv, PlaceInv, Heirs
  <2>2. CASE q # p
    BY <1>4, <2>2 DEF AdoptInv, CallInv, Reading
  <2> QED
    BY <2>1, <2>2
<1>9. PlaceInv'
  BY <1>5 DEF AdoptInv, PlaceInv, Heirs, Vacant, Gone, Holds
<1>10. \A s, k \in Sessions, w \in Works, v \in Nat : Left(s, k, w, v)' => Left(s, k, w, v)
  <2> SUFFICES ASSUME NEW s \in Sessions, NEW k \in Sessions, NEW w \in Works, NEW v \in Nat,
                      Gone(s), NEW q \in Processes, calls'[q].at = "merge", calls'[q].from = s,
                      calls'[q].read.works[w].child = k, calls'[q].read.works[w].version = v
               PROVE  Left(s, k, w, v)
    BY <1>5 DEF Left, Gone, Holds, Reads
  <2>1. CASE q = p
    BY <1>3, <1>4, <2>1 DEF Left, Holds
  <2>2. CASE q # p
    BY <1>4, <2>2 DEF Left, Reads
  <2> QED
    BY <2>1, <2>2
<1>11. \A s \in Sessions, w \in Works : Leaves(s, w)' => Leaves(s, w)
  BY <1>3, <1>4 DEF Leaves
<1>12. WorkInv'
  BY <1>5, <1>10, <1>11, WorkKept DEF AdoptInv, Gone
<1>13. ReadingInputs'
  BY <1>3, <1>4, <1>5 DEF ReadingInputs, AdoptInv, InputInv
<1>14. \A s \in Sessions, i \in Inputs : LeavesInput(s, i)' => LeavesInput(s, i)
  BY <1>3, <1>4 DEF LeavesInput
<1>15. HeldInput'
  BY <1>5, <1>14 DEF HeldInput, AdoptInv, InputInv
<1> QED
  BY <1>6, <1>7, <1>8, <1>9, <1>12, <1>13, <1>15 DEF AdoptInv, CallInv, InputInv

\* The claim hands what the source has to the destination: from now on the
\* source is not a coordinator, and the destination is its heir.
LEMMA ClaimInv ==
    ASSUME AdoptInv, TypeInv', NEW p \in Processes, Claim(p)
    PROVE  AdoptInv'
<1> DEFINE c == calls[p]
           f == c.from
           h == c.into
           r == Claimed(c.read, h)
           d == [c EXCEPT !.at = "merge", !.read = r]
<1>1. f \in Sessions /\ h \in Sessions /\ c \in Call /\ c.at = "claim" /\ c.read \in Run
  BY Fields DEF Claim, AdoptInv, TypeInv, Targets
<1>2. c.read = runs[f] /\ ~Gone(f) /\ \A w \in Works : c.read.works[w].at \notin alive
  BY <1>1 DEF AdoptInv, CallInv, Claiming
<1>3. r.works = runs[f].works /\ r.inputs = runs[f].inputs /\ r.status = "superseded" /\ r.by = h
  BY <1>1, <1>2 DEF Claimed, Run
<1>4. d.at = "merge" /\ d.from = f /\ d.into = h /\ d.read = r
  BY <1>1 DEF Call
<1>5. /\ runs' = [runs EXCEPT ![f] = r]
      /\ calls' = [Saved(f) EXCEPT ![p] = d]
      /\ alive' = alive /\ latest' = latest
  BY DEF Claim
<1>6. \A s \in Sessions : runs'[s] = IF s = f THEN r ELSE runs[s]
  BY <1>5 DEF AdoptInv, TypeInv, TypeOK
<1>7. \A q \in Processes : calls'[q] = IF q = p THEN d ELSE Saved(f)[q]
  <2>1. Saved(f) \in [Processes -> Call]
    BY <1>1, SavedCalls DEF AdoptInv, TypeInv
  <2> QED
    BY <1>5, <2>1
<1> HIDE DEF c, d, r, f, h
<1>8. \A q \in Processes \ {p} :
         \/ calls'[q] = calls[q] /\ ~(calls[q].at = "claim" /\ calls[q].from = f)
         \/ calls[q].at = "claim" /\ calls'[q].at = "check"
  BY <1>1, <1>7, SavedCalls DEF AdoptInv, TypeInv
<1>9. \A s \in Sessions : Gone(s)' <=> (Gone(s) \/ s = f)
  BY <1>3, <1>6 DEF Gone
<1>10. \A q \in Processes \ {p} : calls[q].at \in {"merge", "retire"} => calls[q].from # f
  BY <1>2 DEF AdoptInv, CallInv, Fences
<1>11. /\ \A s, k \in Sessions, w \in Works : Holds(s, k, w)' <=> Holds(s, k, w)
       /\ \A s \in Sessions : runs'[s].works = runs[s].works /\ runs'[s].inputs = runs[s].inputs
  BY <1>3, <1>6 DEF Holds
<1>12. Claiming'
  BY <1>4, <1>5, <1>6, <1>7, <1>8, <1>9
     DEF Claiming, AdoptInv, CallInv, TypeInv, Targets
<1>13. Fences'
  <2> SUFFICES ASSUME NEW q \in Processes, calls'[q].at \in {"merge", "retire"}
               PROVE  /\ runs'[calls'[q].from].status = "superseded"
                      /\ runs'[calls'[q].from].by = calls'[q].into
    BY DEF Fences, Gone
  <2>1. CASE q = p
    BY <1>1, <1>3, <1>4, <1>6, <1>7, <2>1
  <2>2. CASE q # p
    <3>1. calls'[q] = calls[q] /\ calls[q].from \in Sessions \ {f}
      BY <1>8, <1>10, <2>2 DEF AdoptInv, TypeInv, Targets
    <3> QED
      BY <1>6, <3>1 DEF AdoptInv, CallInv, Fences, Gone
  <2> QED
    BY <2>1, <2>2
<1>14. Reading'
  <2> SUFFICES ASSUME NEW q \in Processes, calls'[q].at = "merge", NEW w \in Works
               PROVE  /\ calls'[q].read.works[w].at \notin alive
                      /\ runs'[calls'[q].from].works[w].child
                            \in {NoOne, calls'[q].read.works[w].child}
    BY <1>5 DEF Reading
  <2>1. CASE q = p
    BY <1>1, <1>2, <1>3, <1>4, <1>6, <1>7, <2>1
  <2>2. CASE q # p
    <3>1. calls'[q] = calls[q] /\ calls[q].from \in Sessions
      BY <1>8, <2>2 DEF AdoptInv, TypeInv, Targets
    <3>2. /\ calls[q].read.works[w].at \notin alive
          /\ runs[calls[q].from].works[w].child \in {NoOne, calls[q].read.works[w].child}
      BY <3>1 DEF AdoptInv, CallInv, Reading
    <3> QED
      BY <1>11, <3>1, <3>2
  <2> QED
    BY <2>1, <2>2
<1>15. Heirs'
  BY <1>1, <1>2, <1>3, <1>5, <1>6, <1>9 DEF Heirs, AdoptInv, PlaceInv
<1>16. Vacant'
  BY <1>5, <1>11 DEF Vacant, Holds, AdoptInv, PlaceInv
<1>17. \A s, k \in Sessions, w \in Works, v \in Nat : Left(s, k, w, v)' =>
          \/ s # f /\ Left(s, k, w, v)
          \/ s = f /\ Holds(f, k, w) /\ runs[f].works[w].version = v
  <2> SUFFICES ASSUME NEW s \in Sessions, NEW k \in Sessions, NEW w \in Works, NEW v \in Nat,
                      Left(s, k, w, v)'
               PROVE  \/ s # f /\ Left(s, k, w, v)
                      \/ s = f /\ Holds(f, k, w) /\ runs[f].works[w].version = v
    OBVIOUS
  <2>1. CASE Holds(s, k, w)' /\ runs'[s].works[w].version = v
    BY <1>9, <1>11, <2>1 DEF Left
  <2>2. ASSUME NEW q \in Processes, calls'[q].at = "merge", calls'[q].from = s,
               calls'[q].read.works[w].child = k, calls'[q].read.works[w].version = v
        PROVE  \/ s # f /\ Left(s, k, w, v)
               \/ s = f /\ Holds(f, k, w) /\ runs[f].works[w].version = v
    <3>1. CASE q = p
      BY <1>3, <1>4, <1>7, <2>2, <3>1 DEF Holds
    <3>2. CASE q # p
      <4>1. calls'[q] = calls[q] /\ s # f
        BY <1>8, <1>10, <2>2, <3>2
      <4> QED
        BY <1>9, <2>2, <4>1 DEF Left, Reads
    <3> QED
      BY <3>1, <3>2
  <2> QED
    BY <2>1, <2>2 DEF Left, Reads
<1>18. \A t, k \in Sessions, w \in Works, v \in Nat : Inherits(t, k, w, v)' =>
          \/ Inherits(t, k, w, v)
          \/ t = h /\ Holds(f, k, w) /\ runs[f].works[w].version = v
  BY <1>3, <1>6, <1>17 DEF Inherits
<1>19. \A t, k \in Sessions, w \in Works : Coordinates(t, k, w)' =>
          /\ t # f /\ ~Gone(t)
          /\ Coordinates(t, k, w) \/ (t = h /\ Coordinates(f, k, w))
  BY <1>2, <1>9, <1>11, <1>18 DEF Coordinates
<1>20. Unique'
  <2> SUFFICES ASSUME NEW k \in Sessions, NEW w \in Works, NEW t \in Sessions, NEW u \in Sessions,
                      Coordinates(t, k, w)', Coordinates(u, k, w)'
               PROVE  t = u
    BY DEF Unique
  <2>1. \A a, b \in Sessions : Coordinates(a, k, w) /\ Coordinates(b, k, w) => a = b
    BY DEF AdoptInv, WorkInv, Unique
  <2> QED
    BY <1>1, <1>19, <2>1
<1>21. Current'
  <2> SUFFICES ASSUME NEW t \in Sessions, NEW k \in Sessions, NEW w \in Works, ~Gone(t)'
               PROVE  IF Holds(t, k, w)' THEN runs'[t].works[w].version = latest'[k][w]
                      ELSE \A v \in Nat : Inherits(t, k, w, v)' => v = latest'[k][w]
    BY DEF Current
  <2>1. IF Holds(t, k, w) THEN runs[t].works[w].version = latest[k][w]
        ELSE \A v \in Nat : Inherits(t, k, w, v) => v = latest[k][w]
    BY <1>9 DEF AdoptInv, WorkInv, Current
  <2>2. Holds(f, k, w) => runs[f].works[w].version = latest[k][w]
    BY <1>1, <1>2 DEF AdoptInv, WorkInv, Current
  <2> QED
    BY <1>5, <1>11, <1>18, <2>1, <2>2
<1>22. Admitted'
  BY <1>1, <1>5, <1>11, <1>17 DEF Admitted, AdoptInv, WorkInv
<1>23. \A s \in Sessions, w \in Works : Leaves(s, w)' => Leaves(s, w)
  BY <1>4, <1>7, <1>8 DEF Leaves
<1>24. Held'
  BY <1>5, <1>11, <1>23 DEF Held, AdoptInv, WorkInv
<1>25. ReadingInputs'
  <2> SUFFICES ASSUME NEW q \in Processes, NEW i \in Inputs
               PROVE  /\ calls'[q].at = "merge" /\ calls'[q].read.inputs[i] # "none" =>
                            runs'[calls'[q].from].inputs[i] # "none"
                      /\ calls'[q].at = "retire" /\ i \in calls'[q].inputs =>
                            runs'[calls'[q].into].inputs[i] # "none"
    BY DEF ReadingInputs
  <2>1. CASE q = p
    BY <1>1, <1>3, <1>4, <1>6, <1>7, <2>1
  <2>2. CASE q # p
    BY <1>8, <1>11, <2>2 DEF AdoptInv, InputInv, ReadingInputs, TypeInv, Targets
  <2> QED
    BY <2>1, <2>2
<1>26. \A s \in Sessions, i \in Inputs : LeavesInput(s, i)' => LeavesInput(s, i)
  BY <1>4, <1>7, <1>8 DEF LeavesInput
<1>27. HeldInput'
  BY <1>11, <1>26 DEF HeldInput, AdoptInv, InputInv
<1> QED
  BY <1>12, <1>13, <1>14, <1>15, <1>16, <1>20, <1>21, <1>22, <1>24, <1>25, <1>27
     DEF AdoptInv, CallInv, PlaceInv, WorkInv, InputInv

\* What a merge does to one input.
LEMMA MergedInputFacts ==
    ASSUME NEW mine \in InputState, NEW theirs \in InputState
    PROVE  /\ mine # "none" => MergedInput(mine, theirs) # "none"
           /\ mine \notin {"none", "moved"} => MergedInput(mine, theirs) \notin {"none", "moved"}
           /\ MergedInput(mine, theirs) # "none" => mine # "none" \/ theirs # "none"
           /\ (theirs \in Delivered /\ mine \in {"none", "resolved"}) \/ Requeued(mine, theirs)
                 => MergedInput(mine, theirs) \notin {"none", "moved"}
  BY DEF MergedInput, Requeued, Adopted, Queued, Delivered, InputState

\* The merge turns what the heir expected into what it has.
LEMMA MergeInv ==
    ASSUME AdoptInv, TypeInv', NEW p \in Processes, Merge(p)
    PROVE  AdoptInv'
<1> PICK f \in Sessions, h \in Sessions : calls[p].from = f /\ calls[p].into = h
  BY DEF Merge, AdoptInv, TypeInv, Targets
<1> DEFINE c == calls[p]
           mine == runs[h]
           x == Merged(mine, c.read)
           ws == MovedWorks(mine, c.read)
           is == MovedInputs(mine, c.read)
           d == [c EXCEPT !.at = "retire", !.read = NoRun, !.works = ws, !.inputs = is]
<1>1. /\ f \in Sessions /\ h \in Sessions /\ c \in Call /\ c.at = "merge" /\ c.read \in Run
      /\ c.from = f /\ c.into = h
      /\ mine \in Run /\ mine.status # "superseded"
      /\ c.read.works \in [Works -> Work] /\ c.read.inputs \in [Inputs -> InputState]
      /\ mine.works \in [Works -> Work] /\ mine.inputs \in [Inputs -> InputState]
  <2>1. c.at = "merge" /\ mine.status # "superseded"
    BY DEF Merge
  <2>2. TypeOK
    BY DEF AdoptInv, TypeInv
  <2> QED
    BY <2>1, <2>2, Fields
<1>2. ~Gone(h) /\ Gone(f) /\ runs[f].by = h /\ f # h
  BY <1>1 DEF Gone, AdoptInv, CallInv, Fences
<1>3. /\ x.status = mine.status /\ x.by = mine.by
      /\ \A w \in Works : x.works[w] = MergedWork(mine.works[w], c.read.works[w])
      /\ \A i \in Inputs : x.inputs[i] = MergedInput(mine.inputs[i], c.read.inputs[i])
  BY <1>1, MergedType
<1>4. d.at = "retire" /\ d.from = f /\ d.into = h /\ d.works = ws /\ d.inputs = is
  BY <1>1 DEF Call
<1>5. /\ runs' = [runs EXCEPT ![h] = x]
      /\ calls' = [Saved(h) EXCEPT ![p] = d]
      /\ alive' = alive /\ latest' = latest
  BY DEF Merge
<1>6. \A s \in Sessions : runs'[s] = IF s = h THEN x ELSE runs[s]
  BY <1>5 DEF AdoptInv, TypeInv, TypeOK
<1>7. \A q \in Processes : calls'[q] = IF q = p THEN d ELSE Saved(h)[q]
  <2>1. Saved(h) \in [Processes -> Call]
    BY <1>1, SavedCalls DEF AdoptInv, TypeInv
  <2> QED
    BY <1>5, <2>1
<1>8. \A w \in ws : c.read.works[w].child # NoOne
                    /\ mine.works[w].child \in {NoOne, c.read.works[w].child}
  BY DEF MovedWorks, Has
<1>9. \A i \in is : /\ i \in Inputs
                    /\ \/ c.read.inputs[i] \in Delivered /\ mine.inputs[i] \in {"none", "resolved"}
                       \/ Requeued(mine.inputs[i], c.read.inputs[i])
  BY DEF MovedInputs
<1>10. /\ \A w \in Works : /\ c.read.works[w].at \notin alive
                           /\ runs[f].works[w].child \in {NoOne, c.read.works[w].child}
       /\ \A i \in Inputs : c.read.inputs[i] # "none" => runs[f].inputs[i] # "none"
  BY <1>1 DEF AdoptInv, CallInv, Reading, InputInv, ReadingInputs
<1>11. Reads(p, f) /\ calls[p].read = c.read
  BY <1>1 DEF Reads
<1> HIDE DEF c, mine, x, ws, is, d
<1>12. \A q \in Processes \ {p} :
          \/ calls'[q] = calls[q] /\ ~(calls[q].at = "claim" /\ calls[q].from = h)
          \/ calls[q].at = "claim" /\ calls'[q].at = "check"
  BY <1>1, <1>7, SavedCalls DEF AdoptInv, TypeInv
<1>13. \A s \in Sessions : Gone(s)' <=> Gone(s)
  BY <1>1, <1>2, <1>3, <1>6 DEF Gone
<1>14. \A s \in Sessions : Gone(s) => runs'[s] = runs[s]
  BY <1>2, <1>6
<1>15. \A q \in Processes \ {p} : calls[q].at \in {"merge", "retire"} =>
          /\ calls[q].from \in Sessions /\ calls[q].into \in Sessions
          /\ Gone(calls[q].from) /\ runs[calls[q].from].by = calls[q].into
          /\ runs'[calls[q].from] = runs[calls[q].from]
  BY <1>14 DEF AdoptInv, CallInv, Fences, TypeInv, Targets
<1>16. Claiming'
  <2> SUFFICES ASSUME NEW q \in Processes, calls'[q].at = "claim"
               PROVE  /\ calls'[q].read = runs'[calls'[q].from]
                      /\ runs'[calls'[q].from].status # "superseded"
                      /\ \A w \in Works : calls'[q].read.works[w].at \notin alive'
    BY DEF Claiming, Gone
  <2>1. q # p
    BY <1>4, <1>7
  <2>2. calls'[q] = calls[q] /\ calls[q].from # h /\ calls[q].from \in Sessions
    BY <1>12, <2>1 DEF AdoptInv, TypeInv, Targets
  <2> QED
    BY <1>5, <1>6, <2>2 DEF AdoptInv, CallInv, Claiming, Gone
<1>17. Fences'
  <2> SUFFICES ASSUME NEW q \in Processes, calls'[q].at \in {"merge", "retire"}
               PROVE  /\ runs'[calls'[q].from].status = "superseded"
                      /\ runs'[calls'[q].from].by = calls'[q].into
    BY DEF Fences, Gone
  <2>1. CASE q = p
    BY <1>1, <1>2, <1>4, <1>6, <1>7, <2>1 DEF Gone
  <2>2. CASE q # p
    BY <1>12, <1>15, <2>2 DEF Gone
  <2> QED
    BY <2>1, <2>2
<1>18. Reading'
  <2> SUFFICES ASSUME NEW q \in Processes, calls'[q].at = "merge", NEW w \in Works
               PROVE  /\ calls'[q].read.works[w].at \notin alive'
                      /\ runs'[calls'[q].from].works[w].child
                            \in {NoOne, calls'[q].read.works[w].child}
    BY DEF Reading
  <2>1. q # p /\ calls'[q] = calls[q]
    BY <1>4, <1>7, <1>12
  <2>2. runs'[calls[q].from] = runs[calls[q].from]
    BY <1>15, <2>1
  <2>3. /\ calls[q].read.works[w].at \notin alive
        /\ runs[calls[q].from].works[w].child \in {NoOne, calls[q].read.works[w].child}
    BY <2>1 DEF AdoptInv, CallInv, Reading
  <2> QED
    BY <1>5, <2>1, <2>2, <2>3
<1>19. Heirs'
  BY <1>5, <1>13, <1>14 DEF Heirs, AdoptInv, PlaceInv
<1>20. \A w \in Works :
          /\ mine.works[w].child # NoOne => x.works[w] = mine.works[w]
          /\ mine.works[w].child = NoOne => x.works[w] = c.read.works[w]
  BY <1>3 DEF MergedWork
<1>21. Vacant'
  <2> SUFFICES ASSUME NEW s \in Sessions, NEW w \in Works, runs'[s].works[w].child = NoOne
               PROVE  runs'[s].works[w].at \notin alive
    BY <1>5 DEF Vacant, Holds
  <2>1. CASE s = h
    BY <1>1, <1>6, <1>10, <1>20, <2>1
  <2>2. CASE s # h
    BY <1>6, <2>2 DEF AdoptInv, PlaceInv, Vacant, Holds
  <2> QED
    BY <2>1, <2>2
<1>22. \A s, k \in Sessions, w \in Works, v \in Nat : Left(s, k, w, v)' => Left(s, k, w, v)
  <2> SUFFICES ASSUME NEW s \in Sessions, NEW k \in Sessions, NEW w \in Works, NEW v \in Nat,
                      Left(s, k, w, v)'
               PROVE  Left(s, k, w, v)
    OBVIOUS
  <2>1. Gone(s) /\ runs'[s] = runs[s]
    BY <1>13, <1>14 DEF Left
  <2>2. ASSUME NEW q \in Processes, calls'[q].at = "merge" PROVE calls'[q] = calls[q]
    BY <1>4, <1>7, <1>12, <2>2
  <2> QED
    BY <2>1, <2>2 DEF Left, Holds, Reads
<1>23. \A t, k \in Sessions, w \in Works, v \in Nat : Inherits(t, k, w, v)' => Inherits(t, k, w, v)
  <2>1. \A s, k \in Sessions, w \in Works, v \in Nat : Left(s, k, w, v) => runs'[s].by = runs[s].by
    BY <1>14 DEF Left
  <2> QED
    BY <1>22, <2>1 DEF Inherits
<1>24. \A k \in Sessions, w \in Works :
          /\ Holds(h, k, w) => runs'[h].works[w] = runs[h].works[w]
          /\ Holds(h, k, w)' => \/ Holds(h, k, w)
                                \/ /\ ~Holds(h, k, w)
                                   /\ runs'[h].works[w].version \in Nat
                                   /\ Left(f, k, w, runs'[h].works[w].version)
                                   /\ Inherits(h, k, w, runs'[h].works[w].version)
  <2> SUFFICES ASSUME NEW k \in Sessions, NEW w \in Works
               PROVE  /\ Holds(h, k, w) => runs'[h].works[w] = runs[h].works[w]
                      /\ Holds(h, k, w)' => \/ Holds(h, k, w)
                                \/ /\ ~Holds(h, k, w)
                                   /\ runs'[h].works[w].version \in Nat
                                   /\ Left(f, k, w, runs'[h].works[w].version)
                                   /\ Inherits(h, k, w, runs'[h].works[w].version)
    OBVIOUS
  <2>1. k # NoOne /\ mine = runs[h] /\ runs'[h] = x
    BY <1>1, <1>6, Child DEF mine
  <2>2. CASE mine.works[w].child # NoOne
    BY <1>20, <2>1, <2>2 DEF Holds
  <2>3. CASE mine.works[w].child = NoOne
    <3>1. runs'[h].works[w] = c.read.works[w] /\ ~Holds(h, k, w)
      BY <1>20, <2>1, <2>3 DEF Holds
    <3>2. runs'[h].works[w].version \in Nat
      BY <1>1, <3>1, WorkFields
    <3>3. Holds(h, k, w)' => Left(f, k, w, runs'[h].works[w].version)
      BY <1>2, <1>11, <3>1 DEF Left, Holds
    <3>4. Left(f, k, w, runs'[h].works[w].version) =>
             Inherits(h, k, w, runs'[h].works[w].version)
      BY <1>1, <1>2 DEF Inherits
    <3> QED
      BY <3>1, <3>2, <3>3, <3>4
  <2> QED
    BY <2>2, <2>3
<1>25. \A t, k \in Sessions, w \in Works : t # h => (Holds(t, k, w)' <=> Holds(t, k, w))
  BY <1>6 DEF Holds
<1>26. \A t, k \in Sessions, w \in Works : Coordinates(t, k, w)' => Coordinates(t, k, w)
  BY <1>13, <1>23, <1>24, <1>25 DEF Coordinates
<1>27. Unique'
  BY <1>26 DEF Unique, AdoptInv, WorkInv
<1>28. Current'
  <2> SUFFICES ASSUME NEW t \in Sessions, NEW k \in Sessions, NEW w \in Works, ~Gone(t)'
               PROVE  IF Holds(t, k, w)' THEN runs'[t].works[w].version = latest'[k][w]
                      ELSE \A v \in Nat : Inherits(t, k, w, v)' => v = latest'[k][w]
    BY DEF Current
  <2>1. IF Holds(t, k, w) THEN runs[t].works[w].version = latest[k][w]
        ELSE \A v \in Nat : Inherits(t, k, w, v) => v = latest[k][w]
    BY <1>13 DEF AdoptInv, WorkInv, Current
  <2>2. CASE t = h
    <3>1. Holds(h, k, w) => Holds(h, k, w)'
      BY <1>24 DEF Holds
    <3> QED
      BY <1>5, <1>23, <1>24, <2>1, <2>2, <3>1
  <2>3. CASE t # h
    BY <1>5, <1>6, <1>23, <1>25, <2>1, <2>3
  <2> QED
    BY <2>2, <2>3
<1>29. Admitted'
  <2>1. \A t, k \in Sessions, w \in Works : Holds(t, k, w)' =>
           Holds(t, k, w) \/ \E v \in Nat : Left(f, k, w, v)
    BY <1>24, <1>25
  <2> QED
    BY <1>1, <1>5, <1>22, <2>1 DEF Admitted, AdoptInv, WorkInv
<1>30. \A s \in Sessions, w \in Works : Leaves(s, w)' => Leaves(s, w) \/ (s = f /\ w \in ws)
  <2> SUFFICES ASSUME NEW s \in Sessions, NEW w \in Works, NEW q \in Processes,
                      calls'[q].at = "retire", calls'[q].from = s, w \in calls'[q].works
               PROVE  Leaves(s, w) \/ (s = f /\ w \in ws)
    BY DEF Leaves
  <2> QED
    BY <1>4, <1>7, <1>12 DEF Leaves
<1>31. \A w \in Works : ~Leaves(h, w) /\ ~Leaves(h, w)'
  <2>1. \A w \in Works : ~Leaves(h, w)
    BY <1>2 DEF Leaves, AdoptInv, CallInv, Fences
  <2> QED
    BY <1>1, <1>2, <1>30, <2>1
<1>32. Held'
  <2> SUFFICES ASSUME NEW k \in Sessions, NEW w \in Works, latest'[k][w] # 0
               PROVE  \E t \in Sessions : /\ Holds(t, k, w)'
                                          /\ runs'[t].works[w].version = latest'[k][w]
                                          /\ ~Leaves(t, w)'
    BY DEF Held
  <2>1. PICK s \in Sessions : /\ Holds(s, k, w)
                              /\ runs[s].works[w].version = latest[k][w]
                              /\ ~Leaves(s, w)
    BY <1>5 DEF AdoptInv, WorkInv, Held
  <2>2. CASE s = h \/ ~(s = f /\ w \in ws)
    <3>1. runs'[s].works[w] = runs[s].works[w] /\ Holds(s, k, w)'
      BY <1>6, <1>24, <2>1 DEF Holds
    <3>2. ~Leaves(s, w)'
      BY <1>2, <1>30, <2>1, <2>2
    <3> QED
      BY <1>5, <2>1, <3>1, <3>2
  <2>3. CASE s = f /\ w \in ws
    <3>1. c.read.works[w].child = k
      BY <1>10, <2>1, <2>3, Child DEF Holds
    <3>2. x.works[w].child = k
      BY <1>8, <1>20, <2>3, <3>1
    <3>3. Holds(h, k, w)'
      BY <1>1, <1>6, <3>2 DEF Holds
    <3>4. runs'[h].works[w].version = latest'[k][w]
      BY <1>1, <1>2, <1>13, <1>28, <3>3 DEF Current
    <3> QED
      BY <1>1, <1>31, <3>3, <3>4
  <2> QED
    BY <2>2, <2>3
<1>33. \A s \in Sessions, i \in Inputs :
          /\ runs[s].inputs[i] # "none" => runs'[s].inputs[i] # "none"
          /\ runs[s].inputs[i] \notin {"none", "moved"} => runs'[s].inputs[i] \notin {"none", "moved"}
          /\ runs'[s].inputs[i] # "none" => runs[s].inputs[i] # "none" \/ runs[f].inputs[i] # "none"
          /\ i \in is => runs'[h].inputs[i] \notin {"none", "moved"}
  <2> SUFFICES ASSUME NEW s \in Sessions, NEW i \in Inputs
               PROVE  /\ runs[s].inputs[i] # "none" => runs'[s].inputs[i] # "none"
                      /\ runs[s].inputs[i] \notin {"none", "moved"} =>
                            runs'[s].inputs[i] \notin {"none", "moved"}
                      /\ runs'[s].inputs[i] # "none" =>
                            runs[s].inputs[i] # "none" \/ runs[f].inputs[i] # "none"
                      /\ i \in is => runs'[h].inputs[i] \notin {"none", "moved"}
    OBVIOUS
  <2>1. mine.inputs[i] \in InputState /\ c.read.inputs[i] \in InputState
    BY <1>1
  <2>2. mine = runs[h] /\ runs'[h] = x /\ (s # h => runs'[s] = runs[s])
    BY <1>1, <1>6 DEF mine
  <2>3. /\ mine.inputs[i] # "none" => x.inputs[i] # "none"
        /\ mine.inputs[i] \notin {"none", "moved"} => x.inputs[i] \notin {"none", "moved"}
        /\ x.inputs[i] # "none" => mine.inputs[i] # "none" \/ c.read.inputs[i] # "none"
        /\ i \in is => x.inputs[i] \notin {"none", "moved"}
    BY <1>3, <1>9, <2>1, MergedInputFacts
  <2> QED
    BY <1>10, <2>2, <2>3
<1>34. ReadingInputs'
  <2> SUFFICES ASSUME NEW q \in Processes, NEW i \in Inputs
               PROVE  /\ calls'[q].at = "merge" /\ calls'[q].read.inputs[i] # "none" =>
                            runs'[calls'[q].from].inputs[i] # "none"
                      /\ calls'[q].at = "retire" /\ i \in calls'[q].inputs =>
                            runs'[calls'[q].into].inputs[i] # "none"
    BY DEF ReadingInputs
  <2>1. CASE q = p
    BY <1>1, <1>4, <1>7, <1>33, <2>1
  <2>2. CASE q # p
    BY <1>12, <1>15, <1>33, <2>2 DEF AdoptInv, InputInv, ReadingInputs
  <2> QED
    BY <2>1, <2>2
<1>35. \A s \in Sessions, i \in Inputs :
          LeavesInput(s, i)' => LeavesInput(s, i) \/ (s = f /\ i \in is)
  <2> SUFFICES ASSUME NEW s \in Sessions, NEW i \in Inputs, NEW q \in Processes,
                      calls'[q].at = "retire", calls'[q].from = s, i \in calls'[q].inputs
               PROVE  LeavesInput(s, i) \/ (s = f /\ i \in is)
    BY DEF LeavesInput
  <2> QED
    BY <1>4, <1>7, <1>12 DEF LeavesInput
<1>36. \A i \in Inputs : ~LeavesInput(h, i)'
  <2>1. \A i \in Inputs : ~LeavesInput(h, i)
    BY <1>2 DEF LeavesInput, AdoptInv, CallInv, Fences
  <2> QED
    BY <1>1, <1>2, <1>35, <2>1
<1>37. HeldInput'
  <2> SUFFICES ASSUME NEW i \in Inputs, NEW s \in Sessions, runs'[s].inputs[i] # "none"
               PROVE  \E t \in Sessions : /\ runs'[t].inputs[i] \notin {"none", "moved"}
                                          /\ ~LeavesInput(t, i)'
    BY DEF HeldInput
  <2>1. \E t \in Sessions : runs[t].inputs[i] # "none"
    BY <1>1, <1>33
  <2>2. PICK t \in Sessions : runs[t].inputs[i] \notin {"none", "moved"} /\ ~LeavesInput(t, i)
    BY <2>1 DEF AdoptInv, InputInv, HeldInput
  <2>3. CASE t = f /\ i \in is
    BY <1>1, <1>33, <1>36, <2>3
  <2>4. CASE ~(t = f /\ i \in is)
    BY <1>33, <1>35, <2>2, <2>4
  <2> QED
    BY <2>3, <2>4
<1> QED
  BY <1>16, <1>17, <1>18, <1>19, <1>21, <1>27, <1>28, <1>29, <1>32, <1>34, <1>37
     DEF AdoptInv, CallInv, PlaceInv, WorkInv, InputInv

\* The retirement removes from the source only what the destination has.
LEMMA RetireInv ==
    ASSUME AdoptInv, TypeInv', NEW p \in Processes, Retire(p)
    PROVE  AdoptInv'
<1> PICK f \in Sessions, h \in Sessions : calls[p].from = f /\ calls[p].into = h
  BY DEF Retire, AdoptInv, TypeInv, Targets
<1> DEFINE c == calls[p]
           x == Retired(runs[f], c.works, c.inputs, h)
<1>1. /\ f \in Sessions /\ h \in Sessions /\ c.at = "retire" /\ c.from = f /\ c.into = h
      /\ c.works \in SUBSET Works /\ c.inputs \in SUBSET Inputs
      /\ runs[f] \in Run /\ runs[f].inputs \in [Inputs -> InputState]
  BY Fields DEF Retire, AdoptInv, TypeInv
<1>2. Gone(f) /\ runs[f].by = h
  BY <1>1 DEF AdoptInv, CallInv, Fences
<1>3. /\ x.status = "superseded" /\ x.by = h
      /\ \A w \in Works : x.works[w] = IF w \in c.works THEN NoWork ELSE runs[f].works[w]
      /\ \A i \in Inputs : x.inputs[i] = (IF i \in c.inputs THEN RetiredInput(runs[f].inputs[i]) ELSE runs[f].inputs[i])
  <2>1. /\ x.status = "superseded" /\ x.by = h
        /\ x.works = RetiredWorks(runs[f], c.works)
        /\ x.inputs = RetiredInputs(runs[f], c.inputs)
    BY <1>1, RetiredType DEF Session
  <2> HIDE DEF x, c
  <2> QED
    BY <2>1 DEF RetiredWorks, RetiredInputs
<1>4. /\ runs' = [runs EXCEPT ![f] = x]
      /\ calls' = [Saved(f) EXCEPT ![p] = Clear(h)]
      /\ alive' = alive /\ latest' = latest
  BY <1>1 DEF Retire
<1>5. \A s \in Sessions : runs'[s] = IF s = f THEN x ELSE runs[s]
  BY <1>4 DEF AdoptInv, TypeInv, TypeOK
<1>6. Clear(h).at = "clear"
  BY Idles DEF Session
<1>7. \A q \in Processes : calls'[q] = IF q = p THEN Clear(h) ELSE Saved(f)[q]
  <2>1. Saved(f) \in [Processes -> Call]
    BY <1>1, SavedCalls DEF AdoptInv, TypeInv
  <2> QED
    BY <1>4, <2>1
<1>8. NoWork.child = NoOne /\ NoWork.at = NoOne /\ NoOne \notin alive
  BY AdoptAssumption DEF NoWork, AdoptInv, TypeInv, TypeOK
<1>9. \A i \in c.inputs : runs[h].inputs[i] # "none"
  BY <1>1 DEF AdoptInv, InputInv, ReadingInputs
<1> HIDE DEF c, x
<1>10. \A q \in Processes :
          \/ calls'[q] = calls[q] /\ ~(calls[q].at = "claim" /\ calls[q].from = f) /\ q # p
          \/ calls'[q].at \in {"check", "clear"}
  BY <1>6, <1>7, SavedCalls DEF AdoptInv, TypeInv
<1>11. \A s \in Sessions : (Gone(s)' <=> Gone(s)) /\ runs'[s].by = runs[s].by
  BY <1>2, <1>3, <1>5 DEF Gone
<1>12. \A s \in Sessions, w \in Works :
          \/ runs'[s].works[w] = runs[s].works[w]
          \/ s = f /\ w \in c.works /\ runs'[s].works[w] = NoWork
  BY <1>3, <1>5
<1>13. Claiming'
  <2> SUFFICES ASSUME NEW q \in Processes, calls'[q].at = "claim"
               PROVE  /\ calls'[q].read = runs'[calls'[q].from]
                      /\ runs'[calls'[q].from].status # "superseded"
                      /\ \A w \in Works : calls'[q].read.works[w].at \notin alive'
    BY DEF Claiming, Gone
  <2>1. calls'[q] = calls[q] /\ calls[q].from # f /\ calls[q].from \in Sessions
    BY <1>10 DEF AdoptInv, TypeInv, Targets
  <2> QED
    BY <1>4, <1>5, <2>1 DEF AdoptInv, CallInv, Claiming, Gone
<1>14. Fences'
  <2> SUFFICES ASSUME NEW q \in Processes, calls'[q].at \in {"merge", "retire"}
               PROVE  /\ runs'[calls'[q].from].status = "superseded"
                      /\ runs'[calls'[q].from].by = calls'[q].into
    BY DEF Fences, Gone
  <2>1. calls'[q] = calls[q] /\ calls[q].from \in Sessions
    BY <1>10 DEF AdoptInv, TypeInv, Targets
  <2> QED
    BY <1>11, <2>1 DEF AdoptInv, CallInv, Fences, Gone
<1>15. Reading'
  <2> SUFFICES ASSUME NEW q \in Processes, calls'[q].at = "merge", NEW w \in Works
               PROVE  /\ calls'[q].read.works[w].at \notin alive'
                      /\ runs'[calls'[q].from].works[w].child
                            \in {NoOne, calls'[q].read.works[w].child}
    BY DEF Reading
  <2>1. calls'[q] = calls[q] /\ calls[q].from \in Sessions
    BY <1>10 DEF AdoptInv, TypeInv, Targets
  <2>2. /\ calls[q].read.works[w].at \notin alive
        /\ runs[calls[q].from].works[w].child \in {NoOne, calls[q].read.works[w].child}
    BY <2>1 DEF AdoptInv, CallInv, Reading
  <2>3. runs'[calls[q].from].works[w].child \in {NoOne, runs[calls[q].from].works[w].child}
    BY <1>8, <1>12, <2>1
  <2>4. calls'[q].read = calls[q].read /\ calls'[q].from = calls[q].from /\ alive' = alive
    BY <1>4, <2>1
  <2> QED
    BY <2>2, <2>3, <2>4
<1>16. Heirs'
  BY <1>4, <1>8, <1>11, <1>12 DEF Heirs, AdoptInv, PlaceInv
<1>17. Vacant'
  BY <1>4, <1>8, <1>12 DEF Vacant, Holds, AdoptInv, PlaceInv
<1>18. \A s, k \in Sessions, w \in Works : Holds(s, k, w)' =>
          Holds(s, k, w) /\ runs'[s].works[w] = runs[s].works[w]
  BY <1>8, <1>12, Child DEF Holds
<1>19. \A s, k \in Sessions, w \in Works : Holds(s, k, w) /\ ~(s = f /\ w \in c.works) =>
          Holds(s, k, w)' /\ runs'[s].works[w] = runs[s].works[w]
  BY <1>12 DEF Holds
<1>20. \A s, k \in Sessions, w \in Works, v \in Nat : Left(s, k, w, v)' => Left(s, k, w, v)
  BY <1>10, <1>11, <1>18 DEF Left, Reads
<1>21. \A t, k \in Sessions, w \in Works, v \in Nat : Inherits(t, k, w, v)' => Inherits(t, k, w, v)
  BY <1>11, <1>20 DEF Inherits
<1>22. Unique'
  <2>1. \A t, k \in Sessions, w \in Works : Coordinates(t, k, w)' => Coordinates(t, k, w)
    BY <1>11, <1>18, <1>21 DEF Coordinates
  <2> QED
    BY <2>1 DEF Unique, AdoptInv, WorkInv
<1>23. Current'
  <2> SUFFICES ASSUME NEW t \in Sessions, NEW k \in Sessions, NEW w \in Works, ~Gone(t)'
               PROVE  IF Holds(t, k, w)' THEN runs'[t].works[w].version = latest'[k][w]
                      ELSE \A v \in Nat : Inherits(t, k, w, v)' => v = latest'[k][w]
    BY DEF Current
  <2>1. ~Gone(t) /\ t # f
    BY <1>2, <1>11
  <2>2. IF Holds(t, k, w) THEN runs[t].works[w].version = latest[k][w]
        ELSE \A v \in Nat : Inherits(t, k, w, v) => v = latest[k][w]
    BY <2>1 DEF AdoptInv, WorkInv, Current
  <2> QED
    BY <1>4, <1>18, <1>19, <1>21, <2>1, <2>2
<1>24. Admitted'
  BY <1>4, <1>18, <1>20 DEF Admitted, AdoptInv, WorkInv
<1>25. /\ \A s \in Sessions, w \in Works : Leaves(s, w)' => Leaves(s, w)
       /\ \A s \in Sessions, i \in Inputs : LeavesInput(s, i)' => LeavesInput(s, i)
  BY <1>10 DEF Leaves, LeavesInput
<1>26. /\ \A w \in c.works : Leaves(f, w)
       /\ \A i \in c.inputs : LeavesInput(f, i)
  BY <1>1 DEF Leaves, LeavesInput, c
<1>27. Held'
  BY <1>4, <1>19, <1>25, <1>26 DEF Held, AdoptInv, WorkInv
<1>28. \A s \in Sessions, i \in Inputs :
          /\ runs'[s].inputs[i] = "none" <=> runs[s].inputs[i] = "none"
          /\ ~(s = f /\ i \in c.inputs) => runs'[s].inputs[i] = runs[s].inputs[i]
  <2> SUFFICES ASSUME NEW s \in Sessions, NEW i \in Inputs
               PROVE  /\ runs'[s].inputs[i] = "none" <=> runs[s].inputs[i] = "none"
                      /\ ~(s = f /\ i \in c.inputs) => runs'[s].inputs[i] = runs[s].inputs[i]
    OBVIOUS
  <2>1. s # f => runs'[s] = runs[s]
    BY <1>5
  <2>2. x.inputs[i] = (IF i \in c.inputs THEN RetiredInput(runs[f].inputs[i]) ELSE runs[f].inputs[i])
    BY <1>3
  <2>3. i \notin c.inputs => x.inputs[i] = runs[f].inputs[i]
    BY <2>2 DEF RetiredInput
  <2>4. x.inputs[i] = "none" <=> runs[f].inputs[i] = "none"
    BY <2>2 DEF RetiredInput
  <2> QED
    BY <1>5, <2>1, <2>3, <2>4
<1>29. ReadingInputs'
  <2>1. \A q \in Processes : calls'[q].at \in {"merge", "retire"} =>
           calls'[q] = calls[q] /\ calls[q].from \in Sessions /\ calls[q].into \in Sessions
    BY <1>10 DEF AdoptInv, TypeInv, Targets
  <2> QED
    BY <1>28, <2>1 DEF ReadingInputs, AdoptInv, InputInv
<1>30. HeldInput'
  BY <1>25, <1>26, <1>28 DEF HeldInput, AdoptInv, InputInv
<1> QED
  BY <1>13, <1>14, <1>15, <1>16, <1>17, <1>22, <1>23, <1>24, <1>27, <1>29, <1>30
     DEF AdoptInv, CallInv, PlaceInv, WorkInv, InputInv

------------------------------------------------------------------------------
(* The theorems *)

\* A step that brings no superseded run back.
Stays == \A s \in Sessions : Gone(s) => runs'[s].status = "superseded"

\* Every step keeps the invariant, unless it brings a superseded run back.
LEMMA AdoptNext ==
    ASSUME AdoptInv, Next, Stays
    PROVE  AdoptInv'
<1>0. TypeInv'
  BY TypeStep DEF AdoptInv
<1>1. ASSUME NEW s \in Sessions, SessionStep(s) PROVE AdoptInv'
  <2>0. runs[s].status = "superseded" => runs'[s].status = "superseded"
    BY DEF Stays, Gone
  <2>1. CASE \E w \in Works : Admit(s, w) \/ Begin_work(s, w)
    BY <1>0, <2>1, AdmitInv, BeginInv
  <2>2. CASE \E i \in Inputs : Enqueue_parent_input(s, i)
    BY <1>0, <2>0, <2>2, EnqueueInv
  <2>3. CASE Retry_pending(s)
    BY <1>0, <2>3, RetryInv
  <2> QED
    BY <1>0, <1>1, <2>0, <2>1, <2>2, <2>3, SessionQuiet DEF SessionStep
<1>2. ASSUME NEW p \in Commands, NEW from \in Sessions, NEW into \in Sessions,
             Adopt_run(p, from, into) PROVE AdoptInv'
  <2>1. Adopt_at(from, into).at = "check"
    BY Idles DEF Session
  <2>2. p \in Processes /\ alive' \subseteq alive
    BY <1>2 DEF Processes, Adopt_run
  <2> QED
    BY <1>0, <1>2, <2>1, <2>2, GotoQuiet DEF Adopt_run
<1>3. ASSUME NEW p \in Processes, Adoption(p) PROVE AdoptInv'
  <2>1. CASE Refused(p)
    <3>1. runs' = runs /\ latest' = latest /\ alive' \subseteq alive /\ Goto(p, Idle)
      BY <2>1 DEF Refused
    <3> QED
      BY <1>0, <3>1, GotoQuiet, Idles
  <2> QED
    BY <1>0, <1>3, <2>1, CheckInv, ClaimInv, MergeInv, RetireInv, PendingInv DEF Adoption
<1>4. ASSUME NEW p \in Failing, GivesUp(p) PROVE AdoptInv'
  <2>1. p \in Processes /\ alive' \subseteq alive
    BY <1>4, AdoptAssumption DEF Processes, GivesUp
  <2> QED
    BY <1>0, <1>4, <2>1, GotoQuiet, Idles DEF GivesUp
<1>5. ASSUME NEW p \in Mortal, Dies(p) PROVE AdoptInv'
  <2>1. p \in Processes /\ alive' \subseteq alive
    BY <1>5, AdoptAssumption DEF Processes, Dies
  <2> QED
    BY <1>0, <1>5, <2>1, GotoQuiet, Idles DEF Dies
<1> QED
  BY <1>1, <1>2, <1>3, <1>4, <1>5 DEF Next

LEMMA AdoptStutter ==
    ASSUME AdoptInv, UNCHANGED vars
    PROVE  AdoptInv'
<1>1. /\ runs' = runs /\ calls' = calls /\ alive' = alive /\ latest' = latest
      /\ fresh' = fresh /\ loaded' = loaded /\ drain' = drain
  BY DEF vars
<1>2. TypeInv'
  BY <1>1 DEF AdoptInv, TypeInv, TypeOK, Targets
<1> QED
  BY <1>1, <1>2, CallQuiet

\* Nothing has begun.
LEMMA AdoptInit == Init => AdoptInv
<1> SUFFICES ASSUME Init PROVE AdoptInv
  OBVIOUS
<1>0. /\ \A s \in Sessions : runs[s] = NoRun
      /\ \A p \in Processes : calls[p] = Idle /\ Idle.at = "idle"
      /\ \A s \in Sessions, w \in Works : latest[s][w] = 0
  BY Idles DEF Init
<1>1. /\ NoRun.status = "none"
      /\ \A w \in Works : NoRun.works[w].child = NoOne /\ NoRun.works[w].at = NoOne
      /\ \A i \in Inputs : NoRun.inputs[i] = "none"
  BY DEF NoRun, NoWork
<1>2. TypeOK
  <2>1. 0 \in 0 .. MaxVersion
    BY AdoptAssumption
  <2> QED
    BY <2>1, Blank DEF Init, TypeOK, Router
<1>3. Targets
  BY <1>0 DEF Targets
<1>4. CallInv
  BY <1>0 DEF CallInv, Claiming, Fences, Reading
<1>5. PlaceInv
  BY <1>0, <1>1, <1>2, AdoptAssumption DEF PlaceInv, Heirs, Vacant, Gone, TypeOK
<1>6. \A s, k \in Sessions, w \in Works : ~Holds(s, k, w) /\ ~Gone(s)
  BY <1>0, <1>1, Child DEF Holds, Gone
<1>7. \A s, k \in Sessions, w \in Works, v \in Nat : ~Left(s, k, w, v) /\ ~Inherits(s, k, w, v)
  BY <1>6 DEF Left, Inherits
<1>8. WorkInv
  BY <1>0, <1>6, <1>7 DEF WorkInv, Unique, Coordinates, Current, Admitted, Held
<1>9. InputInv
  BY <1>0, <1>1 DEF InputInv, ReadingInputs, HeldInput
<1> QED
  BY <1>2, <1>3, <1>4, <1>5, <1>8, <1>9 DEF AdoptInv, TypeInv

\* As long as a superseded run stays superseded, the claims, merges and
\* retirements in flight, and what waits in superseded runs, agree with the runs.
THEOREM AdoptInvariant == Spec /\ SupersededForGood => []AdoptInv
<1>1. AdoptInv /\ [Next]_vars /\
         [\A s \in Sessions :
            runs[s].status = "superseded" => runs'[s].status = "superseded"]_vars
      => AdoptInv'
  BY AdoptNext, AdoptStutter DEF Stays, Gone
<1> QED
  BY <1>1, AdoptInit, PTL DEF Spec, SupersededForGood

\* What the invariant says of a state.
LEMMA AdoptProperties ==
    ASSUME AdoptInv PROVE OneCoordinator /\ ProgressKept /\ InputKept
<1>1. \A s \in Sessions, w \in Works : Has(runs[s], w) => runs[s].works[w].child \in Sessions
  <2>1. \A s \in Sessions, w \in Works : runs[s].works[w].child \in Session
    BY Fields, WorkFields DEF AdoptInv, TypeInv
  <2> QED
    BY <2>1 DEF Has, Session
<1>2. OneCoordinator
  <2> SUFFICES ASSUME NEW s \in Sessions, NEW t \in Sessions, NEW w \in Works, s # t,
                      Has(runs[s], w), runs[s].works[w].child = runs[t].works[w].child,
                      ~Gone(s), ~Gone(t)
               PROVE  FALSE
    BY DEF OneCoordinator, Gone
  <2> DEFINE k == runs[s].works[w].child
  <2>1. Coordinates(s, k, w) /\ Coordinates(t, k, w)
    BY DEF Coordinates, Holds
  <2>2. k \in Sessions
    BY <1>1
  <2> HIDE DEF k
  <2> QED
    BY <2>1, <2>2 DEF AdoptInv, WorkInv, Unique
<1>3. ProgressKept
  <2>1. \A k \in Sessions, w \in Works : latest[k][w] > 0 => latest[k][w] # 0
    OBVIOUS
  <2>2. \A s \in Sessions, w \in Works : Has(runs[s], w) /\ ~Gone(s) =>
           runs[s].works[w].version = latest[runs[s].works[w].child][w]
    BY <1>1 DEF AdoptInv, WorkInv, Current, Holds
  <2> QED
    BY <2>1, <2>2 DEF ProgressKept, AdoptInv, WorkInv, Held, Holds, Gone
<1>4. InputKept
  BY DEF InputKept, AdoptInv, InputInv, HeldInput
<1> QED
  BY <1>2, <1>3, <1>4

\* A plan has one coordinator: no two runs that may act hold the same work
\* (adopt).
THEOREM Coordinator == Spec /\ SupersededForGood => []OneCoordinator
<1>1. AdoptInv => OneCoordinator
  BY AdoptProperties
<1> QED
  BY <1>1, AdoptInvariant, PTL

\* A work's latest progress is in some run, and no run that may act has less
\* (adopt_at, merge, retire).
THEOREM Progress == Spec /\ SupersededForGood => []ProgressKept
<1>1. AdoptInv => ProgressKept
  BY AdoptProperties
<1> QED
  BY <1>1, AdoptInvariant, PTL

\* An operator's input, once recorded, is in some run until it is acknowledged
\* (merge, retire).
THEOREM OperatorInput == Spec /\ SupersededForGood => []InputKept
<1>1. AdoptInv => InputKept
  BY AdoptProperties
<1> QED
  BY <1>1, AdoptInvariant, PTL

------------------------------------------------------------------------------
(* Attempts that live *)

LiveStays(s, w) ==
    runs[s].works[w].at \in alive =>
        \/ runs[s].works[w].at \notin alive'
        \/ /\ runs'[s].works[w].at \in {NoOne, runs[s].works[w].at}
           /\ runs'[s].works[w].child = runs[s].works[w].child
           /\ (runs'[s].status = "superseded" => runs[s].status = "superseded")

LEMMA KeptLive ==
    ASSUME NEW s \in Sessions, KeepsWorks(s) PROVE \A w \in Works : LiveStays(s, w)
  BY DEF KeepsWorks, LiveStays

LEMMA AdmitLive ==
    ASSUME AdoptInv, NEW s \in Sessions, NEW w \in Works, Admit(s, w),
           NEW t \in Sessions, NEW u \in Works
    PROVE  LiveStays(t, u)
<1> DEFINE y == [NoWork EXCEPT !.child = s, !.version = 1]
           x == [runs[s] EXCEPT !.works[w] = y]
<1>1. runs[s] \in Run /\ runs[s].works \in [Works -> Work]
  BY Fields DEF AdoptInv, TypeInv
<1>2. x.status = runs[s].status /\ \A v \in Works : v # w => x.works[v] = runs[s].works[v]
  BY <1>1 DEF Run
<1>3. runs' = [runs EXCEPT ![s] = x]
  BY DEF Admit, Save
<1>4. \A q \in Sessions : runs'[q] = IF q = s THEN x ELSE runs[q]
  BY <1>3 DEF AdoptInv, TypeInv, TypeOK
<1>5. runs[s].works[w].at \notin alive
  BY DEF Admit, Has, AdoptInv, PlaceInv, Vacant, Holds
<1> HIDE DEF x
<1> QED
  BY <1>2, <1>4, <1>5 DEF LiveStays

LEMMA BeginLive ==
    ASSUME AdoptInv, NEW s \in Sessions, NEW w \in Works, Begin_work(s, w),
           NEW t \in Sessions, NEW u \in Works
    PROVE  LiveStays(t, u)
<1> DEFINE r == runs[s]
           z == [r.works[w] EXCEPT !.at = loaded[s], !.version = @ + 1]
           x == [r EXCEPT !.works[w] = z]
<1>1. r \in Run /\ r.works \in [Works -> Work] /\ r.works[w] \in Work
  BY Fields DEF AdoptInv, TypeInv
<1>2. x.status = runs[s].status /\ \A v \in Works : v # w => x.works[v] = runs[s].works[v]
  BY <1>1 DEF Run
<1>3. runs' = [runs EXCEPT ![s] = x]
  <2>1. [r EXCEPT !.works[w].at = loaded[s], !.works[w].version = @ + 1] = x
    BY <1>1 DEF Run, Work
  <2> QED
    BY <2>1 DEF Begin_work, Save
<1>4. \A q \in Sessions : runs'[q] = IF q = s THEN x ELSE runs[q]
  BY <1>3 DEF AdoptInv, TypeInv, TypeOK
<1>5. runs[s].works[w].at \notin alive
  BY DEF Begin_work
<1> HIDE DEF x, r
<1> QED
  BY <1>2, <1>4, <1>5 DEF LiveStays

LEMMA ClaimLive ==
    ASSUME AdoptInv, NEW p \in Processes, Claim(p), NEW t \in Sessions, NEW u \in Works
    PROVE  LiveStays(t, u)
<1> PICK f \in Sessions : f = calls[p].from
  BY DEF Claim, AdoptInv, TypeInv, Targets
<1> DEFINE r == Claimed(calls[p].read, calls[p].into)
<1>1. \A v \in Works : runs[f].works[v].at \notin alive
  BY DEF Claim, AdoptInv, CallInv, Claiming
<1>2. runs' = [runs EXCEPT ![f] = r]
  BY DEF Claim
<1>3. \A q \in Sessions : runs'[q] = IF q = f THEN r ELSE runs[q]
  BY <1>2 DEF AdoptInv, TypeInv, TypeOK
<1> HIDE DEF r
<1> QED
  BY <1>1, <1>3 DEF LiveStays

LEMMA MergeLive ==
    ASSUME AdoptInv, NEW p \in Processes, Merge(p), NEW t \in Sessions, NEW u \in Works
    PROVE  LiveStays(t, u)
<1> PICK h \in Sessions : h = calls[p].into
  BY DEF Merge, AdoptInv, TypeInv, Targets
<1> DEFINE x == Merged(runs[h], calls[p].read)
<1>1. runs[h] \in Run /\ calls[p].read \in Run
  BY Fields DEF AdoptInv, TypeInv
<1>2. /\ x.status = runs[h].status
      /\ \A w \in Works : x.works[w] = MergedWork(runs[h].works[w], calls[p].read.works[w])
  BY <1>1, MergedType
<1>3. runs' = [runs EXCEPT ![h] = x]
  BY DEF Merge
<1>4. \A q \in Sessions : runs'[q] = IF q = h THEN x ELSE runs[q]
  BY <1>3 DEF AdoptInv, TypeInv, TypeOK
<1>5. \A w \in Works : runs[h].works[w].at \in alive => runs[h].works[w].child # NoOne
  BY DEF AdoptInv, PlaceInv, Vacant, Holds
<1> HIDE DEF x
<1>6. \A w \in Works : runs[h].works[w].at \in alive => x.works[w] = runs[h].works[w]
  BY <1>2, <1>5 DEF MergedWork
<1> QED
  BY <1>2, <1>4, <1>6 DEF LiveStays

LEMMA RetireLive ==
    ASSUME AdoptInv, NEW p \in Processes, Retire(p), NEW t \in Sessions, NEW u \in Works
    PROVE  LiveStays(t, u)
<1> PICK f \in Sessions : f = calls[p].from
  BY DEF Retire, AdoptInv, TypeInv, Targets
<1>1. \A v \in Works : runs[f].works[v].at \notin alive
  BY DEF Retire, AdoptInv, CallInv, Fences, PlaceInv, Heirs
<1>2. \A q \in Sessions : q # f => runs'[q] = runs[q]
  BY DEF Retire, AdoptInv, TypeInv, TypeOK
<1> QED
  BY <1>1, <1>2 DEF LiveStays

LEMMA LiveNext ==
    ASSUME AdoptInv, Next, Stays, NEW t \in Sessions, NEW u \in Works
    PROVE  LiveStays(t, u)
<1>0. TypeInv'
  BY TypeStep DEF AdoptInv
<1>1. ASSUME runs' = runs PROVE LiveStays(t, u)
  BY <1>1 DEF LiveStays
<1>2. ASSUME NEW s \in Sessions, SessionStep(s) PROVE LiveStays(t, u)
  <2>0. runs[s].status = "superseded" => runs'[s].status = "superseded"
    BY DEF Stays, Gone
  <2>1. CASE \E w \in Works : Admit(s, w) \/ Begin_work(s, w)
    BY <2>1, AdmitLive, BeginLive
  <2>2. CASE \E i \in Inputs : Enqueue_parent_input(s, i)
    BY <1>0, <2>0, <2>2, EnqueueInv, KeptLive
  <2>3. CASE Retry_pending(s)
    BY <2>3, <1>1 DEF Retry_pending
  <2> QED
    BY <1>0, <1>2, <2>0, <2>1, <2>2, <2>3, SessionQuiet, KeptLive DEF SessionStep
<1>3. ASSUME NEW p \in Processes, Adoption(p) PROVE LiveStays(t, u)
  <2>1. CASE Check(p) \/ Refused(p)
    BY <2>1, <1>1 DEF Check, Refused
  <2>2. CASE Adoption_pending(p)
    BY <1>0, <2>2, PendingInv, KeptLive
  <2> QED
    BY <1>3, <2>1, <2>2, ClaimLive, MergeLive, RetireLive DEF Adoption
<1> QED
  BY <1>1, <1>2, <1>3 DEF Next, Adopt_run, GivesUp, Dies

\* A run with a worker in a turn is not taken over: the claim is checked on the
\* document it replaces, and every merge and retirement works on runs, or on
\* works, where nobody is (live_owner, adopt_at).
THEOREM LiveAttempts == Spec /\ SupersededForGood => LiveAttemptStays
<1>1. AdoptInv /\ [Next]_vars /\
         [\A s \in Sessions :
            runs[s].status = "superseded" => runs'[s].status = "superseded"]_vars
      => [\A s \in Sessions, w \in Works :
             runs[s].works[w].at \in alive =>
                \/ runs[s].works[w].at \notin alive'
                \/ runs'[s].works[w].at \in {NoOne, runs[s].works[w].at}
                      /\ runs'[s].works[w].child = runs[s].works[w].child
                      /\ (runs'[s].status = "superseded" => runs[s].status = "superseded")]_vars
  BY LiveNext DEF Stays, Gone, LiveStays
<1> QED
  BY <1>1, AdoptInvariant, PTL DEF Spec, SupersededForGood, LiveAttemptStays

------------------------------------------------------------------------------
(* Drains *)

\* A drain is not overtaken by its session's close or lease, and a router that
\* dies leaves none that could load its sessions.
Orderly == Hasty = {} /\ \A p \in Mortal : Routers = {p}

\* Nobody uses a superseded session, and drains, if there are any, are orderly.
Steady == Returns = {} /\ (Drained = {} \/ Orderly)

\* A loaded run is owned by the router that has it, if by any; another's owner
\* has gone.
Owners ==
    \A s \in Sessions :
        IF Loaded(s) THEN loaded[s] \in alive /\ runs[s].owner \in {NoOne, loaded[s]}
        ELSE runs[s].owner \notin alive

Claims(s) == \E p \in Processes : calls[p].at = "claim" /\ calls[p].from = s

\* A run that drains is at its router, has a young lease, and nobody claims it.
Drains ==
    \A s \in Sessions : drain[s] # NoOne =>
        drain[s] = loaded[s] /\ fresh[s] /\ ~Gone(s) /\ ~Claims(s)

DrainInv ==
    /\ \A s \in Sessions : drain[s] # NoOne => s \in Drained
    /\ Orderly => Routers \ Mortal \subseteq alive /\ Owners /\ Drains

LEMMA DrainKept ==
    ASSUME TypeOK, DrainInv, loaded' = loaded, alive' = alive,
           \A t \in Sessions : \/ runs'[t].owner = runs[t].owner
                               \/ Loaded(t) /\ runs'[t].owner \in {NoOne, loaded[t]},
           \A t \in Sessions : drain'[t] \in {NoOne, drain[t]},
           \A t \in Sessions : drain'[t] # NoOne =>
              /\ fresh[t] => fresh'[t]
              /\ Gone(t)' => (Gone(t) \/ Claims(t)),
           \A p \in Processes : calls'[p].at = "claim" =>
              calls[p].at = "claim" /\ calls[p].from = calls'[p].from
    PROVE  DrainInv'
<1>1. \A s \in Sessions : Claims(s)' => Claims(s)
  BY DEF Claims
<1>2. (\A s \in Sessions : drain[s] # NoOne => s \in Drained)'
  BY DEF DrainInv
<1>3. ASSUME Orderly PROVE Owners'
  <2>1. Owners
    BY <1>3 DEF DrainInv
  <2> QED
    BY <2>1 DEF Owners, Loaded
<1>4. ASSUME Orderly PROVE Drains'
  <2>1. Drains
    BY <1>4 DEF DrainInv
  <2> QED
    BY <2>1, <1>1 DEF Drains
<1>5. Orderly' <=> Orderly
  BY DEF Orderly
<1> QED
  BY <1>2, <1>3, <1>4, <1>5 DEF DrainInv

\* A save makes no claim, and leaves none on what it saved.
LEMMA SavedClaims ==
    ASSUME TypeOK, NEW s \in Sessions, NEW p \in Processes, Saved(s)[p].at = "claim"
    PROVE  calls[p].at = "claim" /\ calls[p].from = Saved(s)[p].from /\ calls[p].from # s
  BY SavedCalls

\* The saves of a session that change neither who has it nor its drain.
LEMMA QuietSave ==
    ASSUME AdoptInv, DrainInv, NEW s \in Sessions, NEW x, Save(s, x),
           x.owner \in {runs[s].owner, loaded[s]},
           runs[s].owner # x.owner => Loaded(s),
           x.status = "superseded" <=> Gone(s),
           loaded' = loaded, alive' = alive,
           \A t \in Sessions : drain'[t] \in {NoOne, drain[t]},
           \A t \in Sessions : fresh[t] => fresh'[t]
    PROVE  DrainInv' /\ Stays
<1>1. /\ \A t \in Sessions : runs'[t] = IF t = s THEN x ELSE runs[t]
      /\ \A p \in Processes : calls'[p].at = "claim" =>
            calls[p].at = "claim" /\ calls[p].from = calls'[p].from
  <2>1. TypeOK /\ runs' = [runs EXCEPT ![s] = x] /\ calls' = Saved(s)
    BY DEF Save, AdoptInv, TypeInv
  <2>2. \A t \in Sessions : runs'[t] = IF t = s THEN x ELSE runs[t]
    BY <2>1 DEF TypeOK
  <2> QED
    BY <2>1, <2>2, SavedClaims
<1>2. \A t \in Sessions : Gone(t)' <=> Gone(t)
  BY <1>1 DEF Gone
<1>3. \A t \in Sessions : \/ runs'[t].owner = runs[t].owner
                          \/ Loaded(t) /\ runs'[t].owner \in {NoOne, loaded[t]}
  BY <1>1
<1>4. Stays
  BY <1>2 DEF Stays, Gone
<1>5. TypeOK
  BY DEF AdoptInv, TypeInv
<1> QED
  BY <1>1, <1>2, <1>3, <1>4, <1>5, DrainKept

LEMMA DrainSaves ==
    ASSUME AdoptInv, DrainInv, Steady, NEW s \in Sessions,
           \/ Heartbeat(s)
           \/ \E a \in Sessions \cup {NoOne} : Implement(s, a)
           \/ \E directed \in BOOLEAN : Observe_input(s, directed)
           \/ DrainEnds(s)
           \/ \E w \in Works : Admit(s, w) \/ Begin_work(s, w) \/ Attempt_ended(s, w)
           \/ \E i \in Inputs :
                 \/ Enqueue_parent_input(s, i) \/ Deliver_queued_input(s, i)
                 \/ TurnEnds(s, i) \/ Acknowledge_input(s, i)
    PROVE  DrainInv' /\ Stays
<1>0. runs[s] \in Run /\ TypeOK
  BY Fields DEF AdoptInv, TypeInv
<1> DEFINE r == runs[s]
<1>1. CASE Heartbeat(s)
  <2> DEFINE x == [r EXCEPT !.owner = loaded[s]]
  <2>1. x.owner = loaded[s] /\ x.status = r.status
    BY <1>0 DEF Run
  <2>2. Save(s, x) /\ Loaded(s) /\ loaded' = loaded /\ alive' = alive /\ drain' = drain
    BY <1>1 DEF Heartbeat
  <2>3. \A t \in Sessions : fresh[t] => fresh'[t]
    BY <1>0, <1>1 DEF Heartbeat, TypeOK
  <2> HIDE DEF x
  <2> QED
    BY <2>1, <2>2, <2>3, QuietSave DEF Gone
<1>2. ASSUME NEW a \in Sessions \cup {NoOne}, Implement(s, a) PROVE DrainInv' /\ Stays
  <2> DEFINE x == [r EXCEPT !.status = "running",
                            !.owner = IF r.status = "none" THEN loaded[s] ELSE @,
                            !.pending = IF a = NoOne THEN @ ELSE a]
  <2>1. x.owner \in {r.owner, loaded[s]} /\ x.status = "running"
    BY <1>0 DEF Run
  <2>2. /\ Save(s, x) /\ Loaded(s) /\ loaded' = loaded /\ alive' = alive /\ drain' = drain
        /\ r.status # "superseded"
    BY <1>2 DEF Implement
  <2>3. \A t \in Sessions : fresh[t] => fresh'[t]
    BY <1>0, <1>2 DEF Implement, TypeOK
  <2> HIDE DEF x
  <2> QED
    BY <2>1, <2>2, <2>3, QuietSave DEF Gone
<1>3. ASSUME NEW directed \in BOOLEAN, Observe_input(s, directed) PROVE DrainInv' /\ Stays
  <2> DEFINE x == [r EXCEPT !.status = "running"]
  <2>1. x.owner = r.owner /\ x.status = "running"
    BY <1>0 DEF Run
  <2>2. /\ Save(s, x) /\ Loaded(s) /\ loaded' = loaded /\ alive' = alive /\ drain' = drain
        /\ r.status # "superseded"
    BY <1>3 DEF Observe_input, Usable, Steady
  <2>3. \A t \in Sessions : fresh[t] => fresh'[t]
    BY <1>0, <1>3 DEF Observe_input, TypeOK
  <2> HIDE DEF x
  <2> QED
    BY <2>1, <2>2, <2>3, QuietSave DEF Gone
<1>4. CASE DrainEnds(s)
  <2> DEFINE x == [r EXCEPT !.status = "paused"]
  <2>1. x.owner = r.owner /\ x.status = "paused"
    BY <1>0 DEF Run
  <2>2. Save(s, x) /\ loaded' = loaded /\ alive' = alive /\ fresh' = fresh
    BY <1>4 DEF DrainEnds
  <2>3. r.status # "superseded"
    BY <1>4 DEF DrainEnds, DrainInv, Steady, Drains, Gone
  <2>4. \A t \in Sessions : drain'[t] \in {NoOne, drain[t]}
    BY <1>0, <1>4 DEF DrainEnds, TypeOK
  <2> HIDE DEF x
  <2> QED
    BY <2>1, <2>2, <2>3, <2>4, QuietSave DEF Gone
<1>5. ASSUME NEW x, Save(s, x), x.owner = r.owner, x.status = r.status,
             loaded' = loaded, alive' = alive, drain' = drain,
             \A t \in Sessions : fresh[t] => fresh'[t]
      PROVE  DrainInv' /\ Stays
  BY <1>5, QuietSave DEF Gone
<1>6. ASSUME NEW w \in Works, Admit(s, w) \/ Begin_work(s, w) \/ Attempt_ended(s, w)
      PROVE  DrainInv' /\ Stays
  <2>1. /\ \A y : /\ [r EXCEPT !.works[w] = y].owner = r.owner
                  /\ [r EXCEPT !.works[w] = y].status = r.status
        /\ \A y, v : /\ [r EXCEPT !.works[w].at = y].owner = r.owner
                     /\ [r EXCEPT !.works[w].at = y].status = r.status
        /\ \A y : /\ [r EXCEPT !.works[w].at = y, !.works[w].version = @ + 1].owner = r.owner
                  /\ [r EXCEPT !.works[w].at = y, !.works[w].version = @ + 1].status = r.status
    BY <1>0 DEF Run
  <2>2. CASE Admit(s, w)
    BY <1>5, <2>1, <2>2 DEF Admit
  <2>3. CASE Begin_work(s, w)
    BY <1>5, <2>1, <2>3 DEF Begin_work
  <2>4. CASE Attempt_ended(s, w)
    BY <1>5, <2>1, <2>4 DEF Attempt_ended
  <2> QED
    BY <1>6, <2>2, <2>3, <2>4
<1>7. ASSUME NEW i \in Inputs,
             \/ Enqueue_parent_input(s, i) \/ Deliver_queued_input(s, i)
             \/ TurnEnds(s, i) \/ Acknowledge_input(s, i)
      PROVE  DrainInv' /\ Stays
  <2>1. \A y, z : /\ [r EXCEPT !.inputs[i] = y].owner = r.owner
                  /\ [r EXCEPT !.inputs[i] = y].status = r.status
                  /\ [r EXCEPT !.inputs[i] = y, !.claim = z].owner = r.owner
                  /\ [r EXCEPT !.inputs[i] = y, !.claim = z].status = r.status
                  /\ [r EXCEPT !.claim = z].owner = r.owner
                  /\ [r EXCEPT !.claim = z].status = r.status
    BY <1>0 DEF Run
  <2>2. CASE Enqueue_parent_input(s, i)
    <3>1. \A t \in Sessions : fresh[t] => fresh'[t]
      BY <1>0, <2>2 DEF Enqueue_parent_input, TypeOK
    <3> QED
      BY <1>5, <2>1, <2>2, <3>1 DEF Enqueue_parent_input
  <2>3. CASE Deliver_queued_input(s, i)
    BY <1>5, <2>1, <2>3 DEF Deliver_queued_input
  <2>4. CASE Acknowledge_input(s, i)
    BY <1>5, <2>1, <2>4 DEF Acknowledge_input
  <2>5. CASE TurnEnds(s, i)
    <3> DEFINE x == [r EXCEPT !.claim = NoOne, !.inputs[i] = IF @ = "turn" THEN "received" ELSE @]
    <3>1. x.owner = r.owner /\ x.status = r.status
      BY <1>0 DEF Run
    <3>2. Save(s, x) \/ Save(s, [r EXCEPT !.claim = NoOne])
      BY <2>5 DEF TurnEnds
    <3>3. loaded' = loaded /\ alive' = alive /\ drain' = drain /\ fresh' = fresh
      BY <2>5 DEF TurnEnds
    <3> HIDE DEF x
    <3> QED
      BY <1>5, <2>1, <3>1, <3>2, <3>3
  <2> QED
    BY <1>7, <2>2, <2>3, <2>4, <2>5
<1> QED
  BY <1>1, <1>2, <1>3, <1>4, <1>6, <1>7


LEMMA LoadDrain ==
    ASSUME AdoptInv, DrainInv, NEW s \in Sessions, NEW p \in Routers, Load(s, p)
    PROVE  DrainInv' /\ Stays
<1>0. TypeOK /\ NoOne \notin alive
  BY AdoptAssumption DEF AdoptInv, TypeInv, TypeOK
<1>1. /\ runs' = runs /\ calls' = calls /\ drain' = drain /\ fresh' = fresh /\ alive' = alive
      /\ p \in alive /\ loaded[s] = NoOne
      /\ \A t \in Sessions : loaded'[t] = IF t = s THEN p ELSE loaded[t]
  BY <1>0 DEF Load, Loaded, TypeOK
<1>2. \A t \in Sessions : runs[t].owner \in Router
  BY <1>0, Fields
<1>3. ASSUME Orderly PROVE Owners' /\ Drains'
  <2>1. Owners /\ Drains /\ Routers \ Mortal \subseteq alive
    BY <1>3 DEF DrainInv
  <2>2. runs[s].owner = NoOne
    <3> SUFFICES ASSUME runs[s].owner # NoOne PROVE FALSE
      OBVIOUS
    <3>1. runs[s].owner \in Mortal
      BY <1>1, <1>2, <2>1 DEF Owners, Loaded, Router
    <3>2. Routers = {runs[s].owner}
      BY <1>3, <3>1 DEF Orderly
    <3> QED
      BY <1>1, <2>1, <3>2 DEF Owners, Loaded
  <2>3. Owners'
    BY <1>0, <1>1, <2>1, <2>2 DEF Owners, Loaded
  <2>4. drain[s] = NoOne
    BY <1>1, <2>1 DEF Drains
  <2>5. Drains'
    BY <1>1, <2>1, <2>4 DEF Drains, Gone, Claims
  <2> QED
    BY <2>3, <2>5
<1> QED
  BY <1>1, <1>3 DEF DrainInv, Orderly, Stays, Gone

LEMMA LapseDrain ==
    ASSUME AdoptInv, DrainInv, Steady, NEW s \in Sessions, Lapse(s)
    PROVE  DrainInv' /\ Stays
<1>1. /\ runs' = runs /\ calls' = calls /\ drain' = drain /\ loaded' = loaded /\ alive' = alive
      /\ \A t \in Sessions \ {s} : fresh'[t] = fresh[t]
  BY DEF Lapse, AdoptInv, TypeInv, TypeOK
<1>2. drain[s] # NoOne => ~Orderly
  BY DEF Lapse, Settled, Orderly
<1>3. ASSUME Orderly PROVE Owners' /\ Drains'
  <2>1. Owners'
    BY <1>1, <1>3 DEF DrainInv, Owners, Loaded
  <2>2. Drains'
    BY <1>1, <1>2, <1>3 DEF DrainInv, Drains, Gone, Claims
  <2> QED
    BY <2>1, <2>2
<1> QED
  BY <1>1, <1>3 DEF DrainInv, Orderly, Stays, Gone

LEMMA CloseDrain ==
    ASSUME AdoptInv, DrainInv, Steady, NEW s \in Sessions, Close(s)
    PROVE  DrainInv' /\ Stays
<1> DEFINE r == runs[s]
           x == [r EXCEPT !.status = IF @ = "running" THEN "paused" ELSE @,
                          !.owner = IF @ = loaded[s] THEN NoOne ELSE @]
<1>0. TypeOK /\ NoOne \notin alive /\ r \in Run
  BY Fields, AdoptAssumption DEF AdoptInv, TypeInv, TypeOK
<1>1. /\ x.status = "superseded" <=> r.status = "superseded"
      /\ x.owner = IF r.owner = loaded[s] THEN NoOne ELSE r.owner
  BY <1>0 DEF Run
<1>2. /\ runs' = [runs EXCEPT ![s] = x] /\ calls' = Saved(s)
      /\ loaded' = [loaded EXCEPT ![s] = NoOne]
      /\ drain' = drain /\ fresh' = fresh /\ alive' = alive
      /\ Loaded(s)
  BY DEF Close, Save
<1> HIDE DEF x
<1>3. \A t \in Sessions : /\ runs'[t] = IF t = s THEN x ELSE runs[t]
                          /\ loaded'[t] = IF t = s THEN NoOne ELSE loaded[t]
  BY <1>0, <1>2 DEF TypeOK
<1>4. \A t \in Sessions : Claims(t)' => Claims(t)
  BY <1>0, <1>2, SavedClaims DEF Claims
<1>5. \A t \in Sessions : Gone(t)' <=> Gone(t)
  BY <1>1, <1>3 DEF Gone
<1>6. drain[s] # NoOne => ~Orderly
  BY DEF Close, Settled, Orderly
<1>7. ASSUME Orderly PROVE Owners' /\ Drains'
  <2>0. Owners /\ Drains
    BY <1>7 DEF DrainInv
  <2>1. x.owner = NoOne
    BY <1>1, <1>2, <2>0 DEF Owners
  <2>2. Owners'
    BY <1>0, <1>2, <1>3, <2>0, <2>1 DEF Owners, Loaded
  <2>3. Drains'
    BY <1>2, <1>3, <1>4, <1>5, <1>6, <1>7, <2>0 DEF Drains
  <2> QED
    BY <2>2, <2>3
<1> QED
  BY <1>2, <1>5, <1>7 DEF DrainInv, Orderly, Stays, Gone

LEMMA RunDrain ==
    ASSUME AdoptInv, DrainInv, Steady, NEW s \in Sessions, Run_drain(s)
    PROVE  DrainInv' /\ Stays
<1> DEFINE r == runs[s]
           x == [r EXCEPT !.status = "draining"]
<1>0. TypeOK /\ r \in Run
  BY Fields DEF AdoptInv, TypeInv
<1>1. x.status = "draining" /\ x.owner = r.owner
  BY <1>0 DEF Run
<1>2. /\ runs' = [runs EXCEPT ![s] = x] /\ calls' = Saved(s)
      /\ drain' = [drain EXCEPT ![s] = loaded[s]]
      /\ loaded' = loaded /\ fresh' = fresh /\ alive' = alive
      /\ Loaded(s) /\ s \in Drained
      /\ r.status # "superseded" /\ (fresh[s] \/ s \in Hasty)
  BY DEF Run_drain, Save, Usable, Steady
<1> HIDE DEF x
<1>3. \A t \in Sessions : /\ runs'[t] = IF t = s THEN x ELSE runs[t]
                          /\ drain'[t] = IF t = s THEN loaded[s] ELSE drain[t]
  BY <1>0, <1>2 DEF TypeOK
<1>4. \A t \in Sessions : (Claims(t)' => Claims(t)) /\ ~Claims(s)'
  BY <1>0, <1>2, SavedClaims DEF Claims
<1>5. \A t \in Sessions : Gone(t)' <=> Gone(t)
  BY <1>1, <1>2, <1>3 DEF Gone
<1>6. ASSUME Orderly PROVE Owners' /\ Drains'
  <2>0. Owners /\ Drains
    BY <1>6 DEF DrainInv
  <2>1. Owners'
    BY <1>1, <1>2, <1>3, <2>0 DEF Owners, Loaded
  <2>2. fresh[s]
    BY <1>2, <1>6 DEF Orderly
  <2>3. ~Gone(s)
    BY <1>2 DEF Gone
  <2>4. Drains'
    BY <1>2, <1>3, <1>4, <1>5, <2>0, <2>2, <2>3 DEF Drains
  <2> QED
    BY <2>1, <2>4
<1> QED
  BY <1>2, <1>3, <1>5, <1>6 DEF DrainInv, Orderly, Stays, Gone

LEMMA DiesDrain ==
    ASSUME AdoptInv, DrainInv, NEW p \in Mortal, Dies(p)
    PROVE  DrainInv' /\ Stays
<1>0. TypeOK /\ NoOne \notin alive /\ p \in Processes /\ p # NoOne
  BY AdoptAssumption DEF AdoptInv, TypeInv, TypeOK, Processes
<1>1. /\ runs' = runs /\ fresh' = fresh
      /\ alive' = alive \ {p}
      /\ \A t \in Sessions : /\ loaded'[t] = IF loaded[t] = p THEN NoOne ELSE loaded[t]
                             /\ drain'[t] = IF drain[t] = p THEN NoOne ELSE drain[t]
      /\ \A q \in Processes : calls'[q] = IF q = p THEN Idle ELSE calls[q]
  BY <1>0 DEF Dies, Goto, TypeOK
<1>2. \A t \in Sessions : Claims(t)' => Claims(t)
  BY <1>1, Idles DEF Claims
<1>3. ASSUME Orderly PROVE Owners' /\ Drains' /\ Routers \ Mortal \subseteq alive'
  <2>0. Owners /\ Drains /\ Routers \ Mortal \subseteq alive
    BY <1>3 DEF DrainInv
  <2>1. Owners'
    BY <1>0, <1>1, <2>0 DEF Owners, Loaded
  <2>2. Drains'
    BY <1>0, <1>1, <1>2, <2>0 DEF Drains, Gone
  <2> QED
    BY <1>1, <2>0, <2>1, <2>2
<1> QED
  BY <1>1, <1>3 DEF DrainInv, Orderly, Stays, Gone


\* A step that leaves the sessions alone, all but their documents.
LEMMA CallDrain ==
    ASSUME AdoptInv, DrainInv,
           loaded' = loaded, alive' = alive, drain' = drain, fresh' = fresh,
           \A t \in Sessions :
              /\ runs'[t].owner = runs[t].owner
              /\ Gone(t) => Gone(t)'
              /\ Gone(t)' => (Gone(t) \/ Claims(t)),
           \A p \in Processes : calls'[p].at = "claim" =>
              calls[p].at = "claim" /\ calls[p].from = calls'[p].from
    PROVE  DrainInv' /\ Stays
<1>1. Stays
  BY DEF Stays, Gone
<1>2. TypeOK
  BY DEF AdoptInv, TypeInv
<1> QED
  BY <1>1, <1>2, DrainKept

\* A call that goes on, with the claims of others saved over.
LEMMA CallGoesOn ==
    ASSUME TypeOK, NEW p \in Processes, NEW s \in Sessions, NEW c, c.at # "claim",
           \/ calls' = [calls EXCEPT ![p] = c]
           \/ calls' = [Saved(s) EXCEPT ![p] = c],
           NEW q \in Processes, calls'[q].at = "claim"
    PROVE  calls[q].at = "claim" /\ calls[q].from = calls'[q].from
<1>1. calls \in [Processes -> Call] /\ Saved(s) \in [Processes -> Call]
  BY SavedCalls DEF TypeOK
<1>2. calls'[q] = calls[q] \/ calls'[q] = Saved(s)[q]
  BY <1>1
<1> QED
  BY <1>2, SavedClaims

LEMMA CheckDrain ==
    ASSUME AdoptInv, DrainInv, NEW p \in Processes, Check(p)
    PROVE  DrainInv' /\ Stays
<1> PICK f \in Sessions : calls[p].from = f
  BY DEF Check, AdoptInv, TypeInv, Targets
<1>0. TypeOK /\ calls[p] \in Call /\ runs[f].owner \in Router
  BY Fields DEF AdoptInv, TypeInv
<1>1. /\ runs' = runs /\ loaded' = loaded /\ alive' = alive /\ drain' = drain /\ fresh' = fresh
      /\ \A q \in Processes \ {p} : calls'[q] = calls[q]
  BY <1>0 DEF Check, Goto, TypeOK
<1>2. calls'[p].from = f /\ calls'[p].at \in {"claim", "merge"}
      /\ (calls'[p].at = "claim" => ~ClaimedBefore(calls[p]))
  <2> DEFINE c == calls[p]
             d == [c EXCEPT !.at = IF ClaimedBefore(c) THEN "merge" ELSE "claim",
                            !.read = runs[c.from]]
  <2>1. d.from = c.from /\ d.at = IF ClaimedBefore(c) THEN "merge" ELSE "claim"
    BY <1>0 DEF Call
  <2>2. calls'[p] = d
    BY <1>0 DEF Check, Goto, TypeOK
  <2> HIDE DEF d
  <2> QED
    BY <2>1, <2>2
<1>3. calls'[p].at = "claim" => ~Live_owner(p, f)
  BY <1>2 DEF Check, Adoptable
<1>4. \A t \in Sessions : Claims(t)' => Claims(t) \/ (t = f /\ calls'[p].at = "claim")
  BY <1>1, <1>2 DEF Claims
<1>5. ASSUME Orderly PROVE Owners' /\ Drains'
  <2>0. Owners /\ Drains
    BY <1>5 DEF DrainInv
  <2>1. Owners'
    BY <1>1, <2>0 DEF Owners, Loaded
  <2>2. calls'[p].at = "claim" => drain[f] = NoOne
    <3> SUFFICES ASSUME calls'[p].at = "claim", drain[f] # NoOne PROVE FALSE
      OBVIOUS
    <3>1. fresh[f] /\ Loaded(f) /\ loaded[f] \in alive
      BY <2>0 DEF Drains, Owners, Loaded
    <3>2. runs[f].owner = NoOne \/ runs[f].owner \in alive
      BY <2>0, <3>1 DEF Owners
    <3> QED
      BY <1>3, <3>1, <3>2 DEF Live_owner
  <2>3. Drains'
    BY <1>1, <1>4, <2>0, <2>2 DEF Drains, Gone
  <2> QED
    BY <2>1, <2>3
<1> QED
  BY <1>1, <1>5 DEF DrainInv, Orderly, Stays, Gone

LEMMA AdoptionDrain ==
    ASSUME AdoptInv, DrainInv, NEW p \in Processes, Adoption(p)
    PROVE  DrainInv' /\ Stays
<1>0. TypeOK /\ calls[p] \in Call
  BY DEF AdoptInv, TypeInv, TypeOK
<1>1. CASE Refused(p)
  <2>1. calls' = [calls EXCEPT ![p] = Idle] /\ runs' = runs /\ loaded' = loaded
        /\ alive' = alive /\ drain' = drain /\ fresh' = fresh
    BY <1>1 DEF Refused, Goto
  <2>2. \A q \in Processes : calls'[q].at = "claim" =>
          calls[q].at = "claim" /\ calls[q].from = calls'[q].from
    BY <1>0, <2>1, Idles DEF TypeOK
  <2> QED
    BY <2>1, <2>2, CallDrain DEF Gone
<1>2. CASE Claim(p)
  <2> PICK f \in Sessions : calls[p].from = f
    BY <1>2 DEF Claim, AdoptInv, TypeInv, Targets
  <2> DEFINE r == Claimed(calls[p].read, calls[p].into)
             d == [calls[p] EXCEPT !.at = "merge", !.read = r]
  <2>1. runs[f] \in Run /\ calls[p].read = runs[f] /\ calls[p].at = "claim"
    BY <1>0, <1>2, Fields DEF Claim, AdoptInv, CallInv, Claiming
  <2>2. r.owner = runs[f].owner /\ r.status = "superseded"
    BY <2>1 DEF Claimed, Run
  <2>3. d.at = "merge"
    BY <1>0 DEF Call
  <2>4. runs' = [runs EXCEPT ![f] = r] /\ calls' = [Saved(f) EXCEPT ![p] = d] /\ loaded' = loaded
        /\ alive' = alive /\ drain' = drain /\ fresh' = fresh
    BY <1>2 DEF Claim
  <2> HIDE DEF r, d
  <2>5. \A t \in Sessions : runs'[t] = IF t = f THEN r ELSE runs[t]
    BY <1>0, <2>4 DEF TypeOK
  <2>6. \A q \in Processes : calls'[q].at = "claim" =>
          calls[q].at = "claim" /\ calls[q].from = calls'[q].from
    BY <1>0, <2>3, <2>4, CallGoesOn
  <2>7. Claims(f)
    BY <2>1 DEF Claims
  <2>8. \A t \in Sessions :
              /\ runs'[t].owner = runs[t].owner
              /\ Gone(t) => Gone(t)'
              /\ Gone(t)' => (Gone(t) \/ Claims(t))
    BY <2>2, <2>5, <2>7 DEF Gone
  <2> QED
    BY <2>4, <2>6, <2>8, CallDrain
<1>3. CASE Merge(p)
  <2> PICK h \in Sessions : calls[p].into = h
    BY <1>3 DEF Merge, AdoptInv, TypeInv, Targets
  <2> DEFINE x == Merged(runs[h], calls[p].read)
             d == [calls[p] EXCEPT !.at = "retire", !.read = NoRun,
                                   !.works = MovedWorks(runs[h], calls[p].read),
                                   !.inputs = MovedInputs(runs[h], calls[p].read)]
  <2>1. runs[h] \in Run /\ calls[p].read \in Run
    BY <1>0, Fields
  <2>2. x.owner = runs[h].owner /\ x.status = runs[h].status
    BY <2>1 DEF Merged, Run
  <2>3. d.at = "retire"
    BY <1>0 DEF Call
  <2>4. runs' = [runs EXCEPT ![h] = x] /\ calls' = [Saved(h) EXCEPT ![p] = d] /\ loaded' = loaded
        /\ alive' = alive /\ drain' = drain /\ fresh' = fresh
    BY <1>3 DEF Merge
  <2> HIDE DEF x, d
  <2>5. \A t \in Sessions : runs'[t] = IF t = h THEN x ELSE runs[t]
    BY <1>0, <2>4 DEF TypeOK
  <2>6. \A q \in Processes : calls'[q].at = "claim" =>
          calls[q].at = "claim" /\ calls[q].from = calls'[q].from
    BY <1>0, <2>3, <2>4, CallGoesOn
  <2>8. \A t \in Sessions : runs'[t].owner = runs[t].owner /\ (Gone(t)' <=> Gone(t))
    BY <2>2, <2>5 DEF Gone
  <2> QED
    BY <2>4, <2>6, <2>8, CallDrain
<1>4. CASE Retire(p)
  <2> PICK f \in Sessions, h \in Sessions : calls[p].from = f /\ calls[p].into = h
    BY <1>4 DEF Retire, AdoptInv, TypeInv, Targets
  <2> DEFINE x == Retired(runs[f], calls[p].works, calls[p].inputs, h)
  <2>1. runs[f] \in Run /\ Gone(f)
    BY <1>0, <1>4, Fields DEF Retire, AdoptInv, CallInv, Fences
  <2>2. x.owner = runs[f].owner /\ x.status = "superseded"
    BY <2>1 DEF Retired, Run
  <2>3. Clear(h).at = "clear"
    BY Idles DEF Session
  <2>4. runs' = [runs EXCEPT ![f] = x] /\ calls' = [Saved(f) EXCEPT ![p] = Clear(h)] /\ loaded' = loaded
        /\ alive' = alive /\ drain' = drain /\ fresh' = fresh
    BY <1>4 DEF Retire
  <2> HIDE DEF x
  <2>5. \A t \in Sessions : runs'[t] = IF t = f THEN x ELSE runs[t]
    BY <1>0, <2>4 DEF TypeOK
  <2>6. \A q \in Processes : calls'[q].at = "claim" =>
          calls[q].at = "claim" /\ calls[q].from = calls'[q].from
    BY <1>0, <2>3, <2>4, CallGoesOn
  <2>8. \A t \in Sessions : runs'[t].owner = runs[t].owner /\ (Gone(t)' <=> Gone(t))
    BY <2>1, <2>2, <2>5 DEF Gone
  <2> QED
    BY <2>4, <2>6, <2>8, CallDrain
<1>5. CASE Adoption_pending(p)
  <2> PICK h \in Sessions : calls[p].into = h
    BY <1>5 DEF Adoption_pending, AdoptInv, TypeInv, Targets
  <2> DEFINE x == [runs[h] EXCEPT !.pending = NoOne]
  <2>1. runs[h] \in Run
    BY <1>0, Fields
  <2>2. x.owner = runs[h].owner /\ x.status = runs[h].status
    BY <2>1 DEF Run
  <2>4. runs' = [runs EXCEPT ![h] = x] /\ calls' = [Saved(h) EXCEPT ![p] = Idle] /\ loaded' = loaded
        /\ alive' = alive /\ drain' = drain /\ fresh' = fresh
    BY <1>0, <1>5 DEF Adoption_pending, TypeOK
  <2> HIDE DEF x
  <2>5. \A t \in Sessions : runs'[t] = IF t = h THEN x ELSE runs[t]
    BY <1>0, <2>4 DEF TypeOK
  <2>6. \A q \in Processes : calls'[q].at = "claim" =>
          calls[q].at = "claim" /\ calls[q].from = calls'[q].from
    BY <1>0, <2>4, CallGoesOn, Idles
  <2>8. \A t \in Sessions : runs'[t].owner = runs[t].owner /\ (Gone(t)' <=> Gone(t))
    BY <2>2, <2>5 DEF Gone
  <2> QED
    BY <2>4, <2>6, <2>8, CallDrain
<1> QED
  BY <1>1, <1>2, <1>3, <1>4, <1>5, CheckDrain DEF Adoption


LEMMA RetryDrain ==
    ASSUME AdoptInv, DrainInv, NEW s \in Sessions, Retry_pending(s)
    PROVE  DrainInv' /\ Stays
<1>0. TypeOK
  BY DEF AdoptInv, TypeInv
<1>1. /\ runs' = runs /\ loaded' = loaded /\ alive' = alive /\ drain' = drain /\ fresh' = fresh
      /\ loaded[s] \in Processes
  BY <1>0 DEF Retry_pending, TypeOK, Loaded, Router, Processes
<1>2. PICK c : c.at # "claim" /\ calls' = [Saved(s) EXCEPT ![loaded[s]] = c]
  <2>1. runs[s].pending \in Session /\ runs[s].pending # NoOne
    BY <1>0, Fields DEF Retry_pending
  <2>2. runs[s].pending \in Sessions
    BY <2>1 DEF Session
  <2>3. Adopt_at(runs[s].pending, s).at = "check" /\ Clear(s).at = "clear"
    BY <2>2, Idles DEF Session
  <2> QED
    BY <2>3 DEF Retry_pending
<1>3. \A q \in Processes : calls'[q].at = "claim" =>
         calls[q].at = "claim" /\ calls[q].from = calls'[q].from
  BY <1>0, <1>1, <1>2, CallGoesOn
<1> QED
  BY <1>1, <1>3, CallDrain DEF Gone

LEMMA DrainNext ==
    ASSUME AdoptInv, DrainInv, Steady, Next
    PROVE  DrainInv' /\ Stays
<1>1. ASSUME NEW s \in Sessions, SessionStep(s) PROVE DrainInv' /\ Stays
  BY <1>1, LoadDrain, LapseDrain, CloseDrain, RunDrain, RetryDrain, DrainSaves DEF SessionStep
<1>2. ASSUME NEW p \in Processes, NEW c, c.at # "claim", Goto(p, c),
             UNCHANGED <<runs, fresh, loaded, drain, alive, latest>>
      PROVE  DrainInv' /\ Stays
  <2>1. \A q \in Processes : calls'[q].at = "claim" =>
           calls[q].at = "claim" /\ calls[q].from = calls'[q].from
    BY <1>2 DEF Goto, AdoptInv, TypeInv, TypeOK
  <2> QED
    BY <1>2, <2>1, CallDrain DEF Gone
<1>3. ASSUME NEW p \in Commands, NEW from \in Sessions, NEW into \in Sessions,
             Adopt_run(p, from, into) PROVE DrainInv' /\ Stays
  <2>1. Adopt_at(from, into).at # "claim" /\ p \in Processes
    BY Idles DEF Session, Processes
  <2> QED
    BY <1>2, <1>3, <2>1 DEF Adopt_run
<1>4. ASSUME NEW p \in Failing, GivesUp(p) PROVE DrainInv' /\ Stays
  <2>1. Idle.at # "claim" /\ p \in Processes
    BY Idles, AdoptAssumption DEF Processes
  <2> QED
    BY <1>2, <1>4, <2>1 DEF GivesUp
<1> QED
  BY <1>1, <1>3, <1>4, AdoptionDrain, DiesDrain DEF Next

LEMMA DrainStutter ==
    ASSUME DrainInv, UNCHANGED vars
    PROVE  DrainInv'
  BY DEF vars, DrainInv, Orderly, Owners, Drains, Claims, Loaded, Gone

LEMMA DrainInit == Init => DrainInv
<1> SUFFICES ASSUME Init PROVE DrainInv
  OBVIOUS
<1>1. /\ \A s \in Sessions : runs[s].owner = NoOne /\ ~Loaded(s) /\ drain[s] = NoOne
      /\ alive = Routers
  BY DEF Init, NoRun, Loaded
<1> QED
  BY <1>1, AdoptAssumption DEF DrainInv, Owners, Drains

\* A superseded run stays superseded, where drains are orderly: a draining run
\* has a live owner with a young lease, so no claim passes the check, and the
\* drain's own save makes an earlier claim repeat it (run_drain, live_owner,
\* adopt_at).
THEOREM SupersededStays == Steady => (Spec => SupersededForGood)
<1>1. Steady /\ AdoptInv /\ DrainInv /\ [Next]_vars =>
         /\ AdoptInv' /\ DrainInv'
         /\ [\A s \in Sessions :
               runs[s].status = "superseded" => runs'[s].status = "superseded"]_vars
  BY DrainNext, DrainStutter, AdoptNext, AdoptStutter DEF Stays, Gone
<1>2. Init => AdoptInv /\ DrainInv
  BY AdoptInit, DrainInit
<1>3. Steady => Steady'
  BY DEF Steady, Orderly
<1>4. Steady /\ Spec => []Steady
  BY <1>3, PTL DEF Spec
<1> QED
  BY <1>1, <1>2, <1>4, PTL DEF Spec, SupersededForGood

\* Where drains are orderly, the theorems above need no assumption on the
\* behaviour (adopt, adopt_at, planner_shutdown).
THEOREM SteadyAdoption ==
    Steady => (Spec => [](OneCoordinator /\ ProgressKept /\ InputKept) /\ LiveAttemptStays)
<1>1. AdoptInv => OneCoordinator /\ ProgressKept /\ InputKept
  BY AdoptProperties
<1> QED
  BY <1>1, AdoptInvariant, SupersededStays, LiveAttempts, PTL
==============================================================================
