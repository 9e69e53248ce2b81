---------------------------- MODULE WakeDelivery ----------------------------
(***************************************************************************)
(* What the lifecycle outbox promises for the events of one planner        *)
(* session, with nothing said of files, journals and receipts: an event    *)
(* that was raised is queued for the host once and stays until the host    *)
(* took it or it expired.  The event of a save is owed first, from the     *)
(* moment the save happened, and only the deletion of the run drops one    *)
(* that was not queued yet.                                                *)
(***************************************************************************)
CONSTANTS
    Events,
    Saves    \* the events that a save raises

VARIABLES
    status,  \* where each event is
    gone     \* the run was deleted

Status == {"none", "owed", "queued", "settled", "dropped"}

In(where) == {e \in Events : status[e] = where}
Move(S, where) == status' = [e \in Events |-> IF e \in S THEN where ELSE status[e]]

Init ==
    /\ status = [e \in Events |-> "none"]
    /\ gone = FALSE

\* A save happened, or an event is queued at once.  The deletion of the run may
\* have overtaken the save.
Raise ==
    /\ \E e \in In("none") :
          \/ e \in Saves /\ Move({e}, "owed")
          \/ e \notin Saves /\ Move({e}, "queued")
          \/ gone /\ Move({e}, "dropped")
    /\ UNCHANGED gone

\* The owed events are queued some at a time; of a deleted run they may be
\* dropped instead.
Publish ==
    /\ \E S, D \in SUBSET In("owed") :
          /\ gone \/ D = {}
          /\ status' = [e \in Events |-> CASE e \in S -> "queued"
                                         [] e \in D \ S -> "dropped"
                                         [] OTHER -> status[e]]
    /\ UNCHANGED gone

\* The host has taken it, or its time is over.
Settle ==
    /\ \E S \in SUBSET In("queued") : Move(S, "settled")
    /\ UNCHANGED gone

Delete ==
    /\ gone' = TRUE
    /\ UNCHANGED status

Next == Raise \/ Publish \/ Settle \/ Delete

Spec == Init /\ [][Next]_<<status, gone>>
=============================================================================
