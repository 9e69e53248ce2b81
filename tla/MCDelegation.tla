---------------------------- MODULE MCDelegation ----------------------------
(***************************************************************************)
(* Two background delegations of one parent over two accounts; the first   *)
(* is kept open.                                                           *)
(***************************************************************************)
EXTENDS Delegation

CONSTANTS d1, d2

MCDelegates == {d1, d2}
MCBackground == {d1, d2}
MCKept == {d1}
MCBudgets == {[faults |-> 2, acts |-> 1], [faults |-> 1, acts |-> 2]}
=============================================================================
