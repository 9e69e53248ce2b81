----------------------------- MODULE MCMcpSignIn -----------------------------
(* The small instances of McpSignIn that TLC explores. *)
EXTENDS McpSignIn, TLC

Symmetry == Permutations(Routers)

\* Requests of two routers with a fault; a request while tokens age and a person
\* acts; the same with a cancelled sign-in and a fault; two commands of people,
\* one of them cancelled or pasted.
SharedBudgets == {[calls |-> 2, ages |-> 2, acts |-> 0, stops |-> 0, faults |-> 1],
                  [calls |-> 1, ages |-> 2, acts |-> 1, stops |-> 0, faults |-> 0],
                  [calls |-> 1, ages |-> 1, acts |-> 1, stops |-> 1, faults |-> 1],
                  [calls |-> 0, ages |-> 0, acts |-> 2, stops |-> 1, faults |-> 1]}
==============================================================================
