------------------------- MODULE MCCredentialRepair -------------------------
(***************************************************************************)
(* Two routers that share one account.                                     *)
(***************************************************************************)
EXTENDS CredentialRepair, TLC

CONSTANTS r1, r2

MCRouters == {r1, r2}
\* Any two of: a fault, an expiry, an act of a person.
MCBudgets == {[faults |-> 1, expiries |-> 1, acts |-> 0],
              [faults |-> 1, expiries |-> 0, acts |-> 1],
              [faults |-> 0, expiries |-> 1, acts |-> 1]}
=============================================================================
