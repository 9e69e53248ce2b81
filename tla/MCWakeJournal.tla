---------------------------- MODULE MCWakeJournal ----------------------------
(* Instances of the wake journal for TLC. *)
EXTENDS WakeJournal
===============================================================================
