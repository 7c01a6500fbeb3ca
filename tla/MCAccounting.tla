---------------------------- MODULE MCAccounting ----------------------------
(* Small instances of Accounting for TLC. *)
EXTENDS Accounting

OneOrg == [r \in Requests |-> "org"]
=============================================================================
