--------------------------- MODULE MCTxLifecycle ---------------------------
(* Model values for TxLifecycle: one transaction, as transactions meet only *)
(* in the tip and the phase of the audit, with one job of every kind.       *)
EXTENDS TxLifecycle

CONSTANTS MaxInputs, MaxCallbacks, MaxFaults

MCBounds == [input |-> MaxInputs, callback |-> MaxCallbacks, fault |-> MaxFaults]
=============================================================================
