----------------------------- MODULE MCTxLoader -----------------------------
(* Two callers that ask for one transaction of JungleBus.                   *)
EXTENDS TxLoader, TLC

MCJungleBus == {{"jb"}}

\* Callers differ in name only.
Symmetric == Permutations(Callers)
=============================================================================
